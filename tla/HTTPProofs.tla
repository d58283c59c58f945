----------------------------- MODULE HTTPProofs -----------------------------
(***************************************************************************)
(* HTTPServer: the responses of a connection follow each other, it closes  *)
(* in time and never stalls, whatever the client sends, the kernel takes   *)
(* and the handlers do.                                                    *)
(***************************************************************************)
EXTENDS ServicesProofs

HttpIds == 1 .. MaxRequests
Reads == {"headers", "body"}
HttpEvent == [kind : Reads \cup {"written", "closed"}, id : Nat]
Chunk == [id : HttpIds, part : Nat]

\* The record of a connection, with its fields.
ConnFields ==
    {"open", "reading", "got", "gotOwed", "wbuf", "wire", "streamCb", "closeCb", "queue",
     "parsed", "request", "requestFinished", "writeCallback", "within"}
ConnRecord(c) == c = [f \in ConnFields |-> c[f]]

ConnTypes(c) ==
    /\ ConnRecord(c)
    /\ c.open \in BOOLEAN /\ c.gotOwed \in BOOLEAN /\ c.streamCb \in BOOLEAN
    /\ c.requestFinished \in BOOLEAN
    /\ c.reading \in Reads \cup {"none"} /\ c.within \in {"none", "headers", "written"}
    /\ c.got \in Nat /\ c.parsed \in Nat /\ c.parsed <= c.got /\ c.got <= Len(requests)
    /\ c.request \in {0, c.parsed} /\ c.closeCb \in {0, c.request}
    /\ c.writeCallback \in 0 .. c.parsed
    /\ c.wbuf \in Seq(Chunk) /\ c.wire \in Seq(Chunk)
    /\ c.queue \in Seq(HttpEvent)

HandlerType ==
    [phase : {"none", "execute", "callback", "waiting", "done"}, autoFinish : BOOLEAN,
     headersWritten : BOOLEAN, framing : {"none", "length", "chunked"}, finished : BOOLEAN,
     ended : BOOLEAN, closedSeen : 0 .. 1, wrote : Nat]
HandlerTypes(hs) == hs \in [HttpIds -> HandlerType]

\* A response says where it ends, and is finished after it has begun.
Framed(h, r) ==
    /\ h.finished => h.ended
    /\ h.ended => h.headersWritten
    /\ h.headersWritten /\ requests[r].http11 => h.framing \in {"length", "chunked"}
\* The requests before the one that is served are answered, those after it are not known.
Before(c, hs) ==
    /\ \A r \in HttpIds : r < c.parsed => hs[r].finished
    /\ \A r \in HttpIds : r > c.parsed => hs[r] = Http!NoHandler
    /\ \A r \in HttpIds : r <= c.parsed => Framed(hs[r], r)

\* One read at a time is under way: asked for, or with its callback in the queue.
NoReadQueued(c) == \A i \in DOMAIN c.queue : c.queue[i].kind \notin Reads
Reading(c, what) ==
    \/ c.reading = what /\ NoReadQueued(c)
    \/ /\ c.reading = "none"
       /\ \E i \in DOMAIN c.queue :
             /\ c.queue[i].kind = what
             /\ \A j \in DOMAIN c.queue : c.queue[j].kind \in Reads => j = i
Quiet(c) == c.reading = "none" /\ NoReadQueued(c)

\* Where the connection stands: between two requests, in the body of one, in its
\* handler, or at its end.
BetweenRequests(c, hs) ==
    /\ c.request = 0 /\ ~c.requestFinished
    /\ Reading(c, "headers") /\ (c.reading = "none" => c.parsed < c.got)
    /\ c.parsed # 0 => hs[c.parsed].finished
InBody(c, hs) ==
    /\ c.parsed # 0 /\ c.request = c.parsed /\ ~c.requestFinished /\ c.closeCb = 0
    /\ Reading(c, "body")
    /\ hs[c.parsed] = Http!NoHandler
InHandler(c, hs) ==
    /\ c.parsed # 0 /\ c.request = c.parsed
    /\ Quiet(c)
    /\ hs[c.parsed].phase # "none"
    /\ hs[c.parsed].ended = c.requestFinished /\ hs[c.parsed].finished = c.requestFinished
    /\ c.closeCb # 0 => ~c.requestFinished
AtEnd(c, hs) ==
    /\ ~c.open /\ ~c.requestFinished /\ c.closeCb = 0
    /\ NoReadQueued(c)
    /\ c.parsed # 0 =>
          \/ hs[c.parsed] = Http!NoHandler
          \/ hs[c.parsed].finished
          \/ hs[c.parsed].ended /\ c.request = 0
Stage(c, hs) == BetweenRequests(c, hs) \/ InBody(c, hs) \/ InHandler(c, hs) \/ AtEnd(c, hs)

\* The news of the end is the first callback in the queue, and the handler it is for
\* has not heard it.
Unheard(h) == h.closedSeen = 0 /\ h.phase # "none"
ClosedNews(c, hs) ==
    /\ \A i \in DOMAIN c.queue :
          c.queue[i].kind = "closed" =>
             /\ i = 1 /\ c.queue[i].id \in 1 .. c.parsed /\ c.queue[i].id # c.closeCb
             /\ Unheard(hs[c.queue[i].id])
    /\ c.closeCb # 0 => Unheard(hs[c.closeCb])
\* What is left to write is of the request served, and of a client that has gone if the
\* connection is closed and no callback of a flush() has raised.
MayBeCut == client.gone # "no" \/ FlushCallbacksRaise
LeftToWrite(c, hs) ==
    /\ Http!Writing(c) => c.request # 0 /\ (c.open \/ MayBeCut)
    /\ c.open /\ Http!Writing(c) /\ c.request # 0 /\ hs[c.request].headersWritten => c.streamCb

SentOf(c) == c.wire \o c.wbuf
Next2(a, b, hs) ==
    \/ a.id = b.id /\ b.part = a.part + 1
    \/ a.id < b.id /\ b.part \in {0, 1} /\ hs[a.id].finished /\ a.part = hs[a.id].wrote
InOrder(s, hs) == \A i \in 2 .. Len(s) : Next2(s[i - 1], s[i], hs)
\* The last part sent is the last its handler wrote.
LastSent(c, s, hs) ==
    /\ s # <<>> => /\ s[Len(s)].id <= c.parsed
                   /\ c.open => s[Len(s)].part = hs[s[Len(s)].id].wrote
                   /\ c.open /\ s[Len(s)].id # c.request => hs[s[Len(s)].id].finished
    /\ c.open /\ c.request # 0 /\ hs[c.request].wrote > 0 =>
          s # <<>> /\ s[Len(s)].id = c.request
Ordered(c, hs) == InOrder(SentOf(c), hs) /\ LastSent(c, SentOf(c), hs)

\* What every call keeps, wherever the connection stands.
HttpBase(c, hs) ==
    /\ ConnTypes(c) /\ HandlerTypes(hs) /\ Before(c, hs)
    /\ ClosedNews(c, hs) /\ LeftToWrite(c, hs) /\ Ordered(c, hs)
HttpMid(c, hs) == HttpBase(c, hs) /\ Stage(c, hs)

\* A handler that has ended is followed: by a callback to come, or the one that runs.
WrittenQueued(c) == \E i \in DOMAIN c.queue : c.queue[i].kind = "written"
Followed(c, hs) ==
    c.open /\ c.request # 0 /\ hs[c.request].ended =>
        Http!Writing(c) \/ WrittenQueued(c) \/ c.within = "written"

\* Application code has the turn, or no callback runs.
TurnRight ==
    /\ turn = 0 => conn.within = "none"
    /\ turn # 0 => turn \in 1 .. conn.parsed /\ handler[turn].phase # "none"
    /\ conn.writeCallback # 0 => handler[conn.writeCallback].phase # "none"
\* A handler that has not ended runs, or waits for its callback.
GoesOn(hs) ==
    \A r \in HttpIds : hs[r].phase # "none" /\ ~hs[r].ended =>
        IF turn = r THEN hs[r].phase = "execute" \/ ~hs[r].autoFinish
        ELSE hs[r].phase = "waiting" /\ ~hs[r].autoFinish
HttpWorld ==
    /\ requests \in Seq(Kinds) /\ Len(requests) <= MaxRequests
    /\ client \in [owed : BOOLEAN, gone : {"no", "fin", "reset"}]
HttpInv ==
    /\ HttpWorld
    /\ HttpMid(conn, handler) /\ Followed(conn, handler) /\ TurnRight /\ GoesOn(handler)

-----------------------------------------------------------------------------
(* The connection alone.                                                   *)

SameRead(d, c) ==
    d.reading = c.reading /\ d.got = c.got /\ d.gotOwed = c.gotOwed /\ d.parsed = c.parsed
SameWrite(d, c) == d.wbuf = c.wbuf /\ d.wire = c.wire /\ d.streamCb = c.streamCb
SameRequest(d, c) ==
    /\ d.request = c.request /\ d.requestFinished = c.requestFinished
    /\ d.writeCallback = c.writeCallback /\ d.within = c.within

\* At most a callback of another kind than a read is added.
QueueGrows(d, c) ==
    \/ d.queue = c.queue
    \/ \E e \in HttpEvent : e.kind \notin Reads /\ d.queue = Append(c.queue, e)
\* Where the connection stands is as before, but that it may have closed.
StandsNear(d, c) ==
    /\ SameRead(d, c) /\ QueueGrows(d, c)
    /\ d.request = c.request /\ d.requestFinished = c.requestFinished /\ d.within = c.within
    /\ d.closeCb = 0 \/ d.closeCb = c.closeCb
    /\ c.open \/ d.open = c.open
StandsAs(d, c) == StandsNear(d, c) /\ d.writeCallback = c.writeCallback

LEMMA QueueFields ==
    ASSUME NEW c, ConnTypes(c), NEW e \in HttpEvent
    PROVE  LET d == Http!Queue(c, e)
           IN  /\ ConnTypes(d) /\ d.queue = Append(c.queue, e)
               /\ d.open = c.open /\ d.closeCb = c.closeCb
               /\ SameRead(d, c) /\ SameWrite(d, c) /\ SameRequest(d, c)
<1> DEFINE d == Http!Queue(c, e)
<1>1. ConnRecord(c)
  BY DEF ConnTypes
<1>2. ConnRecord(d) /\ d.queue = Append(c.queue, e)
  BY <1>1 DEF ConnRecord, ConnFields, Http!Queue
<1>3. /\ d.open = c.open /\ d.closeCb = c.closeCb
      /\ SameRead(d, c) /\ SameWrite(d, c) /\ SameRequest(d, c)
  BY <1>1 DEF ConnRecord, ConnFields, Http!Queue, SameRead, SameWrite, SameRequest
<1>4. Append(c.queue, e) \in Seq(HttpEvent)
  BY DEF ConnTypes
<1> HIDE DEF d
<1>5. ConnTypes(d)
  BY <1>2, <1>3, <1>4 DEF ConnTypes, SameRead, SameWrite, SameRequest
<1> QED
  BY <1>2, <1>3, <1>5 DEF d

\* A callback of another kind than a read leaves the reads as they are.
LEMMA NoReadMore ==
    ASSUME NEW c, NEW d, c.queue \in Seq(HttpEvent), NEW e \in HttpEvent, e.kind \notin Reads,
           d.queue = Append(c.queue, e), d.reading = c.reading
    PROVE  /\ NoReadQueued(c) => NoReadQueued(d)
           /\ \A what \in Reads : Reading(c, what) => Reading(d, what)
<1> DEFINE n == Len(c.queue)
<1>1. /\ n \in Nat /\ DOMAIN d.queue = 1 .. n + 1 /\ DOMAIN c.queue = 1 .. n
      /\ \A i \in 1 .. n : d.queue[i] = c.queue[i]
      /\ d.queue[n + 1] = e
  OBVIOUS
<1> HIDE DEF n
<1>2. \A i \in 1 .. n + 1 : i \in 1 .. n \/ i = n + 1
  BY <1>1
<1>3. \A i \in 1 .. n : i \in 1 .. n + 1
  BY <1>1
<1>4. \A i \in DOMAIN d.queue : d.queue[i].kind \in Reads => i \in DOMAIN c.queue
  BY <1>1, <1>2
<1>5. NoReadQueued(c) => NoReadQueued(d)
  BY <1>1, <1>4 DEF NoReadQueued
<1>6. ASSUME NEW what \in Reads, Reading(c, what) PROVE Reading(d, what)
  <2>1. CASE c.reading = what /\ NoReadQueued(c)
    BY <1>5, <2>1 DEF Reading
  <2>2. ASSUME c.reading = "none", NEW i \in DOMAIN c.queue, c.queue[i].kind = what,
               \A j \in DOMAIN c.queue : c.queue[j].kind \in Reads => j = i
        PROVE  Reading(d, what)
    <3>1. i \in DOMAIN d.queue /\ d.queue[i].kind = what
      BY <1>1, <1>3, <2>2
    <3>2. \A j \in DOMAIN d.queue : d.queue[j].kind \in Reads => j = i
      BY <1>1, <1>4, <2>2
    <3> QED
      BY <2>2, <3>1, <3>2 DEF Reading
  <2> QED
    BY <1>6, <2>1, <2>2 DEF Reading
<1> QED
  BY <1>5, <1>6

\* The stage does not depend on what is written, nor on callbacks other than reads.
LEMMA StageKept ==
    ASSUME NEW c, NEW d, NEW hs, c.queue \in Seq(HttpEvent), Stage(c, hs), StandsNear(d, c)
    PROVE  Stage(d, hs)
<1> USE DEF StandsNear
<1>1. /\ NoReadQueued(c) => NoReadQueued(d)
      /\ \A what \in Reads : Reading(c, what) => Reading(d, what)
  <2>1. CASE d.queue = c.queue
    BY <2>1 DEF SameRead, NoReadQueued, Reading
  <2>2. CASE \E e \in HttpEvent : e.kind \notin Reads /\ d.queue = Append(c.queue, e)
    BY <2>2, NoReadMore DEF SameRead
  <2> QED
    BY <2>1, <2>2 DEF QueueGrows
<1>2. CASE BetweenRequests(c, hs)
  BY <1>1, <1>2 DEF Stage, BetweenRequests, Reads, SameRead
<1>3. CASE InBody(c, hs)
  BY <1>1, <1>3 DEF Stage, InBody, Reads, SameRead
<1>4. CASE InHandler(c, hs)
  BY <1>1, <1>4 DEF Stage, InHandler, Quiet, SameRead
<1>5. CASE AtEnd(c, hs)
  BY <1>1, <1>5 DEF Stage, AtEnd, SameRead
<1> QED
  BY <1>2, <1>3, <1>4, <1>5 DEF Stage

LEMMA RunCloseKeeps ==
    ASSUME NEW c, NEW hs, HttpBase(c, hs)
    PROVE  LET d == Http!MaybeRunClose(c)
           IN  /\ HttpBase(d, hs) /\ StandsAs(d, c) /\ SameWrite(d, c)
               /\ d.open = c.open /\ (c.open \/ c.closeCb = 0 => d = c)
<1>1. CASE ~(~c.open /\ c.closeCb # 0 /\ c.queue = <<>>)
  BY <1>1 DEF Http!MaybeRunClose, SameRead, SameRequest, SameWrite, StandsAs, StandsNear,
     QueueGrows
<1>2. CASE ~c.open /\ c.closeCb # 0 /\ c.queue = <<>>
  <2> DEFINE b == [c EXCEPT !.closeCb = 0]
             e == Http!Event("closed", c.closeCb)
             d == Http!Queue(b, e)
  <2>0. ConnRecord(c) /\ ConnTypes(c)
    BY DEF HttpBase, ConnTypes
  <2>1. ConnRecord(b) /\ b.closeCb = 0
    BY <2>0 DEF ConnRecord, ConnFields
  <2>2. /\ b.open = c.open /\ b.queue = c.queue
        /\ SameRead(b, c) /\ SameWrite(b, c) /\ SameRequest(b, c)
    BY <2>0 DEF ConnRecord, ConnFields, SameRead, SameWrite, SameRequest
  <2>3. e \in HttpEvent /\ e.kind = "closed" /\ e.id = c.closeCb /\ e.kind \notin Reads
    BY <2>0 DEF ConnTypes, HttpEvent, Http!Event, Reads
  <2>4. Http!MaybeRunClose(c) = d
    BY <1>2 DEF Http!MaybeRunClose
  <2> HIDE DEF b, e
  <2>5. ConnTypes(b)
    BY <2>0, <2>1, <2>2 DEF ConnTypes, SameRead, SameWrite, SameRequest
  <2>6. /\ ConnTypes(d) /\ d.queue = Append(b.queue, e) /\ d.open = b.open /\ d.closeCb = b.closeCb
        /\ SameRead(d, b) /\ SameWrite(d, b) /\ SameRequest(d, b)
    BY <2>3, <2>5, QueueFields
  <2> HIDE DEF d
  <2>7. /\ ConnTypes(d) /\ d.open = c.open /\ d.closeCb = 0 /\ d.queue = Append(c.queue, e)
        /\ SameRead(d, c) /\ SameWrite(d, c) /\ SameRequest(d, c)
    BY <2>1, <2>2, <2>6 DEF SameRead, SameWrite, SameRequest
  <2>8. StandsAs(d, c)
    BY <2>3, <2>7 DEF StandsAs, StandsNear, QueueGrows, SameRequest
  <2>9. ClosedNews(d, hs)
    <3>1. DOMAIN d.queue = {1} /\ d.queue[1] = e
      BY <1>2, <2>7
    <3>2. e.id \in 1 .. c.parsed /\ Unheard(hs[e.id]) /\ e.id # 0
      BY <1>2, <2>0, <2>3 DEF HttpBase, ClosedNews, ConnTypes
    <3> QED
      BY <2>7, <3>1, <3>2 DEF ClosedNews, SameRead
  <2>10. Before(d, hs) /\ LeftToWrite(d, hs) /\ Ordered(d, hs)
    BY <2>7 DEF HttpBase, Before, LeftToWrite, Http!Writing, Ordered, SentOf, LastSent, SameRead,
         SameWrite, SameRequest
  <2> QED
    BY <2>4, <2>7, <2>8, <2>9, <2>10, <1>2 DEF HttpBase
<1> QED
  BY <1>1, <1>2

\* A stream may close that has nothing to write, or whose responses may be cut.
LEMMA ShutKeeps ==
    ASSUME NEW c, NEW hs, HttpBase(c, hs), MayBeCut \/ ~Http!Writing(c)
    PROVE  LET d == [c EXCEPT !.open = FALSE]
           IN  /\ HttpBase(d, hs) /\ StandsAs(d, c) /\ SameWrite(d, c) /\ ~d.open
               /\ d.queue = c.queue /\ d.closeCb = c.closeCb
<1> DEFINE d == [c EXCEPT !.open = FALSE]
<1>0. ConnRecord(c) /\ ConnTypes(c)
  BY DEF HttpBase, ConnTypes
<1>1. ConnRecord(d) /\ d.open = FALSE
  BY <1>0 DEF ConnRecord, ConnFields
<1>2. /\ d.closeCb = c.closeCb /\ d.queue = c.queue
      /\ SameRead(d, c) /\ SameWrite(d, c) /\ SameRequest(d, c)
  BY <1>0 DEF ConnRecord, ConnFields, SameRead, SameWrite, SameRequest
<1> HIDE DEF d
<1>3. ConnTypes(d)
  BY <1>0, <1>1, <1>2 DEF ConnTypes, SameRead, SameWrite, SameRequest
<1>4. StandsAs(d, c)
  BY <1>0, <1>1, <1>2 DEF StandsAs, StandsNear, QueueGrows, SameRequest, ConnTypes
<1>5. Before(d, hs) /\ LeftToWrite(d, hs) /\ Ordered(d, hs) /\ ClosedNews(d, hs)
  BY <1>1, <1>2 DEF HttpBase, Before, LeftToWrite, Http!Writing, Ordered, SentOf, LastSent,
     SameRead, SameWrite, SameRequest, ClosedNews
<1> QED
  BY <1>1, <1>2, <1>3, <1>4, <1>5 DEF HttpBase, d

LEMMA StandsAsStill ==
    ASSUME NEW c, NEW d, NEW e, StandsAs(d, c), StandsAs(e, d), d.queue = c.queue
    PROVE  StandsAs(e, c)
BY DEF StandsAs, StandsNear, QueueGrows, SameRead, SameRequest

LEMMA CloseKeeps ==
    ASSUME NEW c, NEW hs, HttpBase(c, hs), MayBeCut \/ ~Http!Writing(c)
    PROVE  LET d == Http!CloseStream(c)
           IN  HttpBase(d, hs) /\ StandsAs(d, c) /\ SameWrite(d, c) /\ ~d.open
<1> DEFINE b == [c EXCEPT !.open = FALSE]
           d == Http!MaybeRunClose(b)
<1>1. /\ HttpBase(b, hs) /\ StandsAs(b, c) /\ SameWrite(b, c) /\ ~b.open
      /\ b.queue = c.queue /\ b.closeCb = c.closeCb
  BY ShutKeeps
<1> HIDE DEF b
<1>2. /\ HttpBase(d, hs) /\ StandsAs(d, b) /\ SameWrite(d, b) /\ d.open = b.open
  BY <1>1, RunCloseKeeps
<1> HIDE DEF d
<1>3. StandsAs(d, c)
  BY <1>1, <1>2, StandsAsStill
<1>4. SameWrite(d, c) /\ ~d.open
  BY <1>1, <1>2 DEF SameWrite
<1> QED
  BY <1>2, <1>3, <1>4 DEF b, d, Http!CloseStream

\* p is a with b behind it.
Joins(p, a, b) ==
    /\ Len(p) = Len(a) + Len(b)
    /\ \A i \in 1 .. Len(a) : p[i] = a[i]
    /\ \A i \in 1 .. Len(b) : p[Len(a) + i] = b[i]

LEMMA Joined ==
    ASSUME NEW S, NEW a \in Seq(S), NEW b \in Seq(S)
    PROVE  a \o b \in Seq(S) /\ Joins(a \o b, a, b)
<1>1. ASSUME NEW i \in 1 .. Len(b) PROVE (a \o b)[Len(a) + i] = b[i]
  <2>1. Len(a) + i \in 1 .. Len(a) + Len(b) /\ Len(a) + i > Len(a) /\ (Len(a) + i) - Len(a) = i
    OBVIOUS
  <2> QED
    BY <2>1
<1> QED
  BY <1>1 DEF Joins

\* What is taken from the buffer is on its way: nothing is lost, nothing overtakes.
LEMMA TakenFromBuffer ==
    ASSUME NEW S, NEW s \in Seq(S), NEW t \in Seq(S), NEW n \in 0 .. Len(t)
    PROVE  /\ SubSeq(t, 1, n) \in Seq(S) /\ SubSeq(t, n + 1, Len(t)) \in Seq(S)
           /\ (s \o SubSeq(t, 1, n)) \o SubSeq(t, n + 1, Len(t)) = s \o t
<1> DEFINE u == SubSeq(t, 1, n)
           v == SubSeq(t, n + 1, Len(t))
           w == s \o u
           p == w \o v
           q == s \o t
<1>1. /\ u \in Seq(S) /\ Len(u) = n /\ \A i \in 1 .. n : u[i] = t[i]
      /\ v \in Seq(S) /\ Len(v) = Len(t) - n /\ \A i \in 1 .. Len(t) - n : v[i] = t[n + i]
  OBVIOUS
<1> HIDE DEF u, v
<1>2. w \in Seq(S) /\ Joins(w, s, u)
  BY <1>1, Joined
<1> HIDE DEF w
<1>3. p \in Seq(S) /\ Joins(p, w, v)
  BY <1>1, <1>2, Joined
<1>4. q \in Seq(S) /\ Joins(q, s, t)
  BY Joined
<1> HIDE DEF p, q
<1>10. Len(w) = Len(s) + n /\ Len(p) = Len(s) + Len(t) /\ Len(q) = Len(p)
  <2>1. Len(s) \in Nat /\ Len(t) \in Nat /\ n \in Nat
    OBVIOUS
  <2>2. /\ Len(w) = Len(s) + Len(u) /\ Len(p) = Len(w) + Len(v) /\ Len(q) = Len(s) + Len(t)
        /\ Len(u) = n /\ Len(v) = Len(t) - n
    BY <1>1, <1>2, <1>3, <1>4 DEF Joins
  <2> QED
    BY ONLY <2>1, <2>2
<1>5. ASSUME NEW i \in 1 .. Len(p) PROVE p[i] = q[i]
  <2>1. CASE i \in 1 .. Len(s)
    BY <2>1, <1>2, <1>3, <1>4, <1>10 DEF Joins
  <2>2. ASSUME NEW k \in 1 .. n, i = Len(s) + k PROVE p[i] = q[i]
    <3>1. i \in 1 .. Len(w) /\ k \in 1 .. Len(u) /\ k \in 1 .. Len(t)
      BY <2>2, <1>1, <1>10
    <3>2. p[i] = w[i] /\ w[i] = u[k] /\ q[i] = t[k]
      BY <3>1, <2>2, <1>2, <1>3, <1>4 DEF Joins
    <3> QED
      BY <3>2, <1>1
  <2>3. ASSUME NEW k \in 1 .. Len(t) - n, i = Len(s) + n + k PROVE p[i] = q[i]
    <3>1. n + k \in 1 .. Len(t) /\ Len(s) + (n + k) = i /\ Len(w) + k = i /\ k \in 1 .. Len(v)
      BY <2>3, <1>1, <1>10
    <3>2. q[i] = t[n + k] /\ p[i] = v[k]
      BY <1>3, <1>4, <3>1 DEF Joins
    <3> QED
      BY <3>2, <1>1
  <2>4. CASE i \in Len(s) + 1 .. Len(s) + n
    <3>1. i - Len(s) \in 1 .. n /\ i = Len(s) + (i - Len(s))
      BY <2>4
    <3> QED
      BY <3>1, <2>2
  <2>5. CASE i \in Len(s) + n + 1 .. Len(s) + Len(t)
    <3>1. i - Len(s) - n \in 1 .. Len(t) - n /\ i = Len(s) + n + (i - Len(s) - n)
      BY <2>5
    <3> QED
      BY <3>1, <2>3
  <2> QED
    BY <1>10, <2>1, <2>4, <2>5
<1>6. p = q
  BY <1>3, <1>4, <1>10, <1>5
<1> QED
  BY <1>1, <1>6 DEF p, q, w, u, v

\* The kernel takes the first n parts.
LEMMA WrittenKeeps ==
    ASSUME NEW c, NEW hs, HttpBase(c, hs), NEW n \in 0 .. Len(c.wbuf)
    PROVE  LET d == Http!Written(c, n)
           IN  /\ HttpBase(d, hs) /\ StandsAs(d, c) /\ d.open = c.open
               /\ Http!Writing(c) /\ c.streamCb => Http!Writing(d) \/ WrittenQueued(d)
               /\ WrittenQueued(c) => WrittenQueued(d)
<1> DEFINE u == SubSeq(c.wbuf, 1, n)
           v == SubSeq(c.wbuf, n + 1, Len(c.wbuf))
           b == [c EXCEPT !.wire = @ \o u, !.wbuf = v]
           a == [b EXCEPT !.streamCb = FALSE]
           e == Http!Event("written", 0)
           d == Http!Written(c, n)
<1>0. ConnRecord(c) /\ ConnTypes(c)
  BY DEF HttpBase, ConnTypes
<1>1. u \in Seq(Chunk) /\ v \in Seq(Chunk) /\ (c.wire \o u) \o v = c.wire \o c.wbuf
  <2>1. c.wire \in Seq(Chunk) /\ c.wbuf \in Seq(Chunk)
    BY <1>0 DEF ConnTypes
  <2> DEFINE s == c.wire
             t == c.wbuf
  <2>0. s \in Seq(Chunk) /\ t \in Seq(Chunk) /\ n \in 0 .. Len(t)
    BY <2>1
  <2> HIDE DEF s, t
  <2>2. /\ SubSeq(t, 1, n) \in Seq(Chunk) /\ SubSeq(t, n + 1, Len(t)) \in Seq(Chunk)
        /\ (s \o SubSeq(t, 1, n)) \o SubSeq(t, n + 1, Len(t)) = s \o t
    BY ONLY <2>0, TakenFromBuffer, ZenonT(60)
  <2> QED
    BY <2>2, Zenon DEF s, t
<1>2. v # <<>> => c.wbuf # <<>>
  BY <1>0 DEF ConnTypes
<1> HIDE DEF u, v
<1>3. c.wire \o u \in Seq(Chunk)
  BY <1>0, <1>1, Joined DEF ConnTypes
<1>4. ConnRecord(b) /\ b.wire = c.wire \o u /\ b.wbuf = v
  BY <1>0 DEF ConnRecord, ConnFields
<1>5. /\ b.open = c.open /\ b.closeCb = c.closeCb /\ b.queue = c.queue /\ b.streamCb = c.streamCb
      /\ SameRead(b, c) /\ SameRequest(b, c)
  BY <1>0 DEF ConnRecord, ConnFields, SameRead, SameRequest
<1>6. d = IF b.wbuf = <<>> /\ b.streamCb THEN Http!Queue(a, e) ELSE b
  BY <1>0 DEF Http!Written, u, v, ConnRecord, ConnFields
<1> HIDE DEF b
<1>7. HttpBase(b, hs)
  <2>1. ConnTypes(b)
    BY <1>0, <1>1, <1>3, <1>4, <1>5 DEF ConnTypes, SameRead, SameRequest
  <2>2. SentOf(b) = SentOf(c)
    BY <1>1, <1>4 DEF SentOf
  <2>3. Before(b, hs) /\ LeftToWrite(b, hs) /\ Ordered(b, hs) /\ ClosedNews(b, hs)
    BY <1>2, <1>4, <1>5, <2>2 DEF HttpBase, Before, LeftToWrite, Http!Writing, Ordered, LastSent,
       SameRead, SameRequest, ClosedNews
  <2> QED
    BY <2>1, <2>3 DEF HttpBase
<1>8. CASE ~(b.wbuf = <<>> /\ b.streamCb)
  <2>1. d = b
    BY <1>6, <1>8
  <2>2. StandsAs(b, c)
    BY <1>5 DEF StandsAs, StandsNear, QueueGrows, SameRequest
  <2>3. Http!Writing(c) /\ c.streamCb => Http!Writing(b)
    BY <1>5, <1>8 DEF Http!Writing
  <2> HIDE DEF d
  <2> QED
    BY <1>5, <1>7, <2>1, <2>2, <2>3 DEF WrittenQueued, d
<1>9. CASE b.wbuf = <<>> /\ b.streamCb
  <2>1. ConnRecord(b)
    BY <1>4
  <2>2. ConnRecord(a) /\ a.streamCb = FALSE
    BY <2>1 DEF ConnRecord, ConnFields
  <2>3. /\ a.open = b.open /\ a.closeCb = b.closeCb /\ a.queue = b.queue
        /\ a.wbuf = b.wbuf /\ a.wire = b.wire /\ SameRead(a, b) /\ SameRequest(a, b)
    BY <2>1 DEF ConnRecord, ConnFields, SameRead, SameRequest
  <2> HIDE DEF a
  <2>4. ConnTypes(a)
    BY <1>7, <2>2, <2>3 DEF HttpBase, ConnTypes, SameRead, SameRequest
  <2>5. e \in HttpEvent /\ e.kind \notin Reads /\ e.kind = "written"
    BY DEF HttpEvent, Http!Event, Reads
  <2>6. d = Http!Queue(a, e)
    BY <1>6, <1>9
  <2> HIDE DEF e, d
  <2>7. /\ ConnTypes(d) /\ d.queue = Append(a.queue, e) /\ d.open = a.open /\ d.closeCb = a.closeCb
        /\ SameRead(d, a) /\ SameWrite(d, a) /\ SameRequest(d, a)
    BY <2>4, <2>5, <2>6, QueueFields
  <2>8. /\ ConnTypes(d) /\ d.queue = Append(c.queue, e) /\ d.open = c.open /\ d.closeCb = c.closeCb
        /\ d.wbuf = <<>> /\ d.wire = b.wire /\ SameRead(d, c) /\ SameRequest(d, c)
    BY <1>5, <1>9, <2>3, <2>7 DEF SameRead, SameWrite, SameRequest
  <2>9. StandsAs(d, c)
    BY <2>5, <2>8 DEF StandsAs, StandsNear, QueueGrows, SameRequest
  <2>10. ClosedNews(d, hs)
    <3>1. \A i \in DOMAIN d.queue :
             d.queue[i].kind = "closed" => i \in DOMAIN c.queue /\ d.queue[i] = c.queue[i]
      BY <1>0, <2>5, <2>8 DEF ConnTypes
    <3> QED
      BY <2>8, <3>1 DEF HttpBase, ClosedNews, SameRead
  <2>11. SentOf(d) = SentOf(b)
    BY <1>9, <2>8 DEF SentOf
  <2>12. Before(d, hs) /\ LeftToWrite(d, hs) /\ Ordered(d, hs)
    BY <1>5, <1>7, <2>8, <2>11 DEF HttpBase, Before, LeftToWrite, Http!Writing, Ordered, LastSent,
       SameRead, SameRequest
  <2>13. WrittenQueued(d)
    <3>1. Len(c.queue) + 1 \in DOMAIN d.queue /\ d.queue[Len(c.queue) + 1] = e
      BY <1>0, <2>8 DEF ConnTypes
    <3> QED
      BY <2>5, <3>1 DEF WrittenQueued
  <2> QED
    BY <1>7, <2>8, <2>9, <2>10, <2>12, <2>13 DEF HttpBase, d
<1> QED
  BY <1>8, <1>9

\* What a handler of its request does to its own state.
Changes(gs, hs, r) ==
    /\ HandlerTypes(gs)
    /\ \A k \in HttpIds : k # r => gs[k] = hs[k]
    /\ Framed(gs[r], r) /\ (Unheard(hs[r]) => Unheard(gs[r]))
    /\ hs[r].finished => gs[r].finished /\ gs[r].wrote = hs[r].wrote

LEMMA StillInOrder ==
    ASSUME NEW hs, NEW gs, NEW r \in HttpIds, Changes(gs, hs, r), NEW s \in Seq(Chunk),
           InOrder(s, hs)
    PROVE  InOrder(s, gs)
<1> SUFFICES ASSUME NEW i \in 2 .. Len(s) PROVE Next2(s[i - 1], s[i], gs)
  BY DEF InOrder
<1>1. s[i - 1] \in Chunk /\ Next2(s[i - 1], s[i], hs)
  BY DEF InOrder
<1> DEFINE a == s[i - 1]
           b == s[i]
<1> HIDE DEF a, b
<1>2. a.id \in HttpIds /\ Next2(a, b, hs)
  BY <1>1 DEF a, b, Chunk
<1>3. hs[a.id].finished => gs[a.id].finished /\ gs[a.id].wrote = hs[a.id].wrote
  BY <1>2 DEF Changes
<1>4. Next2(a, b, gs)
  BY <1>2, <1>3 DEF Next2
<1> QED
  BY <1>4 DEF a, b

\* What was sent is a sequence of parts.
LEMMA SentTypes ==
    ASSUME NEW c, ConnTypes(c)
    PROVE  SentOf(c) \in Seq(Chunk)
<1>1. c.wire \in Seq(Chunk) /\ c.wbuf \in Seq(Chunk)
  BY DEF ConnTypes
<1> QED
  BY <1>1 DEF SentOf

LEMMA LastIsChunk ==
    ASSUME NEW s \in Seq(Chunk), s # <<>>
    PROVE  s[Len(s)].id \in HttpIds /\ s[Len(s)].part \in Nat
<1>1. s[Len(s)] \in Chunk
  OBVIOUS
<1> QED
  BY <1>1 DEF Chunk

LEMMA IdsKnown ==
    ASSUME requests \in Seq(Kinds), Len(requests) <= MaxRequests, NEW c, ConnTypes(c)
    PROVE  \A r \in 1 .. c.parsed : r \in HttpIds
BY SizesAssumption DEF HttpIds, ConnTypes

\* A handler that writes nothing.
LEMMA HandlerKeeps ==
    ASSUME requests \in Seq(Kinds), Len(requests) <= MaxRequests,
           NEW c, NEW hs, HttpBase(c, hs), NEW gs, NEW r \in 1 .. c.parsed, Changes(gs, hs, r),
           r < c.parsed => gs[r].finished,
           c.open => gs[r].wrote = hs[r].wrote,
           c.request = r /\ c.open /\ gs[r].headersWritten =>
                hs[r].headersWritten \/ c.streamCb \/ ~Http!Writing(c)
    PROVE  HttpBase(c, gs)
<1>0. ConnTypes(c) /\ HandlerTypes(hs)
  BY DEF HttpBase
<1>1. r \in HttpIds
  BY <1>0, IdsKnown
<1>2. Before(c, gs)
  <2>1. /\ \A k \in HttpIds : k # r => gs[k] = hs[k]
        /\ Framed(gs[r], r) /\ Before(c, hs)
    BY DEF HttpBase, Changes
  <2>2. c.parsed \in Nat /\ r <= c.parsed /\ r \in Nat
    BY <1>0 DEF ConnTypes
  <2>3. \A k \in HttpIds : k > c.parsed => k # r
    BY <2>2 DEF HttpIds
  <2> QED
    BY <2>1, <2>3 DEF Before
<1>3. ClosedNews(c, gs)
  <2>1. \A k \in 1 .. c.parsed : Unheard(hs[k]) => Unheard(gs[k])
    BY <1>0, <1>1, IdsKnown DEF Changes
  <2>2. c.closeCb # 0 => c.closeCb \in 1 .. c.parsed
    BY <1>0 DEF ConnTypes
  <2> QED
    BY <2>1, <2>2 DEF HttpBase, ClosedNews
<1>4. LeftToWrite(c, gs)
  <2>1. c.request # 0 => c.request \in 1 .. c.parsed
    BY <1>0 DEF ConnTypes
  <2>2. c.request # 0 /\ c.request # r => gs[c.request] = hs[c.request]
    BY <1>0, <2>1, IdsKnown DEF Changes
  <2> QED
    BY <2>2 DEF HttpBase, LeftToWrite
<1>5. Ordered(c, gs)
  <2> DEFINE s == SentOf(c)
  <2>1. s \in Seq(Chunk)
    BY <1>0, SentTypes
  <2>2. InOrder(s, hs) /\ LastSent(c, s, hs)
    BY DEF HttpBase, Ordered
  <2>3. InOrder(s, gs)
    BY <1>1, <2>1, <2>2, StillInOrder
  <2> HIDE DEF s
  <2>4. \A k \in HttpIds : /\ hs[k].finished => gs[k].finished
                           /\ c.open => gs[k].wrote = hs[k].wrote
    BY DEF Changes
  <2>5. s # <<>> => s[Len(s)].id \in HttpIds
    BY <2>1, LastIsChunk
  <2>6. c.request # 0 => c.request \in HttpIds
    BY <1>0, IdsKnown DEF ConnTypes
  <2>7. LastSent(c, s, gs)
    BY <2>2, <2>4, <2>5, <2>6 DEF LastSent
  <2> QED
    BY <2>3, <2>7 DEF Ordered, s
<1> QED
  BY <1>0, <1>2, <1>3, <1>4, <1>5 DEF HttpBase, Changes

\* One part more, behind what was sent.
LEMMA PartFollows ==
    ASSUME NEW s \in Seq(Chunk), NEW x \in Chunk, NEW hs, InOrder(s, hs),
           s # <<>> => Next2(s[Len(s)], x, hs)
    PROVE  InOrder(Append(s, x), hs)
<1> DEFINE t == Append(s, x)
<1>1. /\ Len(t) = Len(s) + 1 /\ t[Len(s) + 1] = x
      /\ \A i \in 1 .. Len(s) : t[i] = s[i]
  OBVIOUS
<1> HIDE DEF t
<1>2. ASSUME NEW i \in 2 .. Len(t) PROVE Next2(t[i - 1], t[i], hs)
  <2>1. CASE i \in 2 .. Len(s)
    BY <2>1, <1>1 DEF InOrder
  <2>2. CASE i = Len(s) + 1
    <3>1. s # <<>> /\ i - 1 = Len(s) /\ Len(s) \in 1 .. Len(s)
      BY <2>2
    <3>2. t[i - 1] = s[Len(s)] /\ t[i] = x
      BY <1>1, <3>1, <2>2
    <3> QED
      BY <3>1, <3>2
  <2> QED
    BY <1>1, <2>1, <2>2
<1> QED
  BY <1>2 DEF InOrder, t

LEMMA PartSent ==
    ASSUME NEW a \in Seq(Chunk), NEW b \in Seq(Chunk), NEW x \in Chunk
    PROVE  a \o Append(b, x) = Append(a \o b, x)
OBVIOUS

LEMMA ChunkKept ==
    ASSUME requests \in Seq(Kinds), Len(requests) <= MaxRequests,
           NEW c, NEW hs, HttpBase(c, hs), NEW gs, NEW r \in 1 .. c.parsed, Changes(gs, hs, r),
           c.open, c.request = r, ~hs[r].finished, NEW part \in Nat, gs[r].wrote = part,
           \/ part = hs[r].wrote + 1
           \/ part = 0 /\ hs[r].wrote = 0 /\ (SentOf(c) # <<>> => SentOf(c)[Len(SentOf(c))].id # r),
           NEW d, ConnTypes(d), SameRead(d, c), d.open = c.open, d.closeCb = c.closeCb,
           d.queue = c.queue, d.wire = c.wire, d.request = r,
           d.wbuf = Append(c.wbuf, [id |-> r, part |-> part]),
           d.streamCb \/ ~gs[r].headersWritten
    PROVE  HttpBase(d, gs)
<1>0. ConnTypes(c) /\ HandlerTypes(hs)
  BY DEF HttpBase
<1>1. r \in HttpIds /\ r = c.parsed /\ r # 0 /\ r \in Nat
  <2>1. c.parsed \in Nat /\ c.request \in {0, c.parsed}
    BY <1>0 DEF ConnTypes
  <2>2. r \in HttpIds
    BY <1>0, IdsKnown
  <2> QED
    BY <2>1, <2>2
<1>2. Before(d, gs)
  <2>1. Before(c, hs) /\ d.parsed = r /\ c.parsed = r /\ Framed(gs[r], r)
        /\ \A k \in HttpIds : k # r => gs[k] = hs[k]
    BY <1>1 DEF HttpBase, Changes, SameRead
  <2>2. \A k \in HttpIds : k \in Nat
    BY DEF HttpIds
  <2>3. \A k \in HttpIds : (k < r => k # r) /\ (k > r => k # r)
    BY <1>1, <2>2
  <2>4. \A k \in HttpIds : k <= r => Framed(gs[k], k)
    BY <2>1 DEF Before
  <2> QED
    BY <2>1, <2>3, <2>4 DEF Before
<1>3. ClosedNews(d, gs)
  <2>1. \A k \in 1 .. c.parsed : Unheard(hs[k]) => Unheard(gs[k])
    BY <1>0, <1>1, IdsKnown DEF Changes
  <2>2. c.closeCb # 0 => c.closeCb \in 1 .. c.parsed
    BY <1>0 DEF ConnTypes
  <2> QED
    BY <2>1, <2>2 DEF HttpBase, ClosedNews, SameRead
<1>4. LeftToWrite(d, gs)
  BY <1>1 DEF LeftToWrite
<1>5. Ordered(d, gs)
  <2> DEFINE s == SentOf(c)
             x == [id |-> r, part |-> part]
             t == Append(s, x)
  <2>1. s \in Seq(Chunk) /\ x \in Chunk
    BY <1>0, <1>1, SentTypes DEF Chunk
  <2>2. InOrder(s, hs) /\ LastSent(c, s, hs)
    BY DEF HttpBase, Ordered
  <2>3. InOrder(s, gs)
    BY <1>1, <2>1, <2>2, StillInOrder
  <2>4. c.wire \in Seq(Chunk) /\ c.wbuf \in Seq(Chunk)
    BY <1>0 DEF ConnTypes
  <2>5. SentOf(d) = t
    BY <2>1, <2>4, PartSent DEF SentOf
  <2>6. x.id = r /\ x.part = part
    OBVIOUS
  <2> HIDE DEF s, x
  <2>7. ASSUME s # <<>> PROVE Next2(s[Len(s)], x, gs)
    <3> DEFINE a == s[Len(s)]
    <3>1. a.id \in HttpIds /\ a.part \in Nat
      BY <2>1, <2>7, LastIsChunk
    <3>2. /\ a.id <= c.parsed /\ a.part = hs[a.id].wrote
          /\ a.id # r => hs[a.id].finished
          /\ hs[r].wrote > 0 => a.id = r
      BY <2>2, <2>7, <1>1 DEF LastSent
    <3>3. hs[r].wrote \in Nat
      BY <1>0, <1>1 DEF HandlerTypes, HandlerType
    <3>4. part = 0 => a.id # r
      BY <3>3, <2>7 DEF s
    <3> HIDE DEF a
    <3>5. CASE a.id = r
      <4>1. part = a.part + 1
        BY <3>2, <3>4, <3>5
      <4> QED
        BY <3>5, <4>1, <2>6 DEF Next2, a
    <3>6. CASE a.id # r
      <4>1. a.id < r
        BY <3>1, <3>2, <3>6, <1>1 DEF HttpIds
      <4>2. hs[r].wrote = 0 /\ part \in {0, 1}
        BY <3>2, <3>3, <3>6
      <4>3. gs[a.id] = hs[a.id] /\ hs[a.id].finished
        BY <3>1, <3>2, <3>6 DEF Changes
      <4> QED
        BY <4>1, <4>2, <4>3, <3>2, <2>6 DEF Next2, a
    <3> QED
      BY <3>5, <3>6
  <2>8. InOrder(t, gs)
    BY <2>1, <2>3, <2>7, PartFollows
  <2>9. t # <<>> /\ t[Len(t)] = x
    BY ONLY <2>1
  <2> HIDE DEF t
  <2>10. LastSent(d, t, gs)
    BY <1>1, <2>6, <2>9 DEF LastSent, SameRead
  <2> QED
    BY <2>5, <2>8, <2>10 DEF Ordered
<1> QED
  BY <1>2, <1>3, <1>4, <1>5 DEF HttpBase, Changes

LEMMA WriteKeeps ==
    ASSUME requests \in Seq(Kinds), Len(requests) <= MaxRequests,
           NEW c, NEW hs, HttpBase(c, hs), NEW gs, NEW r \in 1 .. c.parsed, Changes(gs, hs, r),
           c.open, c.request = r, ~hs[r].finished, NEW part \in Nat, gs[r].wrote = part,
           \/ part = hs[r].wrote + 1
           \/ part = 0 /\ hs[r].wrote = 0 /\ (SentOf(c) # <<>> => SentOf(c)[Len(SentOf(c))].id # r),
           NEW with \in BOOLEAN, with \/ ~gs[r].headersWritten, NEW taken \in Http!Outcomes
    PROVE  LET d == Http!StreamWrite(c, [id |-> r, part |-> part], with, taken)
           IN  /\ HttpBase(d, gs) /\ StandsAs(d, c)
               /\ d.open /\ with => Http!Writing(d) \/ WrittenQueued(d)
<1> DEFINE x == [id |-> r, part |-> part]
           b == [c EXCEPT !.wbuf = Append(@, x), !.streamCb = with]
           d == Http!StreamWrite(c, x, with, taken)
<1>0. ConnTypes(c) /\ ConnRecord(c)
  BY DEF HttpBase, ConnTypes
<1>1. ConnRecord(b) /\ b.wbuf = Append(c.wbuf, x) /\ b.streamCb = with
  BY <1>0 DEF ConnRecord, ConnFields
<1>2. /\ b.open = c.open /\ b.closeCb = c.closeCb /\ b.queue = c.queue /\ b.wire = c.wire
      /\ SameRead(b, c) /\ SameRequest(b, c)
  BY <1>0 DEF ConnRecord, ConnFields, SameRead, SameRequest
<1>3. d = IF taken = "fail" THEN Http!CloseStream(b)
          ELSE Http!Written(b, IF taken = "all" THEN Len(b.wbuf) ELSE 0)
  BY DEF Http!StreamWrite
<1> HIDE DEF b, d
<1>4. ConnTypes(b)
  <2>1. r \in HttpIds
    BY <1>0, IdsKnown
  <2>2. x \in Chunk
    BY <2>1 DEF Chunk
  <2> HIDE DEF x
  <2>3. b.wbuf \in Seq(Chunk)
    BY <1>0, <1>1, <2>2 DEF ConnTypes
  <2> QED
    BY <1>0, <1>1, <1>2, <2>3 DEF ConnTypes, SameRead, SameRequest
<1>5. HttpBase(b, gs)
  BY <1>1, <1>2, <1>4, ChunkKept DEF SameRequest
<1>6. StandsAs(b, c) /\ b.queue = c.queue
  BY <1>2 DEF StandsAs, StandsNear, QueueGrows, SameRequest
<1>7. Http!Writing(b) /\ Len(b.wbuf) \in Nat
  <2>1. c.wbuf \in Seq(Chunk) /\ b.wbuf \in Seq(Chunk)
    BY <1>0, <1>4 DEF ConnTypes
  <2> HIDE DEF x
  <2>2. Append(c.wbuf, x) # <<>>
    BY ONLY <2>1
  <2> QED
    BY <2>1, <2>2, <1>1 DEF Http!Writing
<1>8. CASE taken = "fail"
  <2>1. client.gone # "no" /\ d = Http!CloseStream(b)
    BY <1>3, <1>8 DEF Http!Outcomes
  <2>2. HttpBase(d, gs) /\ StandsAs(d, b) /\ ~d.open
    BY <1>5, <2>1, CloseKeeps DEF MayBeCut
  <2> QED
    BY <1>6, <2>2, StandsAsStill DEF d
<1>9. CASE taken # "fail"
  <2> DEFINE n == IF taken = "all" THEN Len(b.wbuf) ELSE 0
  <2>1. n \in 0 .. Len(b.wbuf) /\ d = Http!Written(b, n)
    BY <1>3, <1>7, <1>9
  <2> HIDE DEF n
  <2>2. /\ HttpBase(d, gs) /\ StandsAs(d, b)
        /\ Http!Writing(b) /\ b.streamCb => Http!Writing(d) \/ WrittenQueued(d)
    BY <1>5, <2>1, WrittenKeeps
  <2> QED
    BY <1>1, <1>6, <1>7, <2>2, StandsAsStill DEF d
<1> QED
  BY <1>8, <1>9

\* The stream is asked for a callback of its own, and of the handler.
LEMMA CallbackNoted ==
    ASSUME NEW c, NEW hs, HttpBase(c, hs), NEW r \in 0 .. c.parsed
    PROVE  LET d == [c EXCEPT !.writeCallback = r]
           IN  /\ HttpBase(d, hs) /\ StandsNear(d, c) /\ SameWrite(d, c) /\ d.queue = c.queue
               /\ d.writeCallback = r /\ d.open = c.open
<1> DEFINE d == [c EXCEPT !.writeCallback = r]
<1>0. ConnTypes(c) /\ ConnRecord(c)
  BY DEF HttpBase, ConnTypes
<1>1. ConnRecord(d) /\ d.writeCallback = r
  BY <1>0 DEF ConnRecord, ConnFields
<1>2. /\ d.open = c.open /\ d.closeCb = c.closeCb /\ d.queue = c.queue
      /\ SameRead(d, c) /\ SameWrite(d, c) /\ d.request = c.request
      /\ d.requestFinished = c.requestFinished /\ d.within = c.within
  BY <1>0 DEF ConnRecord, ConnFields, SameRead, SameWrite
<1> HIDE DEF d
<1>3. ConnTypes(d)
  BY <1>0, <1>1, <1>2 DEF ConnTypes, SameRead, SameWrite
<1>4. Before(d, hs) /\ LeftToWrite(d, hs) /\ Ordered(d, hs) /\ ClosedNews(d, hs)
  BY <1>2 DEF HttpBase, Before, LeftToWrite, Http!Writing, Ordered, SentOf, LastSent,
     SameRead, SameWrite, ClosedNews
<1> QED
  BY <1>1, <1>2, <1>3, <1>4 DEF HttpBase, StandsNear, QueueGrows, d

-----------------------------------------------------------------------------
(* Reading.                                                                *)

\* What is read leaves the rest of the connection as it is.
ReadOnly(d, c) ==
    /\ d.parsed = c.parsed /\ d.closeCb = c.closeCb /\ SameWrite(d, c) /\ SameRequest(d, c)
    /\ d.open => c.open

\* What arrives is noted; a stream whose peer has gone is closed.
LEMMA FillKeeps ==
    ASSUME requests \in Seq(Kinds), client.owed \in BOOLEAN,
           NEW c, NEW hs, HttpBase(c, hs), c.open
    PROVE  LET d == [Http!Fill(c) EXCEPT !.open = client.gone = "no"]
           IN  /\ HttpBase(d, hs) /\ ReadOnly(d, c) /\ d.queue = c.queue
               /\ d.reading = c.reading /\ d.got >= c.got
               /\ d.open <=> client.gone = "no"
<1> DEFINE d == [Http!Fill(c) EXCEPT !.open = client.gone = "no"]
<1>0. ConnTypes(c) /\ ConnRecord(c)
  BY DEF HttpBase, ConnTypes
<1>1. /\ ConnRecord(d) /\ d.got = Len(requests) /\ d.gotOwed = client.owed
      /\ d.open = (client.gone = "no")
  BY <1>0 DEF ConnRecord, ConnFields, Http!Fill
<1>2. /\ d.parsed = c.parsed /\ d.closeCb = c.closeCb /\ d.queue = c.queue
      /\ d.reading = c.reading /\ SameWrite(d, c) /\ SameRequest(d, c)
  BY <1>0 DEF ConnRecord, ConnFields, SameWrite, SameRequest, Http!Fill
<1> HIDE DEF d
<1>3. Len(requests) \in Nat /\ c.got <= Len(requests) /\ c.got \in Nat /\ c.parsed <= Len(requests)
  BY <1>0 DEF ConnTypes
<1>4. d.open \in BOOLEAN /\ (d.open <=> client.gone = "no")
  BY <1>1
<1>5. ConnTypes(d)
  BY <1>0, <1>1, <1>2, <1>3, <1>4 DEF ConnTypes, SameWrite, SameRequest
<1>6. Before(d, hs) /\ ClosedNews(d, hs)
  BY <1>2 DEF HttpBase, Before, ClosedNews
<1>7. LeftToWrite(d, hs)
  BY <1>2, <1>4 DEF HttpBase, LeftToWrite, Http!Writing, SameWrite, SameRequest, MayBeCut
<1>8. Ordered(d, hs)
  BY <1>2 DEF HttpBase, Ordered, SentOf, LastSent, SameWrite, SameRequest
<1> QED
  BY <1>1, <1>2, <1>3, <1>4, <1>5, <1>6, <1>7, <1>8 DEF HttpBase, ReadOnly, d

\* A read that finds what it wants puts its callback into the queue.
LEMMA DeliverKeeps ==
    ASSUME NEW c, NEW hs, HttpBase(c, hs), c.reading # "none" => NoReadQueued(c)
    PROVE  LET d == Http!Deliver(c)
           IN  /\ HttpBase(d, hs) /\ ReadOnly(d, c) /\ d.open = c.open /\ d.got = c.got
               /\ WrittenQueued(c) => WrittenQueued(d)
               /\ \A what \in Reads : Reading(c, what) => Reading(d, what)
               /\ c.reading = "headers" /\ d.reading = "none" => d.parsed < d.got
               /\ c.reading = "none" => d = c
<1>1. CASE ~Http!Readable(c)
  <2>1. Http!Deliver(c) = c
    BY <1>1 DEF Http!Deliver
  <2> QED
    BY <2>1 DEF ReadOnly, SameWrite, SameRequest
<1>2. CASE Http!Readable(c)
  <2> DEFINE b == [c EXCEPT !.reading = "none"]
             e == Http!Event(c.reading, 0)
             d == Http!Deliver(c)
  <2>0. ConnTypes(c) /\ ConnRecord(c)
    BY DEF HttpBase, ConnTypes
  <2>1. c.reading \in Reads /\ (c.reading = "headers" => c.parsed < c.got)
    BY <1>2 DEF Http!Readable, Reads
  <2>2. ConnRecord(b) /\ b.reading = "none"
    BY <2>0 DEF ConnRecord, ConnFields
  <2>3. /\ b.open = c.open /\ b.closeCb = c.closeCb /\ b.queue = c.queue
        /\ b.got = c.got /\ b.gotOwed = c.gotOwed /\ b.parsed = c.parsed
        /\ SameWrite(b, c) /\ SameRequest(b, c)
    BY <2>0 DEF ConnRecord, ConnFields, SameWrite, SameRequest
  <2>4. e \in HttpEvent /\ e.kind = c.reading /\ e.kind # "closed"
    BY <2>1 DEF HttpEvent, Http!Event, Reads
  <2>5. d = Http!Queue(b, e)
    BY <1>2 DEF Http!Deliver
  <2> HIDE DEF b, d, e
  <2>6. ConnTypes(b)
    BY <2>0, <2>2, <2>3 DEF ConnTypes, SameWrite, SameRequest
  <2>7. /\ ConnTypes(d) /\ d.queue = Append(b.queue, e) /\ d.open = b.open /\ d.closeCb = b.closeCb
        /\ SameRead(d, b) /\ SameWrite(d, b) /\ SameRequest(d, b)
    BY <2>4, <2>5, <2>6, QueueFields
  <2>8. /\ d.queue = Append(c.queue, e) /\ d.open = c.open /\ d.closeCb = c.closeCb
        /\ d.reading = "none" /\ d.parsed = c.parsed /\ d.got = c.got
        /\ SameWrite(d, c) /\ SameRequest(d, c)
    BY <2>2, <2>3, <2>7 DEF SameRead, SameWrite, SameRequest
  <2> DEFINE n == Len(c.queue)
  <2>9. /\ n \in Nat /\ DOMAIN d.queue = 1 .. n + 1 /\ DOMAIN c.queue = 1 .. n
        /\ \A i \in 1 .. n : d.queue[i] = c.queue[i]
        /\ d.queue[n + 1] = e
    BY <2>0, <2>8 DEF ConnTypes
  <2> HIDE DEF n
  <2>10. /\ \A i \in DOMAIN d.queue : i \in DOMAIN c.queue \/ i = n + 1
         /\ \A i \in DOMAIN c.queue : i \in DOMAIN d.queue
         /\ n + 1 \in DOMAIN d.queue
    BY <2>9
  <2>11. ClosedNews(d, hs)
    <3>1. \A i \in DOMAIN d.queue :
             d.queue[i].kind = "closed" => i \in DOMAIN c.queue /\ d.queue[i] = c.queue[i]
      BY <2>4, <2>9, <2>10
    <3> QED
      BY <2>8, <3>1 DEF HttpBase, ClosedNews
  <2>12. Before(d, hs) /\ LeftToWrite(d, hs) /\ Ordered(d, hs)
    BY <2>8 DEF HttpBase, Before, LeftToWrite, Http!Writing, Ordered, SentOf, LastSent,
       SameWrite, SameRequest
  <2>13. WrittenQueued(c) => WrittenQueued(d)
    BY <2>9, <2>10 DEF WrittenQueued
  <2>14. Reading(d, c.reading)
    <3>1. \A i \in DOMAIN c.queue : c.queue[i].kind \notin Reads
      BY <2>1 DEF NoReadQueued, Reads
    <3>2. \A i \in DOMAIN d.queue : d.queue[i].kind \in Reads => i = n + 1
      BY <2>9, <2>10, <3>1
    <3> QED
      BY <2>4, <2>8, <2>9, <2>10, <3>2 DEF Reading
  <2>15. \A what \in Reads : Reading(c, what) => what = c.reading
    BY <2>1 DEF Reading, Reads
  <2> QED
    BY <2>1, <2>7, <2>8, <2>11, <2>12, <2>13, <2>14, <2>15 DEF HttpBase, ReadOnly, Reads, d
<1> QED
  BY <1>1, <1>2

LEMMA ReadAsked ==
    ASSUME NEW c, NEW hs, HttpBase(c, hs), NEW what \in Reads
    PROVE  LET d == [c EXCEPT !.reading = what]
           IN  /\ HttpBase(d, hs) /\ ReadOnly(d, c) /\ d.open = c.open /\ d.queue = c.queue
               /\ d.reading = what /\ d.got = c.got
<1> DEFINE d == [c EXCEPT !.reading = what]
<1>0. ConnTypes(c) /\ ConnRecord(c)
  BY DEF HttpBase, ConnTypes
<1>1. ConnRecord(d) /\ d.reading = what
  BY <1>0 DEF ConnRecord, ConnFields
<1>2. /\ d.open = c.open /\ d.closeCb = c.closeCb /\ d.queue = c.queue
      /\ d.got = c.got /\ d.gotOwed = c.gotOwed /\ d.parsed = c.parsed
      /\ SameWrite(d, c) /\ SameRequest(d, c)
  BY <1>0 DEF ConnRecord, ConnFields, SameWrite, SameRequest
<1> HIDE DEF d
<1>3. ConnTypes(d)
  BY <1>0, <1>1, <1>2 DEF ConnTypes, SameWrite, SameRequest
<1>4. Before(d, hs) /\ LeftToWrite(d, hs) /\ Ordered(d, hs) /\ ClosedNews(d, hs)
  BY <1>2 DEF HttpBase, Before, LeftToWrite, Http!Writing, Ordered, SentOf, LastSent, SameWrite,
     SameRequest, ClosedNews
<1> QED
  BY <1>1, <1>2, <1>3, <1>4 DEF HttpBase, ReadOnly, d

\* read_until, read_bytes: the read is under way, or its stream is closed.
LEMMA StartReadKeeps ==
    ASSUME requests \in Seq(Kinds), client.owed \in BOOLEAN,
           NEW x, NEW f, NEW t \in BOOLEAN, NEW c, x = [c |-> c, h |-> f, ok |-> t],
           NEW hs, HttpBase(c, hs), NoReadQueued(c), NEW what \in Reads
    PROVE  LET y == Http!StartRead(x, what)
           IN  /\ y = [c |-> y.c, h |-> f, ok |-> y.ok] /\ y.ok \in BOOLEAN
               /\ HttpBase(y.c, hs) /\ ReadOnly(y.c, c)
               /\ WrittenQueued(c) => WrittenQueued(y.c)
               /\ \/ /\ y.ok = t /\ Reading(y.c, what)
                     /\ what = "headers" /\ y.c.reading = "none" => y.c.parsed < y.c.got
                  \/ ~y.ok /\ ~y.c.open /\ NoReadQueued(y.c)
<1> DEFINE b == [c EXCEPT !.reading = what]
           y == Http!StartRead(x, what)
<1>1. /\ HttpBase(b, hs) /\ ReadOnly(b, c) /\ b.open = c.open /\ b.queue = c.queue
      /\ b.reading = what /\ b.got = c.got
  BY ReadAsked
<1>2. /\ b = [x.c EXCEPT !.reading = what]
      /\ NoReadQueued(b) /\ Reading(b, what) /\ (WrittenQueued(c) => WrittenQueued(b))
  BY <1>1 DEF NoReadQueued, Reading, WrittenQueued
<1>3. y = IF Http!Readable(b) THEN [x EXCEPT !.c = Http!Deliver(b)]
          ELSE IF ~b.open \/ client.gone = "reset"
          THEN [x EXCEPT !.c = [b EXCEPT !.open = FALSE], !.ok = FALSE]
          ELSE [x EXCEPT !.c = Http!Deliver([Http!Fill(b) EXCEPT !.open = client.gone = "no"])]
  BY <1>2 DEF Http!StartRead
<1> HIDE DEF b, y
<1>4. CASE Http!Readable(b)
  <2>1. y = [c |-> Http!Deliver(b), h |-> f, ok |-> t]
    BY <1>3, <1>4
  <2> DEFINE d == Http!Deliver(b)
  <2>2. /\ HttpBase(d, hs) /\ ReadOnly(d, b) /\ d.open = b.open /\ d.got = b.got
        /\ WrittenQueued(b) => WrittenQueued(d)
        /\ Reading(d, what)
        /\ b.reading = "headers" /\ d.reading = "none" => d.parsed < d.got
    BY <1>1, <1>2, DeliverKeeps
  <2> HIDE DEF d
  <2>3. ReadOnly(d, c)
    BY <1>1, <2>2 DEF ReadOnly, SameWrite, SameRequest
  <2> QED
    BY <1>1, <1>2, <2>1, <2>2, <2>3 DEF d, y
<1>5. CASE ~Http!Readable(b) /\ (~b.open \/ client.gone = "reset")
  <2> DEFINE d == [b EXCEPT !.open = FALSE]
  <2>1. y = [c |-> d, h |-> f, ok |-> FALSE]
    BY <1>3, <1>5
  <2>2. MayBeCut \/ ~Http!Writing(b)
    BY <1>1, <1>5 DEF HttpBase, LeftToWrite, MayBeCut
  <2>3. /\ HttpBase(d, hs) /\ StandsAs(d, b) /\ SameWrite(d, b) /\ ~d.open
        /\ d.queue = b.queue /\ d.closeCb = b.closeCb
    BY <1>1, <2>2, ShutKeeps
  <2> HIDE DEF d
  <2>4. ReadOnly(d, c) /\ NoReadQueued(d) /\ (WrittenQueued(c) => WrittenQueued(d))
    BY <1>1, <1>2, <2>3 DEF ReadOnly, SameWrite, SameRequest, StandsAs, StandsNear, SameRead,
       NoReadQueued, WrittenQueued
  <2>5. y.c = d /\ y.h = f /\ y.ok = FALSE /\ y = [c |-> y.c, h |-> f, ok |-> y.ok]
    BY <2>1
  <2>6. /\ y = [c |-> y.c, h |-> f, ok |-> y.ok] /\ y.ok \in BOOLEAN /\ ~y.ok /\ ~y.c.open
        /\ HttpBase(y.c, hs) /\ ReadOnly(y.c, c) /\ NoReadQueued(y.c)
        /\ WrittenQueued(c) => WrittenQueued(y.c)
    BY <2>3, <2>4, <2>5
  <2> QED
    BY <2>6 DEF y
<1>6. CASE ~Http!Readable(b) /\ b.open /\ client.gone # "reset"
  <2> DEFINE a == [Http!Fill(b) EXCEPT !.open = client.gone = "no"]
             d == Http!Deliver(a)
  <2>1. y = [c |-> d, h |-> f, ok |-> t]
    BY <1>3, <1>6
  <2>2. /\ HttpBase(a, hs) /\ ReadOnly(a, b) /\ a.queue = b.queue /\ a.reading = b.reading
    BY <1>1, <1>6, FillKeeps
  <2> HIDE DEF a
  <2>3. NoReadQueued(a) /\ Reading(a, what) /\ (WrittenQueued(c) => WrittenQueued(a))
    BY <1>2, <2>2, <1>1 DEF NoReadQueued, Reading, WrittenQueued
  <2>4. /\ HttpBase(d, hs) /\ ReadOnly(d, a)
        /\ WrittenQueued(a) => WrittenQueued(d)
        /\ Reading(d, what)
        /\ a.reading = "headers" /\ d.reading = "none" => d.parsed < d.got
    BY <2>2, <2>3, DeliverKeeps
  <2> HIDE DEF d
  <2>5. ReadOnly(d, c)
    BY <1>1, <2>2, <2>4 DEF ReadOnly, SameWrite, SameRequest
  <2> QED
    BY <1>1, <2>1, <2>2, <2>3, <2>4, <2>5 DEF y
<1> QED
  BY <1>4, <1>5, <1>6

-----------------------------------------------------------------------------
(* A request is finished.                                                  *)

\* The next state of a connection that is done with its request.
Done0(d, c) ==
    /\ d.parsed = c.parsed /\ SameWrite(d, c) /\ d.request = 0 /\ ~d.requestFinished
    /\ d.closeCb = 0 /\ d.within = c.within /\ d.writeCallback = c.writeCallback

LEMMA RequestDone ==
    ASSUME NEW c, NEW hs, HttpBase(c, hs), c.closeCb = 0, c.wbuf = <<>>,
           \A r \in HttpIds : r <= c.parsed => hs[r].finished
    PROVE  LET d == [c EXCEPT !.request = 0, !.requestFinished = FALSE]
           IN  /\ HttpBase(d, hs) /\ Done0(d, c) /\ d.queue = c.queue /\ d.open = c.open
               /\ d.reading = c.reading /\ d.got = c.got
<1> DEFINE d == [c EXCEPT !.request = 0, !.requestFinished = FALSE]
<1>0. ConnTypes(c) /\ ConnRecord(c)
  BY DEF HttpBase, ConnTypes
<1>1. ConnRecord(d) /\ d.request = 0 /\ d.requestFinished = FALSE
  BY <1>0 DEF ConnRecord, ConnFields
<1>2. /\ d.open = c.open /\ d.closeCb = c.closeCb /\ d.queue = c.queue
      /\ SameRead(d, c) /\ SameWrite(d, c) /\ d.within = c.within
      /\ d.writeCallback = c.writeCallback
  BY <1>0 DEF ConnRecord, ConnFields, SameRead, SameWrite
<1> HIDE DEF d
<1>3. ConnTypes(d)
  BY <1>0, <1>1, <1>2 DEF ConnTypes, SameRead, SameWrite
<1>4. Before(d, hs) /\ LeftToWrite(d, hs) /\ ClosedNews(d, hs)
  BY <1>1, <1>2 DEF HttpBase, Before, LeftToWrite, Http!Writing, SameRead, SameWrite, ClosedNews
<1>5. Ordered(d, hs)
  <2> DEFINE s == SentOf(c)
  <2>1. s \in Seq(Chunk)
    BY <1>0, SentTypes
  <2>2. InOrder(s, hs) /\ LastSent(c, s, hs)
    BY DEF HttpBase, Ordered
  <2>3. SentOf(d) = s
    BY <1>2 DEF SentOf, SameWrite
  <2> HIDE DEF s
  <2>4. LastSent(d, s, hs)
    BY <1>1, <1>2, <2>1, <2>2, LastIsChunk DEF LastSent, SameRead
  <2> QED
    BY <2>2, <2>3, <2>4 DEF Ordered
<1> QED
  BY <1>1, <1>2, <1>3, <1>4, <1>5 DEF HttpBase, Done0, SameRead, d

LEMMA FinishedWithin ==
    ASSUME NEW a, NEW f, NEW t, NEW v
    PROVE  [[c |-> a, h |-> f, ok |-> t] EXCEPT !.c.requestFinished = v]
             = [c |-> [a EXCEPT !.requestFinished = v], h |-> f, ok |-> t]
OBVIOUS

LEMMA FinishRequestKeeps ==
    ASSUME requests \in Seq(Kinds), client.owed \in BOOLEAN,
           NEW x, NEW f, NEW t \in BOOLEAN, NEW c, x = [c |-> c, h |-> f, ok |-> t],
           NEW hs, HttpBase(c, hs), NoReadQueued(c), c.closeCb = 0, c.wbuf = <<>>,
           c.reading = "none",
           Len(requests) <= MaxRequests,
           \A r \in HttpIds : r <= c.parsed => hs[r].finished
    PROVE  LET y == Http!FinishRequest(x)
           IN  /\ y = [c |-> y.c, h |-> f, ok |-> y.ok] /\ y.ok \in BOOLEAN
               /\ HttpMid(y.c, hs) /\ Done0(y.c, c)
               /\ y.ok = t \/ ~y.ok
               /\ ~y.ok /\ t => ~y.c.open /\ NoReadQueued(y.c)
<1> DEFINE b == [c EXCEPT !.request = 0, !.requestFinished = FALSE]
           z == [c |-> b, h |-> f, ok |-> t]
           y == Http!FinishRequest(x)
<1>1. /\ HttpBase(b, hs) /\ Done0(b, c) /\ b.queue = c.queue /\ b.open = c.open
      /\ b.reading = c.reading /\ b.got = c.got
  BY RequestDone
<1>2. [x EXCEPT !.c.request = 0, !.c.requestFinished = FALSE] = z
  <2> DEFINE a == [c EXCEPT !.request = 0]
             no == FALSE
             v == [c |-> a, h |-> f, ok |-> t]
  <2>1. [x EXCEPT !.c.request = 0] = v
    OBVIOUS
  <2> HIDE DEF no
  <2>2. [c EXCEPT !.request = 0, !.requestFinished = no] = [a EXCEPT !.requestFinished = no]
    OBVIOUS
  <2> HIDE DEF a
  <2>3. [v EXCEPT !.c.requestFinished = no] = [c |-> [a EXCEPT !.requestFinished = no], h |-> f, ok |-> t]
    BY FinishedWithin
  <2> HIDE DEF v
  <2>4. [x EXCEPT !.c.request = 0, !.c.requestFinished = no]
          = [c |-> [c EXCEPT !.request = 0, !.requestFinished = no], h |-> f, ok |-> t]
    BY <2>1, <2>2, <2>3
  <2> QED
    BY <2>4 DEF no
<1>3. y = IF Http!Disconnect(Http!Kind(c)) THEN [z EXCEPT !.c = Http!CloseStream(z.c)]
          ELSE Http!StartRead(z, "headers")
  BY <1>2 DEF Http!FinishRequest
<1> HIDE DEF b, y
<1>4. b.parsed # 0 => hs[b.parsed].finished
  <2>1. ConnTypes(c) /\ b.parsed = c.parsed /\ c.parsed \in Nat
    BY <1>1 DEF HttpBase, Done0, ConnTypes
  <2> QED
    BY <2>1, IdsKnown
<1>5. NoReadQueued(b) /\ ~Http!Writing(b)
  BY <1>1 DEF NoReadQueued, Done0, SameWrite, Http!Writing
<1>6. CASE Http!Disconnect(Http!Kind(c))
  <2> DEFINE d == Http!CloseStream(b)
  <2>1. y = [c |-> d, h |-> f, ok |-> t]
    BY <1>3, <1>6
  <2>2. HttpBase(d, hs) /\ StandsAs(d, b) /\ SameWrite(d, b) /\ ~d.open
    BY <1>1, <1>5, CloseKeeps
  <2> HIDE DEF d
  <2>3. Done0(d, c)
    BY <1>1, <2>2 DEF Done0, StandsAs, StandsNear, SameRead, SameWrite
  <2>4. NoReadQueued(d)
    <3>1. HttpBase(b, hs) /\ b.queue \in Seq(HttpEvent) /\ d.reading = b.reading
      BY <1>1, <2>2 DEF HttpBase, ConnTypes, StandsAs, StandsNear, SameRead
    <3>2. CASE d.queue = b.queue
      BY <1>5, <3>2 DEF NoReadQueued
    <3>3. CASE \E e \in HttpEvent : e.kind \notin Reads /\ d.queue = Append(b.queue, e)
      BY <1>5, <3>1, <3>3, NoReadMore
    <3> QED
      BY <2>2, <3>2, <3>3 DEF StandsAs, StandsNear, QueueGrows
  <2>5. AtEnd(d, hs)
    BY <1>4, <1>1, <2>2, <2>3, <2>4 DEF AtEnd, Done0
  <2> QED
    BY <2>1, <2>2, <2>3, <2>5 DEF HttpMid, Stage, y
<1>7. CASE ~Http!Disconnect(Http!Kind(c))
  <2>1. y = Http!StartRead(z, "headers")
    BY <1>3, <1>7
  <2>2. /\ y = [c |-> y.c, h |-> f, ok |-> y.ok] /\ y.ok \in BOOLEAN
        /\ HttpBase(y.c, hs) /\ ReadOnly(y.c, b)
        /\ \/ /\ y.ok = t /\ Reading(y.c, "headers")
              /\ y.c.reading = "none" => y.c.parsed < y.c.got
           \/ ~y.ok /\ ~y.c.open /\ NoReadQueued(y.c)
    BY <1>1, <1>5, <2>1, StartReadKeeps DEF Reads
  <2> HIDE DEF z
  <2>3. Done0(y.c, c) /\ y.c.parsed = b.parsed
    BY <1>1, <2>2 DEF Done0, ReadOnly, SameWrite, SameRequest
  <2>4. CASE /\ y.ok = t /\ Reading(y.c, "headers")
             /\ y.c.reading = "none" => y.c.parsed < y.c.got
    <3>1. BetweenRequests(y.c, hs)
      BY <1>4, <2>3, <2>4 DEF BetweenRequests, Done0
    <3> QED
      BY <2>2, <2>3, <2>4, <3>1 DEF HttpMid, Stage, y
  <2>5. CASE ~y.ok /\ ~y.c.open /\ NoReadQueued(y.c)
    <3>1. AtEnd(y.c, hs)
      BY <1>4, <2>3, <2>5 DEF AtEnd, Done0
    <3> QED
      BY <2>2, <2>3, <2>5, <3>1 DEF HttpMid, Stage, y
  <2> QED
    BY <2>2, <2>4, <2>5
<1> QED
  BY <1>6, <1>7

LEMMA FinishedNoted ==
    ASSUME NEW c, NEW hs, HttpBase(c, hs)
    PROVE  LET d == [c EXCEPT !.requestFinished = TRUE]
           IN  /\ HttpBase(d, hs) /\ SameRead(d, c) /\ SameWrite(d, c) /\ d.queue = c.queue
               /\ d.open = c.open /\ d.closeCb = c.closeCb /\ d.request = c.request
               /\ d.requestFinished /\ d.writeCallback = c.writeCallback /\ d.within = c.within
<1> DEFINE d == [c EXCEPT !.requestFinished = TRUE]
<1>0. ConnTypes(c) /\ ConnRecord(c)
  BY DEF HttpBase, ConnTypes
<1>1. ConnRecord(d) /\ d.requestFinished = TRUE
  BY <1>0 DEF ConnRecord, ConnFields
<1>2. /\ d.open = c.open /\ d.closeCb = c.closeCb /\ d.queue = c.queue
      /\ SameRead(d, c) /\ SameWrite(d, c) /\ d.request = c.request
      /\ d.writeCallback = c.writeCallback /\ d.within = c.within
  BY <1>0 DEF ConnRecord, ConnFields, SameRead, SameWrite
<1> HIDE DEF d
<1>3. ConnTypes(d)
  BY <1>0, <1>1, <1>2 DEF ConnTypes, SameRead, SameWrite
<1>4. Before(d, hs) /\ LeftToWrite(d, hs) /\ Ordered(d, hs) /\ ClosedNews(d, hs)
  BY <1>2 DEF HttpBase, Before, LeftToWrite, Http!Writing, Ordered, SentOf, LastSent, SameRead,
     SameWrite, ClosedNews
<1> QED
  BY <1>1, <1>2, <1>3, <1>4 DEF HttpBase, d

\* What a request's end leaves of the connection.
EndsAs(d, c) ==
    /\ d.parsed = c.parsed /\ SameWrite(d, c) /\ d.within = c.within
    /\ d.writeCallback = c.writeCallback

\* HTTPConnection.finish: hs has the handler as finished.
LEMMA ConnFinishKeeps ==
    ASSUME requests \in Seq(Kinds), Len(requests) <= MaxRequests, client.owed \in BOOLEAN,
           NEW x, NEW f, NEW c, x = [c |-> c, h |-> f, ok |-> TRUE],
           NEW hs, HttpBase(c, hs), Quiet(c), c.closeCb = 0, c.parsed # 0,
           c.request = c.parsed, hs[c.parsed].phase # "none",
           hs[c.parsed].finished, hs[c.parsed].ended,
           \A r \in HttpIds : r <= c.parsed => hs[r].finished
    PROVE  LET y == Http!ConnFinish(x)
           IN  /\ y = [c |-> y.c, h |-> f, ok |-> y.ok] /\ y.ok \in BOOLEAN
               /\ HttpMid(y.c, hs) /\ EndsAs(y.c, c) /\ y.c.closeCb = 0
               /\ y.c.request # 0 => Http!Writing(y.c)
               /\ ~y.ok => /\ ~y.c.open /\ y.c.request = 0 /\ ~y.c.requestFinished
                           /\ NoReadQueued(y.c)
<1> DEFINE d == [c EXCEPT !.requestFinished = TRUE]
           z == [c |-> d, h |-> f, ok |-> TRUE]
           y == Http!ConnFinish(x)
<1>1. /\ HttpBase(d, hs) /\ SameRead(d, c) /\ SameWrite(d, c) /\ d.queue = c.queue
      /\ d.open = c.open /\ d.closeCb = c.closeCb /\ d.request = c.request
      /\ d.requestFinished /\ d.writeCallback = c.writeCallback /\ d.within = c.within
  BY FinishedNoted
<1>2. [x EXCEPT !.c.requestFinished = TRUE] = z
  <2> DEFINE yes == TRUE
  <2> HIDE DEF yes
  <2>1. [x EXCEPT !.c.requestFinished = yes]
          = [c |-> [c EXCEPT !.requestFinished = yes], h |-> f, ok |-> TRUE]
    <3> DEFINE o == TRUE
    <3> HIDE DEF o
    <3>1. [[c |-> c, h |-> f, ok |-> o] EXCEPT !.c.requestFinished = yes]
            = [c |-> [c EXCEPT !.requestFinished = yes], h |-> f, ok |-> o]
      BY FinishedWithin
    <3> QED
      BY <3>1 DEF o
  <2> QED
    BY <2>1 DEF yes
<1>3. y = IF Http!Drained(d) THEN Http!FinishRequest(z) ELSE z
  BY <1>2 DEF Http!ConnFinish
<1> HIDE DEF d, y
<1>4. CASE Http!Drained(d)
  <2>1. y = Http!FinishRequest(z) /\ d.wbuf = <<>>
    BY <1>3, <1>4 DEF Http!Drained, Http!Writing
  <2>2. NoReadQueued(d) /\ d.closeCb = 0 /\ d.reading = "none" /\ d.parsed = c.parsed
    BY <1>1 DEF Quiet, NoReadQueued, SameRead
  <2>3. /\ y = [c |-> y.c, h |-> f, ok |-> y.ok] /\ y.ok \in BOOLEAN
        /\ HttpMid(y.c, hs) /\ Done0(y.c, d)
        /\ ~y.ok => ~y.c.open /\ NoReadQueued(y.c)
    BY <1>1, <2>1, <2>2, FinishRequestKeeps
  <2>4. EndsAs(y.c, c) /\ y.c.closeCb = 0 /\ y.c.request = 0 /\ ~y.c.requestFinished
    BY <1>1, <2>3 DEF EndsAs, Done0, SameRead, SameWrite
  <2> QED
    BY <2>3, <2>4 DEF y
<1>5. CASE ~Http!Drained(d)
  <2>1. y = z
    BY <1>3, <1>5
  <2>2. InHandler(d, hs)
    <3>1. Quiet(d) /\ d.parsed = c.parsed
      BY <1>1 DEF Quiet, NoReadQueued, SameRead
    <3>2. hs[c.parsed].ended = d.requestFinished /\ hs[c.parsed].finished = d.requestFinished
      <4>1. c.parsed \in HttpIds
        <5>1. c.parsed \in 1 .. c.parsed /\ ConnTypes(c)
          BY DEF HttpBase, ConnTypes
        <5> QED
          BY <5>1, IdsKnown
      <4>2. hs[c.parsed] \in HandlerType /\ d.requestFinished \in BOOLEAN
        <5>1. HandlerTypes(hs) /\ ConnTypes(d)
          BY <1>1 DEF HttpBase
        <5> QED
          BY <4>1, <5>1 DEF HandlerTypes, ConnTypes
      <4>3. hs[c.parsed].ended \in BOOLEAN /\ hs[c.parsed].finished \in BOOLEAN
        BY <4>2 DEF HandlerType
      <4> QED
        BY <1>1, <4>2, <4>3
    <3> QED
      BY <1>1, <3>1, <3>2 DEF InHandler
  <2>3. Http!Writing(d) /\ EndsAs(d, c) /\ d.closeCb = 0
    BY <1>1, <1>5 DEF Http!Drained, EndsAs, SameRead
  <2>4. HttpMid(d, hs)
    BY <1>1, <2>2 DEF HttpMid, Stage
  <2>5. y.c = d /\ y.h = f /\ y.ok = TRUE /\ y = [c |-> y.c, h |-> f, ok |-> y.ok]
    BY <2>1
  <2> QED
    BY <2>3, <2>4, <2>5 DEF y
<1> QED
  BY <1>4, <1>5

\* The rest of _on_write_complete.
LEMMA WriteCompleteKeeps ==
    ASSUME requests \in Seq(Kinds), Len(requests) <= MaxRequests, client.owed \in BOOLEAN,
           NEW x, NEW f, NEW t \in BOOLEAN, NEW c, x = [c |-> c, h |-> f, ok |-> t],
           NEW hs, HttpMid(c, hs)
    PROVE  LET y == Http!WriteComplete(x)
           IN  /\ y = [c |-> y.c, h |-> f, ok |-> y.ok] /\ y.ok \in BOOLEAN
               /\ HttpMid(y.c, hs) /\ EndsAs(y.c, c)
               /\ ~y.ok /\ t => ~y.c.open
               /\ y.c.request # 0 /\ hs[y.c.request].ended /\ y.c.open => Http!Writing(y.c)
<1> DEFINE y == Http!WriteComplete(x)
<1>0. ConnTypes(c) /\ HttpBase(c, hs) /\ c.parsed \in Nat
  BY DEF HttpMid, HttpBase, ConnTypes
<1>1. CASE c.requestFinished /\ Http!Drained(c)
  <2>1. y = Http!FinishRequest(x)
    BY <1>1 DEF Http!WriteComplete
  <2>2. InHandler(c, hs)
    BY <1>1 DEF HttpMid, Stage, BetweenRequests, InBody, AtEnd
  <2>3. NoReadQueued(c) /\ c.reading = "none" /\ c.closeCb = 0 /\ c.wbuf = <<>>
    BY <1>1, <2>2 DEF InHandler, Quiet, Http!Drained, Http!Writing
  <2>4. \A r \in HttpIds : r <= c.parsed => hs[r].finished
    <3>1. hs[c.parsed].finished
      BY <1>1, <2>2 DEF InHandler
    <3>2. \A r \in HttpIds : r < c.parsed => hs[r].finished
      BY <1>0 DEF HttpBase, Before
    <3>3. \A r \in HttpIds : r <= c.parsed => r < c.parsed \/ r = c.parsed
      BY <1>0 DEF HttpIds
    <3> QED
      BY <3>1, <3>2, <3>3
  <2> HIDE DEF y
  <2>5. /\ y = [c |-> y.c, h |-> f, ok |-> y.ok] /\ y.ok \in BOOLEAN
        /\ HttpMid(y.c, hs) /\ Done0(y.c, c)
        /\ ~y.ok /\ t => ~y.c.open /\ NoReadQueued(y.c)
    BY <1>0, <2>1, <2>3, <2>4, FinishRequestKeeps
  <2>6. EndsAs(y.c, c) /\ y.c.request = 0
    BY <2>5 DEF EndsAs, Done0
  <2> QED
    BY <2>5, <2>6 DEF y
<1>2. CASE ~(c.requestFinished /\ Http!Drained(c))
  <2>1. y = x
    BY <1>2 DEF Http!WriteComplete
  <2>2. EndsAs(c, c)
    BY DEF EndsAs, SameWrite
  <2>3. c.request # 0 /\ hs[c.request].ended /\ c.open => Http!Writing(c)
    <3>1. CASE c.request = 0
      BY <3>1
    <3>2. CASE InBody(c, hs)
      <4>1. ~hs[c.request].ended
        BY <3>2 DEF InBody, Http!NoHandler, Http!NewHandler
      <4> QED
        BY <4>1
    <3>3. CASE InHandler(c, hs)
      BY <1>2, <3>3 DEF InHandler, Http!Drained
    <3>4. CASE AtEnd(c, hs)
      BY <3>4 DEF AtEnd
    <3> QED
      BY <3>1, <3>2, <3>3, <3>4 DEF HttpMid, Stage, BetweenRequests
  <2>4. y.c = c /\ y.h = f /\ y.ok = t /\ y = [c |-> y.c, h |-> f, ok |-> y.ok]
    BY <2>1
  <2> QED
    BY <2>2, <2>3, <2>4
<1> QED
  BY <1>1, <1>2

-----------------------------------------------------------------------------
(* The calls of a handler.                                                 *)

\* A field of the handler of a call.
LEMMA HeadersWithin ==
    ASSUME NEW c, NEW f, NEW t, NEW v
    PROVE  [[c |-> c, h |-> f, ok |-> t] EXCEPT !.h.headersWritten = v]
             = [c |-> c, h |-> [f EXCEPT !.headersWritten = v], ok |-> t]
OBVIOUS

LEMMA FramingWithin ==
    ASSUME NEW c, NEW f, NEW t, NEW v
    PROVE  [[c |-> c, h |-> f, ok |-> t] EXCEPT !.h.framing = v]
             = [c |-> c, h |-> [f EXCEPT !.framing = v], ok |-> t]
OBVIOUS

LEMMA WroteWithin ==
    ASSUME NEW c, NEW f, NEW t, NEW v
    PROVE  [[c |-> c, h |-> f, ok |-> t] EXCEPT !.h.wrote = v]
             = [c |-> c, h |-> [f EXCEPT !.wrote = v], ok |-> t]
OBVIOUS

LEMMA MarkWithin ==
    ASSUME NEW c, NEW f, NEW t, NEW v
    PROVE  [[c |-> c, h |-> f, ok |-> t] EXCEPT !.h.finished = v]
             = [c |-> c, h |-> [f EXCEPT !.finished = v], ok |-> t]
OBVIOUS

LEMMA EndedWithin ==
    ASSUME NEW c, NEW f, NEW t, NEW v
    PROVE  [[c |-> c, h |-> f, ok |-> t] EXCEPT !.h.ended = v]
             = [c |-> c, h |-> [f EXCEPT !.ended = v], ok |-> t]
OBVIOUS

CallHeaded(x, v, w) == [x EXCEPT !.h.headersWritten = v, !.h.framing = w]
HandlerHeaded(f, v, w) == [f EXCEPT !.headersWritten = v, !.framing = w]
CallOf(c, f, t) == [c |-> c, h |-> f, ok |-> t]
LEMMA BothWithin ==
    ASSUME NEW c, NEW f, NEW t, NEW v, NEW w
    PROVE  CallHeaded(CallOf(c, f, t), v, w) = CallOf(c, HandlerHeaded(f, v, w), t)
<1> DEFINE x == [c |-> c, h |-> f, ok |-> t]
           g == [f EXCEPT !.headersWritten = v]
           y == [x EXCEPT !.h.headersWritten = v]
<1>1. [x EXCEPT !.h.headersWritten = v, !.h.framing = w] = [y EXCEPT !.h.framing = w]
  OBVIOUS
<1>2. y = [c |-> c, h |-> g, ok |-> t]
  BY HeadersWithin
<1>3. [f EXCEPT !.headersWritten = v, !.framing = w] = [g EXCEPT !.framing = w]
  OBVIOUS
<1> HIDE DEF g, y
<1>4. [y EXCEPT !.h.framing = w] = [c |-> c, h |-> [g EXCEPT !.framing = w], ok |-> t]
  BY <1>2, FramingWithin
<1> QED
  BY <1>1, <1>3, <1>4 DEF CallHeaded, HandlerHeaded, CallOf

\* What flush() makes of the handler before it writes, and as it writes.
Headed(f, r, finishing) ==
    [f EXCEPT !.headersWritten = TRUE,
              !.framing = IF ~f.headersWritten THEN Http!Framing(r, finishing) ELSE f.framing]
PartMore(f) == [f EXCEPT !.wrote = f.wrote + 1]

SameLife(g, f) ==
    /\ g.phase = f.phase /\ g.autoFinish = f.autoFinish /\ g.finished = f.finished
    /\ g.ended = f.ended /\ g.closedSeen = f.closedSeen
IsHeaded(g, f, r, finishing) ==
    /\ g \in HandlerType /\ g.headersWritten = TRUE /\ SameLife(g, f) /\ g.wrote = f.wrote
    /\ g.framing = IF ~f.headersWritten THEN Http!Framing(r, finishing) ELSE f.framing
LEMMA HeadedType ==
    ASSUME NEW f \in HandlerType, NEW r, NEW finishing
    PROVE  IsHeaded(Headed(f, r, finishing), f, r, finishing)
BY DEF IsHeaded, SameLife, Headed, HandlerType, Http!Framing

IsPartMore(g, f) ==
    /\ g \in HandlerType /\ g.wrote = f.wrote + 1 /\ SameLife(g, f)
    /\ g.framing = f.framing /\ g.headersWritten = f.headersWritten
LEMMA PartMoreType ==
    ASSUME NEW f \in HandlerType
    PROVE  IsPartMore(PartMore(f), f)
BY DEF IsPartMore, SameLife, PartMore, HandlerType

\* The connection after its write.
PartOut(c, r, part, callback, taken) ==
    Http!StreamWrite([c EXCEPT !.writeCallback = callback], [id |-> r, part |-> part], TRUE, taken)

\* What flush() returns: d is the connection after a write.
Flushes(y, c, f, r, finishing, d) ==
    LET g == Headed(f, r, finishing)
        silent == requests[r].method = "HEAD" /\ f.headersWritten
    IN  /\ silent => y = [c |-> c, h |-> g, ok |-> TRUE]
        /\ ~silent /\ c.request = 0 => y = [c |-> c, h |-> g, ok |-> FALSE]
        /\ ~silent /\ c.request # 0 /\ ~c.open => y = [c |-> c, h |-> PartMore(g), ok |-> TRUE]
        /\ ~silent /\ c.request # 0 /\ c.open => y = [c |-> d, h |-> PartMore(g), ok |-> TRUE]

LEMMA FlushIs ==
    ASSUME NEW x, NEW c, NEW f \in HandlerType, x = [c |-> c, h |-> f, ok |-> TRUE],
           NEW r, NEW callback, NEW finishing, NEW taken
    PROVE  Flushes(Http!Flush(x, r, callback, finishing, taken), c, f, r, finishing,
                   PartOut(c, r, f.wrote + 1, callback, taken))
<1> DEFINE y == Http!Flush(x, r, callback, finishing, taken)
           g == Headed(f, r, finishing)
           silent == requests[r].method = "HEAD" /\ f.headersWritten
           b == [c EXCEPT !.writeCallback = callback]
           part == f.wrote + 1
           chunk == [id |-> r, part |-> part]
           d == Http!StreamWrite(b, chunk, TRUE, taken)
           u == [c |-> c, h |-> g, ok |-> TRUE]
           v == [c |-> c, h |-> PartMore(g), ok |-> TRUE]
<1>1. [x EXCEPT !.h.headersWritten = TRUE,
                !.h.framing = IF ~f.headersWritten THEN Http!Framing(r, finishing) ELSE @] = u
  <2> DEFINE yes == TRUE
             t == TRUE
             w == IF ~f.headersWritten THEN Http!Framing(r, finishing) ELSE f.framing
  <2>1. [x EXCEPT !.h.headersWritten = TRUE,
                  !.h.framing = IF ~f.headersWritten THEN Http!Framing(r, finishing) ELSE @]
          = [x EXCEPT !.h.headersWritten = TRUE, !.h.framing = w]
    OBVIOUS
  <2> HIDE DEF yes, t, w
  <2>2. x = CallOf(c, f, t)
    BY DEF t, CallOf
  <2>3. CallHeaded(CallOf(c, f, t), yes, w) = CallOf(c, HandlerHeaded(f, yes, w), t)
    BY BothWithin
  <2>4. CallHeaded(x, yes, w) = CallOf(c, HandlerHeaded(f, yes, w), t)
    BY <2>2, <2>3
  <2> QED
    BY <2>1, <2>4 DEF yes, t, w, Headed, CallHeaded, HandlerHeaded, CallOf
<1>2. [u EXCEPT !.h.wrote = part] = v
  <2> DEFINE t == TRUE
  <2> HIDE DEF t, g
  <2>1. [[c |-> c, h |-> g, ok |-> t] EXCEPT !.h.wrote = part]
          = [c |-> c, h |-> [g EXCEPT !.wrote = part], ok |-> t]
    BY WroteWithin
  <2>2. g.wrote = f.wrote
    BY HeadedType DEF g, IsHeaded
  <2> QED
    BY <2>1, <2>2 DEF t, PartMore
<1>3. y = IF silent THEN u ELSE Http!Unwritten(Http!ConnWrite(v, chunk, callback, taken))
  <2>1. x.h = f
    OBVIOUS
  <2> HIDE DEF u, v
  <2>2. Http!Flush(x, r, callback, finishing, taken)
          = IF requests[r].method = "HEAD" /\ ~~f.headersWritten THEN u
            ELSE Http!Unwritten(Http!ConnWrite(v, chunk, callback, taken))
    BY <1>1, <1>2, <2>1 DEF Http!Flush
  <2> QED
    BY <2>2
<1> HIDE DEF y
<1>4. ASSUME ~silent, c.request = 0 PROVE y = [c |-> c, h |-> g, ok |-> FALSE]
  <2> DEFINE no == FALSE
             w == [c |-> c, h |-> PartMore(g), ok |-> no]
  <2>1. Http!ConnWrite(v, chunk, callback, taken) = w
    BY <1>4 DEF Http!ConnWrite, Http!Raise
  <2>2. w.ok = FALSE /\ w.h = PartMore(g)
    OBVIOUS
  <2>3. Http!Unwritten(w) = [w EXCEPT !.h.wrote = @ - 1]
    BY <2>2 DEF Http!Unwritten
  <2> HIDE DEF no, g
  <2>4. g \in HandlerType /\ g.wrote \in Nat
    <3>1. g \in HandlerType
      BY HeadedType DEF g, IsHeaded
    <3> QED
      BY <3>1 DEF HandlerType
  <2> DEFINE o == PartMore(g)
  <2>5. o.wrote - 1 = g.wrote /\ [o EXCEPT !.wrote = g.wrote] = g
    <3>1. o.wrote = g.wrote + 1
      BY <2>4, PartMoreType DEF IsPartMore
    <3>2. [o EXCEPT !.wrote = g.wrote] = [g EXCEPT !.wrote = g.wrote]
      BY DEF PartMore
    <3>3. [g EXCEPT !.wrote = g.wrote] = g
      BY <2>4 DEF HandlerType
    <3> HIDE DEF o
    <3>4. o.wrote - 1 = g.wrote
      BY <3>1, <2>4
    <3> QED
      BY <3>2, <3>3, <3>4
  <2> HIDE DEF o
  <2>6. [[c |-> c, h |-> o, ok |-> no] EXCEPT !.h.wrote = g.wrote]
          = [c |-> c, h |-> [o EXCEPT !.wrote = g.wrote], ok |-> no]
    BY WroteWithin
  <2>7. [[c |-> c, h |-> o, ok |-> no] EXCEPT !.h.wrote = @ - 1]
          = [[c |-> c, h |-> o, ok |-> no] EXCEPT !.h.wrote = o.wrote - 1]
    OBVIOUS
  <2>8. Http!Unwritten(w) = [c |-> c, h |-> g, ok |-> no]
    BY <2>3, <2>5, <2>6, <2>7 DEF o
  <2>9. y = Http!Unwritten(w)
    BY <1>3, <1>4, <2>1
  <2> QED
    BY <2>8, <2>9 DEF no
<1>5. ASSUME ~silent, c.request # 0, ~c.open PROVE y = v
  <2>1. Http!ConnWrite(v, chunk, callback, taken) = v
    BY <1>5 DEF Http!ConnWrite
  <2>2. Http!Unwritten(v) = v
    BY DEF Http!Unwritten
  <2> QED
    BY <1>3, <1>5, <2>1, <2>2
<1>6. ASSUME ~silent, c.request # 0, c.open PROVE y = [c |-> d, h |-> PartMore(g), ok |-> TRUE]
  <2> DEFINE w == [c |-> d, h |-> PartMore(g), ok |-> TRUE]
  <2>1. Http!ConnWrite(v, chunk, callback, taken) = w
    <3> HIDE DEF g, chunk
    <3> QED
      BY <1>6 DEF Http!ConnWrite
  <2>2. Http!Unwritten(w) = w
    <3>1. w.ok = TRUE
      OBVIOUS
    <3> QED
      BY <3>1 DEF Http!Unwritten
  <2> QED
    BY <1>3, <1>6, <2>1, <2>2
<1>7. silent => y = u
  BY <1>3
<1> QED
  BY <1>4, <1>5, <1>6, <1>7 DEF y, PartOut, Flushes

\* The handlers, with that of r in the state h.
At(hs, r, h) == [hs EXCEPT ![r] = h]

LEMMA ChangesTo ==
    ASSUME NEW hs, HandlerTypes(hs), NEW r \in HttpIds, NEW g \in HandlerType, Framed(g, r),
           Unheard(hs[r]) => Unheard(g),
           hs[r].finished => g.finished /\ g.wrote = hs[r].wrote
    PROVE  Changes(At(hs, r, g), hs, r) /\ At(hs, r, g)[r] = g
<1>1. hs \in [HttpIds -> HandlerType]
  BY DEF HandlerTypes
<1> DEFINE gs == At(hs, r, g)
<1>2. gs \in [HttpIds -> HandlerType] /\ gs[r] = g /\ \A k \in HttpIds : k # r => gs[k] = hs[k]
  BY <1>1 DEF At
<1> HIDE DEF gs
<1>3. Changes(gs, hs, r)
  BY <1>2 DEF Changes, HandlerTypes
<1> QED
  BY <1>2, <1>3 DEF gs

\* A call that has not raised.
IsCall(x, c, f) == x = CallOf(c, f, TRUE)
\* What flush() leaves behind.
Flushed(y, c, f, hs, r, callback) ==
    /\ y = [c |-> y.c, h |-> y.h, ok |-> TRUE]
    /\ y.h \in HandlerType /\ y.h.headersWritten /\ Framed(y.h, r)
    /\ y.h.phase = f.phase /\ y.h.autoFinish = f.autoFinish
    /\ y.h.finished = f.finished /\ y.h.ended = f.ended
    /\ y.h.closedSeen = f.closedSeen
    /\ HttpBase(y.c, At(hs, r, y.h))
    /\ StandsNear(y.c, c) /\ y.c.writeCallback \in {c.writeCallback, callback}

\* flush(), or the part of finish() that writes, of the request that is served.
LEMMA FlushKeeps ==
    ASSUME requests \in Seq(Kinds), Len(requests) <= MaxRequests,
           NEW x, NEW c, NEW f \in HandlerType, IsCall(x, c, f),
           NEW hs, HttpBase(c, hs), NEW r \in 1 .. c.parsed, c.request = r,
           ~hs[r].finished, ~f.finished, f.wrote = hs[r].wrote,
           f.headersWritten = hs[r].headersWritten, f.framing = hs[r].framing,
           f.closedSeen = hs[r].closedSeen, f.phase = hs[r].phase,
           NEW callback \in 0 .. c.parsed, NEW finishing \in BOOLEAN, NEW taken \in Http!Outcomes
    PROVE  Flushed(Http!Flush(x, r, callback, finishing, taken), c, f, hs, r, callback)
<1> DEFINE y == Http!Flush(x, r, callback, finishing, taken)
           g == Headed(f, r, finishing)
           o == PartMore(g)
           silent == requests[r].method = "HEAD" /\ f.headersWritten
           part == f.wrote + 1
           d == PartOut(c, r, part, callback, taken)
           gg == At(hs, r, g)
           go == At(hs, r, o)
<1>0. /\ ConnTypes(c) /\ HandlerTypes(hs) /\ Before(c, hs) /\ r \in HttpIds /\ r <= c.parsed
      /\ f.wrote \in Nat /\ c.request # 0
  <2>1. ConnTypes(c) /\ HandlerTypes(hs) /\ Before(c, hs)
    BY DEF HttpBase
  <2>2. c.parsed \in Nat
    BY <2>1 DEF ConnTypes
  <2>3. f.wrote \in Nat
    BY DEF HandlerType
  <2>4. r \in HttpIds
    BY <2>1, IdsKnown
  <2> QED
    BY <2>1, <2>2, <2>3, <2>4
<1>1. /\ g \in HandlerType /\ g.headersWritten = TRUE
      /\ g.framing = IF ~f.headersWritten THEN Http!Framing(r, finishing) ELSE f.framing
      /\ g.phase = f.phase /\ g.autoFinish = f.autoFinish /\ g.finished = f.finished
      /\ g.ended = f.ended /\ g.closedSeen = f.closedSeen /\ g.wrote = f.wrote
  <2>1. IsHeaded(g, f, r, finishing)
    BY HeadedType
  <2> HIDE DEF g
  <2> QED
    BY <2>1 DEF IsHeaded, SameLife
<1>2. /\ silent => y = [c |-> c, h |-> g, ok |-> TRUE]
      /\ ~silent /\ ~c.open => y = [c |-> c, h |-> o, ok |-> TRUE]
      /\ ~silent /\ c.open => y = [c |-> d, h |-> o, ok |-> TRUE]
  <2>0. x = [c |-> c, h |-> f, ok |-> TRUE]
    BY DEF IsCall, CallOf
  <2>1. Flushes(y, c, f, r, finishing, d)
    BY <2>0, FlushIs
  <2> HIDE DEF y, d
  <2> QED
    BY <1>0, <2>1 DEF Flushes
<1> HIDE DEF g, y, silent, d
<1>3. /\ o \in HandlerType /\ o.wrote = part
      /\ o.phase = g.phase /\ o.autoFinish = g.autoFinish /\ o.finished = g.finished
      /\ o.ended = g.ended /\ o.closedSeen = g.closedSeen
      /\ o.framing = g.framing /\ o.headersWritten = g.headersWritten
  <2>1. IsPartMore(o, g)
    BY <1>1, PartMoreType
  <2> HIDE DEF o
  <2> QED
    BY <1>1, <2>1 DEF IsPartMore, SameLife
<1> HIDE DEF o
<1>4. Framed(g, r) /\ Framed(o, r)
  <2>1. f.headersWritten /\ requests[r].http11 => f.framing \in {"length", "chunked"}
    BY <1>0 DEF Before, Framed
  <2>2. requests[r].http11 => Http!Framing(r, finishing) \in {"length", "chunked"}
    BY DEF Http!Framing
  <2> QED
    BY <1>1, <1>3, <2>1, <2>2 DEF Framed
<1>5. Changes(gg, hs, r) /\ gg[r] = g
  BY <1>0, <1>1, <1>4, ChangesTo DEF Unheard
<1>6. Changes(go, hs, r) /\ go[r] = o
  BY <1>0, <1>1, <1>3, <1>4, ChangesTo DEF Unheard
<1> HIDE DEF gg, go
<1>7. ~(r < c.parsed)
  BY <1>0 DEF ConnTypes
<1>8. StandsNear(c, c)
  BY DEF StandsNear, SameRead, QueueGrows
<1>9. CASE silent
  <2>1. y.c = c /\ y.h = g /\ y = [c |-> y.c, h |-> y.h, ok |-> TRUE]
    BY <1>2, <1>9
  <2>2. HttpBase(c, gg)
    <3>1. gg[r].wrote = hs[r].wrote /\ hs[r].headersWritten
      BY <1>1, <1>5, <1>9 DEF silent
    <3> QED
      BY <1>5, <1>7, <3>1, HandlerKeeps
  <2>3. HttpBase(y.c, At(hs, r, y.h))
    BY <2>1, <2>2 DEF gg
  <2> QED
    BY <1>1, <1>4, <1>8, <2>1, <2>3 DEF y, Flushed
<1>10. CASE ~silent /\ ~c.open
  <2>1. y.c = c /\ y.h = o /\ y = [c |-> y.c, h |-> y.h, ok |-> TRUE]
    BY <1>2, <1>10
  <2>2. HttpBase(c, go)
    BY <1>6, <1>7, <1>10, HandlerKeeps
  <2>3. HttpBase(y.c, At(hs, r, y.h))
    BY <2>1, <2>2 DEF go
  <2> QED
    BY <1>1, <1>3, <1>4, <1>8, <2>1, <2>3 DEF y, Flushed
<1>11. CASE ~silent /\ c.open
  <2>1. y.c = d /\ y.h = o /\ y = [c |-> y.c, h |-> y.h, ok |-> TRUE]
    BY <1>2, <1>11
  <2>2. HttpBase(d, go) /\ StandsNear(d, c) /\ d.writeCallback = callback
    <3> DEFINE b == [c EXCEPT !.writeCallback = callback]
    <3>1. part \in Nat /\ go[r].wrote = part /\ part = hs[r].wrote + 1
      BY <1>0, <1>3, <1>6
    <3> HIDE DEF part
    <3>3. /\ HttpBase(b, hs) /\ StandsNear(b, c) /\ b.writeCallback = callback /\ b.open = c.open
          /\ b.queue = c.queue
      BY CallbackNoted
    <3>4. d = Http!StreamWrite(b, [id |-> r, part |-> part], TRUE, taken)
      BY DEF d, part, PartOut
    <3> HIDE DEF b
    <3>5. b.request = r /\ b.parsed = c.parsed
      BY <3>3 DEF StandsNear, SameRead
    <3>6. HttpBase(d, go) /\ StandsAs(d, b)
      BY <1>6, <1>11, <3>1, <3>3, <3>4, <3>5, WriteKeeps
    <3>7. StandsNear(d, c)
      BY <3>3, <3>6 DEF StandsAs, StandsNear, QueueGrows, SameRead
    <3> QED
      BY <3>3, <3>6, <3>7 DEF StandsAs
  <2>3. HttpBase(y.c, At(hs, r, y.h))
    BY <2>1, <2>2 DEF go
  <2> QED
    BY <1>1, <1>3, <1>4, <2>1, <2>2, <2>3 DEF y, Flushed
<1> QED
  BY <1>9, <1>10, <1>11

LEMMA AtIs ==
    ASSUME NEW hs, HandlerTypes(hs), NEW r \in HttpIds, NEW f \in HandlerType
    PROVE  /\ HandlerTypes(At(hs, r, f)) /\ At(hs, r, f)[r] = f
           /\ \A k \in HttpIds : k # r => At(hs, r, f)[k] = hs[k]
BY DEF HandlerTypes, At

LEMMA AtAgain ==
    ASSUME NEW hs, HandlerTypes(hs), NEW r \in HttpIds, NEW f \in HandlerType,
           NEW g \in HandlerType
    PROVE  At(At(hs, r, f), r, g) = At(hs, r, g)
BY DEF HandlerTypes, At

LEMMA AtSame ==
    ASSUME NEW hs, HandlerTypes(hs), NEW r \in HttpIds
    PROVE  At(hs, r, hs[r]) = hs /\ hs[r] \in HandlerType
BY DEF HandlerTypes, At

\* What matters of a handler to where its connection stands.
SameEnd(g, h) == g.phase # "none" /\ h.phase # "none" /\ g.ended = h.ended /\ g.finished = h.finished
LEMMA StageChanged ==
    ASSUME NEW c, NEW hs, NEW gs, Stage(c, hs),
           c.parsed # 0 => gs[c.parsed] = hs[c.parsed] \/ SameEnd(gs[c.parsed], hs[c.parsed])
    PROVE  Stage(c, gs)
<1>1. Http!NoHandler.phase = "none"
  BY DEF Http!NoHandler, Http!NewHandler
<1>2. CASE BetweenRequests(c, hs)
  BY <1>2 DEF Stage, BetweenRequests, SameEnd
<1>3. CASE InBody(c, hs)
  BY <1>1, <1>3 DEF Stage, InBody, SameEnd
<1>4. CASE InHandler(c, hs)
  BY <1>4 DEF Stage, InHandler, SameEnd
<1>5. CASE AtEnd(c, hs)
  BY <1>1, <1>5 DEF Stage, AtEnd, SameEnd
<1> QED
  BY <1>2, <1>3, <1>4, <1>5 DEF Stage

\* A handler that is not finished is that of the last request, which is served, or whose
\* connection closed as it ended.
LEMMA Unfinished ==
    ASSUME NEW c, NEW hs, HttpMid(c, hs), NEW r \in HttpIds, r <= c.parsed,
           ~hs[r].finished, hs[r].phase # "none"
    PROVE  /\ r = c.parsed
           /\ \/ InHandler(c, hs) /\ c.request = r /\ ~hs[r].ended /\ ~c.requestFinished
              \/ AtEnd(c, hs) /\ ~c.open /\ hs[r].ended /\ c.request = 0 /\ c.closeCb = 0
<1>0. ConnTypes(c) /\ Before(c, hs) /\ Stage(c, hs) /\ c.parsed \in Nat /\ r \in Nat /\ r # 0
  BY DEF HttpMid, HttpBase, ConnTypes, HttpIds
<1>1. r = c.parsed
  BY <1>0 DEF Before
<1>2. Http!NoHandler.phase = "none"
  BY DEF Http!NoHandler, Http!NewHandler
<1>3. ~BetweenRequests(c, hs) /\ ~InBody(c, hs)
  BY <1>0, <1>1, <1>2 DEF BetweenRequests, InBody
<1>4. CASE InHandler(c, hs)
  BY <1>1, <1>4 DEF InHandler
<1>5. CASE AtEnd(c, hs)
  BY <1>0, <1>1, <1>2, <1>5 DEF AtEnd
<1> QED
  BY <1>0, <1>1, <1>3, <1>4, <1>5 DEF Stage

\* finish() wants no news of the end any more.
LEMMA ForgetKeeps ==
    ASSUME NEW c, NEW hs, HttpBase(c, hs)
    PROVE  LET d == Http!Forget(c)
           IN  /\ HttpBase(d, hs) /\ StandsAs(d, c) /\ SameWrite(d, c) /\ d.closeCb = 0
               /\ d.queue = c.queue /\ d.open = c.open
<1> DEFINE d == [c EXCEPT !.closeCb = 0]
<1>0. ConnRecord(c) /\ ConnTypes(c)
  BY DEF HttpBase, ConnTypes
<1>1. ConnRecord(d) /\ d.closeCb = 0
  BY <1>0 DEF ConnRecord, ConnFields
<1>2. /\ d.open = c.open /\ d.queue = c.queue
      /\ SameRead(d, c) /\ SameWrite(d, c) /\ SameRequest(d, c)
  BY <1>0 DEF ConnRecord, ConnFields, SameRead, SameWrite, SameRequest
<1> HIDE DEF d
<1>3. ConnTypes(d)
  BY <1>0, <1>1, <1>2 DEF ConnTypes, SameRead, SameWrite, SameRequest
<1>4. StandsAs(d, c)
  BY <1>1, <1>2 DEF StandsAs, StandsNear, QueueGrows, SameRequest
<1>5. ClosedNews(d, hs)
  <2>1. \A i \in DOMAIN c.queue : c.queue[i].kind = "closed" => c.queue[i].id # 0
    BY <1>0 DEF HttpBase, ClosedNews, ConnTypes
  <2> QED
    BY <1>1, <1>2, <2>1 DEF HttpBase, ClosedNews, SameRead
<1>6. Before(d, hs) /\ LeftToWrite(d, hs) /\ Ordered(d, hs)
  BY <1>1, <1>2 DEF HttpBase, Before, LeftToWrite, Http!Writing, Ordered, SentOf, LastSent,
     SameRead, SameWrite, SameRequest
<1> QED
  BY <1>1, <1>2, <1>3, <1>4, <1>5, <1>6 DEF HttpBase, d, Http!Forget

\* Which callback of the stream runs does not matter to it.
LEMMA WithinKeeps ==
    ASSUME NEW c, NEW hs, HttpMid(c, hs), NEW v \in {"none", "headers", "written"}
    PROVE  LET d == [c EXCEPT !.within = v]
           IN  /\ HttpMid(d, hs) /\ SameRead(d, c) /\ SameWrite(d, c) /\ d.closeCb = c.closeCb
               /\ d.queue = c.queue /\ d.open = c.open /\ d.within = v
               /\ d.request = c.request /\ d.requestFinished = c.requestFinished
               /\ d.writeCallback = c.writeCallback
<1> DEFINE d == [c EXCEPT !.within = v]
<1>0. ConnRecord(c) /\ ConnTypes(c) /\ HttpBase(c, hs)
  BY DEF HttpMid, HttpBase, ConnTypes
<1>1. ConnRecord(d) /\ d.within = v
  BY <1>0 DEF ConnRecord, ConnFields
<1>2. /\ d.open = c.open /\ d.queue = c.queue /\ d.closeCb = c.closeCb
      /\ SameRead(d, c) /\ SameWrite(d, c)
      /\ d.request = c.request /\ d.requestFinished = c.requestFinished
      /\ d.writeCallback = c.writeCallback
  BY <1>0 DEF ConnRecord, ConnFields, SameRead, SameWrite
<1> HIDE DEF d
<1>3. ConnTypes(d)
  BY <1>0, <1>1, <1>2 DEF ConnTypes, SameRead, SameWrite
<1>4. Stage(d, hs)
  BY <1>2 DEF HttpMid, Stage, BetweenRequests, InBody, InHandler, AtEnd, Reading, Quiet,
     NoReadQueued, SameRead
<1>5. Before(d, hs)
  BY <1>0, <1>2 DEF HttpBase, Before, SameRead, SameWrite
<1>6. LeftToWrite(d, hs)
  BY <1>0, <1>2 DEF HttpBase, LeftToWrite, Http!Writing, SameRead, SameWrite
<1>7. Ordered(d, hs)
  BY <1>0, <1>2 DEF HttpBase, Ordered, SentOf, LastSent, SameRead, SameWrite
<1>8. ClosedNews(d, hs)
  BY <1>0, <1>2 DEF HttpBase, ClosedNews, SameRead, SameWrite
<1> QED
  BY <1>1, <1>2, <1>3, <1>4, <1>5, <1>6, <1>7, <1>8 DEF HttpMid, HttpBase, d

\* What a closed connection knows of its handlers is little.
LEMMA ClosedKeeps ==
    ASSUME NEW c, NEW d, NEW hs, NEW gs, HttpBase(c, hs), HttpBase(d, gs), ~d.open,
           d.parsed = c.parsed, SameWrite(d, c),
           \A k \in 1 .. c.parsed : Unheard(gs[k]) => Unheard(hs[k])
    PROVE  HttpBase(d, hs)
<1>0. ConnTypes(d) /\ HandlerTypes(hs) /\ Before(d, hs)
  BY DEF HttpBase, Before
<1>1. ClosedNews(d, hs)
  <2>1. d.closeCb # 0 => d.closeCb \in 1 .. c.parsed
    BY <1>0 DEF ConnTypes
  <2> QED
    BY <2>1 DEF HttpBase, ClosedNews
<1>2. LeftToWrite(d, hs)
  BY DEF HttpBase, LeftToWrite
<1>3. Ordered(d, hs)
  BY DEF HttpBase, Ordered, SentOf, SameWrite, LastSent
<1> QED
  BY <1>0, <1>1, <1>2, <1>3 DEF HttpBase

-----------------------------------------------------------------------------
(* finish().                                                               *)

EndedOf(f) == [f EXCEPT !.ended = TRUE]
MarkOf(f) == [f EXCEPT !.finished = TRUE]

IsEnded(g, f) ==
    /\ g \in HandlerType /\ g.ended /\ g.phase = f.phase /\ g.autoFinish = f.autoFinish
    /\ g.finished = f.finished /\ g.closedSeen = f.closedSeen /\ g.wrote = f.wrote
    /\ g.framing = f.framing /\ g.headersWritten = f.headersWritten
LEMMA EndedType ==
    ASSUME NEW f \in HandlerType
    PROVE  IsEnded(EndedOf(f), f) /\ (f.ended => EndedOf(f) = f)
<1>1. IsEnded(EndedOf(f), f)
  BY DEF IsEnded, EndedOf, HandlerType
<1>2. ASSUME f.ended PROVE EndedOf(f) = f
  <2>1. f.ended = TRUE
    BY <1>2 DEF HandlerType
  <2> QED
    BY <2>1 DEF EndedOf, HandlerType
<1> QED
  BY <1>1, <1>2

IsMarked(g, f) ==
    /\ g \in HandlerType /\ g.finished /\ g.phase = f.phase /\ g.autoFinish = f.autoFinish
    /\ g.ended = f.ended /\ g.closedSeen = f.closedSeen /\ g.wrote = f.wrote
    /\ g.framing = f.framing /\ g.headersWritten = f.headersWritten
LEMMA MarkedType ==
    ASSUME NEW f \in HandlerType
    PROVE  IsMarked(MarkOf(f), f)
BY DEF IsMarked, MarkOf, HandlerType

CallEnded(x, v, w) == [x EXCEPT !.c = v, !.h.ended = w]
HandlerEnded(f, w) == [f EXCEPT !.ended = w]
LEMMA BothEnded ==
    ASSUME NEW c, NEW f, NEW t, NEW v, NEW w
    PROVE  CallEnded(CallOf(c, f, t), v, w) = CallOf(v, HandlerEnded(f, w), t)
<1> DEFINE x == [c |-> c, h |-> f, ok |-> t]
           y == [x EXCEPT !.c = v]
<1>1. y = [c |-> v, h |-> f, ok |-> t]
  OBVIOUS
<1>2. [x EXCEPT !.c = v, !.h.ended = w] = [y EXCEPT !.h.ended = w]
  OBVIOUS
<1> HIDE DEF y
<1>3. [y EXCEPT !.h.ended = w] = [c |-> v, h |-> [f EXCEPT !.ended = w], ok |-> t]
  BY <1>1, EndedWithin
<1> QED
  BY <1>2, <1>3 DEF CallEnded, HandlerEnded, CallOf

\* The write of finish().
LastFlush(c, f, r, taken) ==
    Http!Flush(CallOf(Http!Forget(c), EndedOf(f), TRUE), r, 0, TRUE, taken)
LEMMA FinishIs ==
    ASSUME NEW c, NEW f, NEW x, IsCall(x, c, f), ~f.finished, NEW r, NEW taken
    PROVE  Http!Finish(x, r, taken) = Http!Marked(Http!ConnFinished(LastFlush(c, f, r, taken)))
<1> DEFINE yes == TRUE
           o == TRUE
           v == Http!Forget(c)
           z == CallOf(v, EndedOf(f), TRUE)
<1>1. x.c = c /\ x.h = f
  BY DEF CallOf, IsCall
<1> HIDE DEF yes, o, v
<1>2. x = CallOf(c, f, o)
  BY DEF o, IsCall
<1>3. CallEnded(CallOf(c, f, o), v, yes) = CallOf(v, HandlerEnded(f, yes), o)
  BY BothEnded
<1>4. CallEnded(x, v, yes) = CallOf(v, HandlerEnded(f, yes), o)
  BY <1>2, <1>3
<1>5. [x EXCEPT !.c = Http!Forget(@), !.h.ended = yes] = [x EXCEPT !.c = v, !.h.ended = yes]
  BY <1>1 DEF v
<1>6. [x EXCEPT !.c = Http!Forget(@), !.h.ended = TRUE] = z
  BY <1>4, <1>5 DEF yes, o, CallEnded, HandlerEnded, EndedOf
<1> HIDE DEF z
<1> QED
  BY <1>1, <1>6 DEF Http!Finish, z, v, LastFlush

LEMMA MarkedIs ==
    ASSUME NEW c, NEW f, NEW t \in BOOLEAN
    PROVE  Http!Marked(CallOf(c, f, t)) = CallOf(c, IF t THEN MarkOf(f) ELSE f, t)
<1>1. CASE t = TRUE
  <2> DEFINE yes == TRUE
             x == CallOf(c, f, t)
  <2>1. x.ok = TRUE
    BY <1>1 DEF CallOf
  <2>2. Http!Marked(x) = [x EXCEPT !.h.finished = TRUE]
    BY <2>1 DEF Http!Marked
  <2> HIDE DEF yes
  <2>3. [[c |-> c, h |-> f, ok |-> t] EXCEPT !.h.finished = yes]
          = [c |-> c, h |-> [f EXCEPT !.finished = yes], ok |-> t]
    BY MarkWithin
  <2> QED
    BY <2>2, <2>3, <1>1 DEF yes, CallOf, MarkOf
<1>2. CASE t = FALSE
  <2>1. CallOf(c, f, t).ok = FALSE
    BY <1>2 DEF CallOf
  <2> QED
    BY <2>1, <1>2 DEF Http!Marked
<1> QED
  BY <1>1, <1>2

\* A call of the handler of r, whose request is known.
CallHolds(x, r, hs) ==
    /\ x = CallOf(x.c, x.h, x.ok) /\ x.ok \in BOOLEAN
    /\ x.h \in HandlerType /\ x.h.phase # "none" /\ r <= x.c.parsed
    /\ HttpMid(x.c, At(hs, r, x.h)) /\ Followed(x.c, At(hs, r, x.h))
\* What a call leaves as it is.
CallGoes(y, x) ==
    /\ y.c.parsed = x.c.parsed /\ y.c.within = x.c.within
    /\ y.c.writeCallback \in {0, x.c.writeCallback}
    /\ y.h.phase = x.h.phase /\ y.h.autoFinish = x.h.autoFinish
    /\ x.h.ended => y.h.ended

LEMMA FramedCall ==
    ASSUME NEW x, NEW hs, HandlerTypes(hs), NEW r \in HttpIds, CallHolds(x, r, hs)
    PROVE  /\ Framed(x.h, r) /\ HandlerTypes(At(hs, r, x.h)) /\ At(hs, r, x.h)[r] = x.h
           /\ \A k \in HttpIds : k # r => At(hs, r, x.h)[k] = hs[k]
<1>1. /\ HandlerTypes(At(hs, r, x.h)) /\ At(hs, r, x.h)[r] = x.h
      /\ \A k \in HttpIds : k # r => At(hs, r, x.h)[k] = hs[k]
  BY AtIs DEF CallHolds
<1>2. Before(x.c, At(hs, r, x.h)) /\ r <= x.c.parsed
  BY DEF CallHolds, HttpMid, HttpBase
<1> QED
  BY <1>1, <1>2 DEF Before

\* finish() of a handler that has ended: the connection has closed, and it raises again.
LEMMA FinishAgain ==
    ASSUME NEW x, NEW hs, HandlerTypes(hs), NEW r \in HttpIds, CallHolds(x, r, hs),
           x.ok, ~x.h.finished, x.h.ended, x.c.request = 0, x.c.closeCb = 0, NEW taken
    PROVE  Http!Finish(x, r, taken) = CallOf(x.c, x.h, FALSE)
<1> DEFINE c == x.c
           f == x.h
           z == CallOf(c, f, TRUE)
           w == CallOf(c, f, FALSE)
           y == Http!Flush(z, r, 0, TRUE, taken)
<1>0. ConnTypes(c) /\ ConnRecord(c) /\ f \in HandlerType
  BY DEF CallHolds, HttpMid, HttpBase, ConnTypes
<1>1. x = z /\ IsCall(x, c, f)
  BY DEF CallHolds, IsCall
<1> HIDE DEF c, f
<1>2. Http!Forget(c) = c
  <2>1. c.closeCb = 0
    BY DEF c
  <2> QED
    BY <1>0, <2>1 DEF Http!Forget, ConnRecord, ConnFields
<1>3. EndedOf(f) = f
  BY <1>0, EndedType DEF f
<1>4. Http!Finish(x, r, taken) = Http!Marked(Http!ConnFinished(y))
  <2>1. ~f.finished
    BY DEF f
  <2>0. IsCall(x, c, f)
    BY <1>1
  <2>2. Http!Finish(x, r, taken) = Http!Marked(Http!ConnFinished(LastFlush(c, f, r, taken)))
    BY ONLY <2>0, <2>1, FinishIs
  <2> QED
    BY <1>2, <1>3, <2>2 DEF LastFlush
<1>5. Headed(f, r, TRUE) = f
  <2>1. f.headersWritten = TRUE
    <3>1. Framed(f, r) /\ f.ended
      BY FramedCall DEF f
    <3> QED
      BY <3>1, <1>0 DEF Framed, HandlerType
  <2> QED
    BY <1>0, <2>1 DEF Headed, HandlerType
<1>6. y = z \/ y = w
  <2>1. Flushes(y, c, f, r, TRUE, PartOut(c, r, f.wrote + 1, 0, taken))
    BY <1>0, FlushIs DEF CallOf
  <2>2. c.request = 0
    BY DEF c
  <2> HIDE DEF y
  <2> QED
    BY <1>5, <2>1, <2>2 DEF Flushes, CallOf
<1>7. Http!ConnFinished(y) = w
  <2>1. CASE y = w
    <3>1. w.ok = FALSE
      BY DEF CallOf
    <3> QED
      BY <2>1, <3>1 DEF Http!ConnFinished
  <2>2. CASE y = z
    <3>1. z.ok = TRUE /\ z.c.request = 0
      BY DEF CallOf, c
    <3>2. [z EXCEPT !.ok = FALSE] = w
      <4> DEFINE no == FALSE
                 yes == TRUE
      <4> HIDE DEF no, yes
      <4>1. [[c |-> c, h |-> f, ok |-> yes] EXCEPT !.ok = no] = [c |-> c, h |-> f, ok |-> no]
        OBVIOUS
      <4> QED
        BY <4>1 DEF no, yes, CallOf
    <3> HIDE DEF z, w
    <3> QED
      BY <2>2, <3>1, <3>2 DEF Http!ConnFinished, Http!ConnFinish, Http!Raise
  <2> QED
    BY <1>6, <2>1, <2>2
<1>8. Http!Marked(w) = w
  BY MarkedIs
<1> QED
  BY <1>4, <1>7, <1>8 DEF c, f

\* finish() of the request that is served.
LEMMA FinishServed ==
    ASSUME HttpWorld, NEW x, NEW hs, HandlerTypes(hs), NEW r \in HttpIds, CallHolds(x, r, hs),
           x.ok, InHandler(x.c, At(hs, r, x.h)), x.c.request = r, r = x.c.parsed,
           ~x.h.ended, ~x.h.finished, NEW taken \in Http!Outcomes
    PROVE  LET y == Http!Finish(x, r, taken)
           IN  /\ CallHolds(y, r, hs) /\ CallGoes(y, x) /\ y.h.ended
               /\ y.ok => y.h.finished
               /\ ~y.ok => ~y.h.finished /\ ~y.c.open /\ y.c.request = 0 /\ y.c.closeCb = 0
<1> DEFINE c == x.c
           f == x.h
           fs == At(hs, r, f)
           c1 == Http!Forget(c)
           f1 == EndedOf(f)
           z == LastFlush(c, f, r, taken)
           us == At(hs, r, z.h)
           g == MarkOf(z.h)
           gs == At(hs, r, g)
           w == Http!ConnFinish(z)
           y == Http!Finish(x, r, taken)
<1>0. /\ requests \in Seq(Kinds) /\ Len(requests) <= MaxRequests /\ client.owed \in BOOLEAN
      /\ HttpMid(c, fs) /\ HttpBase(c, fs) /\ ConnTypes(c) /\ f \in HandlerType
      /\ HandlerTypes(fs) /\ fs[r] = f /\ Framed(f, r)
      /\ c.parsed \in Nat /\ r \in 1 .. c.parsed /\ c.parsed = r /\ c.request = r
      /\ Quiet(c) /\ f.phase # "none"
  <2>1. HttpMid(c, fs) /\ f \in HandlerType /\ f.phase # "none"
    BY DEF CallHolds
  <2>2. HttpBase(c, fs) /\ ConnTypes(c) /\ c.parsed \in Nat /\ Quiet(c)
    BY <2>1 DEF HttpMid, HttpBase, ConnTypes, InHandler
  <2>3. r \in 1 .. c.parsed
    BY <2>2 DEF HttpIds
  <2>4. client.owed \in BOOLEAN
    BY DEF HttpWorld
  <2>5. HandlerTypes(fs) /\ fs[r] = f /\ Framed(f, r)
    BY FramedCall
  <2> QED
    BY <2>1, <2>2, <2>3, <2>4, <2>5 DEF HttpWorld
<1>1. y = Http!Marked(Http!ConnFinished(z))
  <2>1. IsCall(x, c, f) /\ ~f.finished
    BY DEF CallHolds, IsCall
  <2> HIDE DEF c, f, z
  <2>2. Http!Finish(x, r, taken) = Http!Marked(Http!ConnFinished(LastFlush(c, f, r, taken)))
    BY ONLY <2>1, FinishIs
  <2> QED
    BY <2>2 DEF z
<1>2. IsEnded(f1, f)
  BY <1>0, EndedType
<1>3. /\ HttpBase(c1, fs) /\ StandsAs(c1, c) /\ SameWrite(c1, c) /\ c1.closeCb = 0
      /\ c1.queue = c.queue /\ c1.open = c.open
  BY <1>0, ForgetKeeps
<1> HIDE DEF y, c, f, fs, c1, f1
<1>4. /\ c1.parsed = c.parsed /\ c1.request = r /\ c1.writeCallback = c.writeCallback
      /\ c1.within = c.within /\ c1.reading = c.reading
  BY <1>0, <1>3 DEF StandsAs, StandsNear, SameRead
<1>5. /\ z = [c |-> z.c, h |-> z.h, ok |-> TRUE]
      /\ z.h \in HandlerType /\ z.h.headersWritten /\ Framed(z.h, r)
      /\ z.h.phase = f1.phase /\ z.h.autoFinish = f1.autoFinish
      /\ z.h.finished = f1.finished /\ z.h.ended = f1.ended
      /\ z.h.closedSeen = f1.closedSeen
      /\ HttpBase(z.c, At(fs, r, z.h))
      /\ StandsNear(z.c, c1) /\ z.c.writeCallback \in {c1.writeCallback, 0}
  <2> DEFINE v == CallOf(c1, f1, TRUE)
             cb == 0
             fin == TRUE
  <2>1. IsCall(v, c1, f1)
    BY DEF IsCall
  <2>2. z = Http!Flush(v, r, cb, fin, taken)
    BY DEF z, LastFlush, c1, f1
  <2>3. cb \in 0 .. c1.parsed /\ fin \in BOOLEAN
    BY <1>0, <1>4
  <2>4. /\ ~fs[r].finished /\ ~f1.finished /\ f1.wrote = fs[r].wrote
        /\ f1.headersWritten = fs[r].headersWritten /\ f1.framing = fs[r].framing
        /\ f1.closedSeen = fs[r].closedSeen /\ f1.phase = fs[r].phase /\ f1 \in HandlerType
    BY <1>0, <1>2 DEF IsEnded, f
  <2>5. cb = 0
    OBVIOUS
  <2> HIDE DEF v, cb, fin, z
  <2>6. r \in 1 .. c1.parsed /\ c1.request = r /\ HttpBase(c1, fs)
    BY <1>0, <1>3, <1>4
  <2>7. Flushed(Http!Flush(v, r, cb, fin, taken), c1, f1, fs, r, cb)
    BY ONLY <1>0, <2>1, <2>3, <2>4, <2>6, FlushKeeps, taken \in Http!Outcomes
  <2> QED
    BY <2>2, <2>5, <2>7 DEF Flushed
<1>6. At(fs, r, z.h) = us
  BY <1>0, <1>5, AtAgain DEF fs
<1> HIDE DEF z
<1>7. /\ z.h.phase = f.phase /\ z.h.autoFinish = f.autoFinish /\ ~z.h.finished /\ z.h.ended
      /\ z.h.closedSeen = f.closedSeen
  BY <1>2, <1>5 DEF IsEnded, f
<1>8. IsMarked(g, z.h)
  BY <1>5, MarkedType
<1> HIDE DEF g, us
<1>9. /\ HandlerTypes(us) /\ us[r] = z.h /\ \A k \in HttpIds : k # r => us[k] = hs[k]
  BY <1>5, AtIs DEF us
<1>10. /\ HandlerTypes(gs) /\ gs[r] = g /\ \A k \in HttpIds : k # r => gs[k] = hs[k]
  BY <1>8, AtIs DEF IsMarked
<1> HIDE DEF gs
<1>11. /\ z.c.parsed = r /\ z.c.request = r /\ z.c.closeCb = 0 /\ z.c.within = c.within
       /\ z.c.writeCallback \in {0, c.writeCallback}
  BY <1>0, <1>3, <1>4, <1>5 DEF StandsNear, SameRead
<1>12. HttpBase(z.c, gs)
  <2>1. Framed(g, r)
    BY <1>5, <1>7, <1>8 DEF Framed, IsMarked
  <2>2. Changes(gs, us, r)
    BY <1>7, <1>8, <1>9, <1>10, <2>1 DEF Changes, Unheard, IsMarked
  <2>3. gs[r].wrote = us[r].wrote /\ us[r].headersWritten
    BY <1>5, <1>8, <1>9, <1>10 DEF IsMarked
  <2>4. r \in 1 .. z.c.parsed /\ ~(r < z.c.parsed)
    BY <1>0, <1>11
  <2> QED
    BY <1>0, <1>5, <1>6, <2>2, <2>3, <2>4, HandlerKeeps
<1>13. Quiet(z.c)
  <2>1. c1.queue \in Seq(HttpEvent) /\ c1.reading = "none" /\ NoReadQueued(c1)
    BY <1>0, <1>3, <1>4 DEF ConnTypes, Quiet, NoReadQueued
  <2>2. z.c.reading = c1.reading
    BY <1>5 DEF StandsNear, SameRead
  <2>3. CASE z.c.queue = c1.queue
    BY <2>1, <2>2, <2>3 DEF Quiet, NoReadQueued
  <2>4. CASE \E e \in HttpEvent : e.kind \notin Reads /\ z.c.queue = Append(c1.queue, e)
    BY <2>1, <2>2, <2>4, NoReadMore DEF Quiet
  <2> QED
    BY <1>5, <2>3, <2>4 DEF StandsNear, QueueGrows
<1>14. /\ w = [c |-> w.c, h |-> z.h, ok |-> w.ok] /\ w.ok \in BOOLEAN
       /\ HttpMid(w.c, gs) /\ EndsAs(w.c, z.c) /\ w.c.closeCb = 0
       /\ w.c.request # 0 => Http!Writing(w.c)
       /\ ~w.ok => /\ ~w.c.open /\ w.c.request = 0 /\ ~w.c.requestFinished
                   /\ NoReadQueued(w.c)
  <2>1. gs[r].phase # "none" /\ gs[r].finished /\ gs[r].ended
    BY <1>0, <1>7, <1>8, <1>10 DEF IsMarked
  <2>2. \A k \in HttpIds : k <= r => gs[k].finished
    <3>1. \A k \in HttpIds : k < r => gs[k].finished
      BY <1>11, <1>12 DEF HttpBase, Before
    <3>2. \A k \in HttpIds : k <= r => k < r \/ k = r
      BY DEF HttpIds
    <3> QED
      BY <2>1, <3>1, <3>2
  <2>3. z.c.parsed # 0
    BY <1>0, <1>11
  <2> HIDE DEF w
  <2>4. w = Http!ConnFinish(z)
    BY DEF w
  <2> QED
    BY <1>0, <1>5, <1>11, <1>12, <1>13, <2>1, <2>2, <2>3, <2>4, ConnFinishKeeps
<1>15. y = CallOf(w.c, IF w.ok THEN g ELSE z.h, w.ok)
  <2>1. Http!ConnFinished(z) = w
    <3>1. z.ok = TRUE
      BY <1>5
    <3> QED
      BY <3>1 DEF Http!ConnFinished
  <2> HIDE DEF w
  <2>2. w = CallOf(w.c, z.h, w.ok)
    BY <1>14 DEF CallOf
  <2>3. Http!Marked(CallOf(w.c, z.h, w.ok)) = CallOf(w.c, IF w.ok THEN MarkOf(z.h) ELSE z.h, w.ok)
    BY <1>14, MarkedIs
  <2> QED
    BY <1>1, <2>1, <2>2, <2>3 DEF g
<1> HIDE DEF w
<1>16. y.c = w.c /\ y.h = (IF w.ok THEN g ELSE z.h) /\ y.ok = w.ok /\ y = CallOf(y.c, y.h, y.ok)
  BY <1>15 DEF CallOf
<1>17. y.c.parsed = r /\ y.c.within = c.within /\ y.c.writeCallback \in {0, c.writeCallback}
  BY <1>11, <1>14, <1>16 DEF EndsAs
<1>18. /\ y.h \in HandlerType /\ y.h.phase = f.phase /\ y.h.autoFinish = f.autoFinish /\ y.h.ended
       /\ y.ok => y.h.finished
       /\ ~y.ok => ~y.h.finished
  BY <1>5, <1>7, <1>8, <1>16 DEF IsMarked
<1>19. CallGoes(y, x)
  BY <1>0, <1>17, <1>18 DEF CallGoes, c, f
<1>20. HttpMid(y.c, At(hs, r, y.h)) /\ Followed(y.c, At(hs, r, y.h))
  <2>1. CASE w.ok
    <3>1. At(hs, r, y.h) = gs
      BY <1>16, <2>1 DEF gs
    <3> QED
      BY <1>14, <1>16, <3>1 DEF Followed
  <2>2. CASE ~w.ok
    <3>1. At(hs, r, y.h) = us
      BY <1>16, <2>2 DEF us
    <3>2. HttpBase(w.c, us)
      <4>1. HttpBase(w.c, gs) /\ HttpBase(z.c, us) /\ ~w.c.open
        BY <1>5, <1>6, <1>14, <2>2 DEF HttpMid
      <4>2. w.c.parsed = z.c.parsed /\ SameWrite(w.c, z.c)
        BY <1>14 DEF EndsAs
      <4>3. \A k \in HttpIds : Unheard(gs[k]) => Unheard(us[k])
        BY <1>8, <1>9, <1>10 DEF Unheard, IsMarked
      <4>4. \A k \in 1 .. z.c.parsed : k \in HttpIds
        BY <1>0, <1>12, IdsKnown DEF HttpBase
      <4> QED
        BY <4>1, <4>2, <4>3, <4>4, ClosedKeeps
    <3>3. AtEnd(w.c, us)
      <4>1. w.c.parsed = r /\ us[r].ended
        BY <1>7, <1>9, <1>11, <1>14 DEF EndsAs
      <4> QED
        BY <1>14, <2>2, <4>1 DEF AtEnd
    <3>4. HttpMid(w.c, us) /\ Followed(w.c, us)
      BY <1>14, <2>2, <3>2, <3>3 DEF HttpMid, Stage, Followed
    <3> QED
      BY <1>16, <3>1, <3>4
  <2> QED
    BY <2>1, <2>2
<1>21. CallHolds(y, r, hs)
  <2>1. y.ok \in BOOLEAN /\ y.h.phase # "none" /\ r <= y.c.parsed
    BY <1>0, <1>14, <1>16, <1>17, <1>18
  <2> QED
    BY <1>16, <1>18, <1>20, <2>1 DEF CallHolds
<1> QED
  BY <1>14, <1>16, <1>18, <1>19, <1>21 DEF y

\* How a call ends: the handler has ended, unless the call raised in a connection that
\* is closed.
CallEnds(y, x, r, hs) ==
    /\ CallHolds(y, r, hs) /\ CallGoes(y, x)
    /\ ~y.ok => ~y.c.open
EndsIt(y, x, r, hs) ==
    /\ CallEnds(y, x, r, hs) /\ y.h.ended
    /\ y.ok => y.h.finished

\* finish(), wherever the connection stands.
LEMMA FinishingKeeps ==
    ASSUME HttpWorld, NEW x, NEW hs, HandlerTypes(hs), NEW r \in HttpIds, CallHolds(x, r, hs),
           x.ok, ~x.h.finished, NEW taken \in Http!Outcomes
    PROVE  EndsIt(Http!Finish(x, r, taken), x, r, hs)
<1> DEFINE y == Http!Finish(x, r, taken)
           fs == At(hs, r, x.h)
<1>1. fs[r] = x.h
  BY FramedCall
<1>2. HttpMid(x.c, fs) /\ r <= x.c.parsed /\ x.h.phase # "none" /\ x.h \in HandlerType
  BY DEF CallHolds
<1>3. /\ r = x.c.parsed
      /\ \/ InHandler(x.c, fs) /\ x.c.request = r /\ ~x.h.ended
         \/ AtEnd(x.c, fs) /\ ~x.c.open /\ x.h.ended /\ x.c.request = 0 /\ x.c.closeCb = 0
  <2> HIDE DEF fs
  <2> QED
    BY <1>1, <1>2, Unfinished
<1> HIDE DEF y
<1>4. CASE InHandler(x.c, fs) /\ x.c.request = r /\ ~x.h.ended
  <2>1. /\ CallHolds(y, r, hs) /\ CallGoes(y, x) /\ y.h.ended
        /\ y.ok => y.h.finished
        /\ ~y.ok => ~y.h.finished /\ ~y.c.open /\ y.c.request = 0 /\ y.c.closeCb = 0
    BY <1>3, <1>4, FinishServed DEF y
  <2> QED
    BY <2>1 DEF EndsIt, CallEnds, y
<1>5. CASE AtEnd(x.c, fs) /\ ~x.c.open /\ x.h.ended /\ x.c.request = 0 /\ x.c.closeCb = 0
  <2>1. y = CallOf(x.c, x.h, FALSE)
    BY <1>5, FinishAgain DEF y
  <2>2. y.c = x.c /\ y.h = x.h /\ ~y.ok /\ y = CallOf(y.c, y.h, y.ok) /\ y.ok \in BOOLEAN
    BY <2>1 DEF CallOf
  <2>3. CallHolds(y, r, hs)
    BY <2>2 DEF CallHolds
  <2>4. CallGoes(y, x)
    BY <2>2 DEF CallGoes
  <2> QED
    BY <1>5, <2>2, <2>3, <2>4 DEF EndsIt, CallEnds, y
<1> QED
  BY <1>3, <1>4, <1>5

\* The call goes on as if nothing had been raised.
LEMMA GoesAgain ==
    ASSUME NEW x, NEW hs, NEW r \in HttpIds, CallHolds(x, r, hs)
    PROVE  LET y == [x EXCEPT !.ok = TRUE]
           IN  CallHolds(y, r, hs) /\ y.ok /\ y.c = x.c /\ y.h = x.h
<1> DEFINE yes == TRUE
           y == [x EXCEPT !.ok = yes]
<1> HIDE DEF yes
<1>1. x = [c |-> x.c, h |-> x.h, ok |-> x.ok]
  BY DEF CallHolds, CallOf
<1>2. y = [c |-> x.c, h |-> x.h, ok |-> yes]
  BY <1>1
<1> HIDE DEF y
<1>3. y.c = x.c /\ y.h = x.h /\ y.ok = yes
  BY <1>2
<1>4. y = CallOf(y.c, y.h, y.ok)
  BY <1>2, <1>3 DEF CallOf
<1>5. yes \in BOOLEAN /\ yes
  BY DEF yes
<1> QED
  BY <1>3, <1>4, <1>5 DEF CallHolds, y, yes

\* send_error: the response is ended in one way or another.
LEMMA SendErrorKeeps ==
    ASSUME HttpWorld, NEW x, NEW hs, HandlerTypes(hs), NEW r \in HttpIds, CallHolds(x, r, hs),
           x.ok, NEW taken \in Http!Outcomes
    PROVE  LET y == Http!SendError(x, r, taken)
           IN  CallEnds(y, x, r, hs) /\ y.h.ended
<1> DEFINE y == Http!SendError(x, r, taken)
           first == Http!Finish(x, r, taken)
           again == [first EXCEPT !.ok = TRUE]
           second == Http!Finish(again, r, taken)
<1>1. CASE x.h.finished
  <2>1. y = x
    BY <1>1 DEF Http!SendError
  <2>2. x.h.ended
    BY <1>1, FramedCall DEF Framed
  <2> HIDE DEF y
  <2>3. CallEnds(y, x, r, hs) /\ y.h.ended
    BY <2>1, <2>2 DEF CallEnds, CallGoes
  <2> QED
    BY <2>3 DEF y
<1>2. CASE ~x.h.finished
  <2>1. EndsIt(first, x, r, hs)
    BY <1>2, FinishingKeeps
  <2>2. y = IF x.h.headersWritten \/ first.h.finished THEN first ELSE second
    BY <1>2 DEF Http!SendError, Http!Again
  <2> HIDE DEF first, y
  <2>3. CASE x.h.headersWritten \/ first.h.finished
    BY <2>1, <2>2, <2>3 DEF EndsIt, y
  <2>4. CASE ~(x.h.headersWritten \/ first.h.finished)
    <3>1. CallHolds(again, r, hs) /\ again.ok /\ again.c = first.c /\ again.h = first.h
      BY <2>1, GoesAgain DEF EndsIt, CallEnds
    <3> HIDE DEF again
    <3>2. EndsIt(second, again, r, hs)
      BY <2>4, <3>1, FinishingKeeps
    <3> HIDE DEF second
    <3>3. CallGoes(second, x)
      BY <2>1, <3>1, <3>2 DEF EndsIt, CallEnds, CallGoes
    <3>4. y = second
      BY <2>2, <2>4
    <3> QED
      BY <3>2, <3>3, <3>4 DEF EndsIt, CallEnds, y
  <2> QED
    BY <2>3, <2>4
<1> QED
  BY <1>1, <1>2

\* The callback of a flush() in a handler that is not asynchronous runs in no context:
\* what it raises closes the stream.
Uncaught(h) == h.phase = "callback" /\ h.autoFinish
Dropped(x) == ~x.ok => ~x.c.open \/ FlushCallbacksRaise

LEMMA CaughtKeeps ==
    ASSUME HttpWorld, NEW x, NEW hs, HandlerTypes(hs), NEW r \in HttpIds, CallHolds(x, r, hs),
           ~x.ok /\ Uncaught(x.h) => FlushCallbacksRaise /\ x.h.ended,
           NEW taken \in Http!Outcomes
    PROVE  LET y == Http!Caught(x, r, taken)
           IN  /\ CallHolds(y, r, hs) /\ CallGoes(y, x) /\ Dropped(y)
               /\ ~x.ok => y.h.ended
<1> DEFINE y == Http!Caught(x, r, taken)
           a == [x EXCEPT !.ok = TRUE]
<1>1. CASE x.ok \/ Uncaught(x.h)
  <2>1. y = x
    BY <1>1 DEF Http!Caught, Uncaught
  <2> HIDE DEF y
  <2>2. CallHolds(y, r, hs) /\ CallGoes(y, x) /\ Dropped(y)
    BY <1>1, <2>1 DEF CallGoes, Dropped
  <2> QED
    BY <1>1, <2>1, <2>2 DEF y
<1>2. CASE ~x.ok /\ ~Uncaught(x.h)
  <2>1. CallHolds(a, r, hs) /\ a.ok /\ a.c = x.c /\ a.h = x.h
    BY GoesAgain
  <2>2. y = Http!SendError(a, r, taken)
    BY <1>2 DEF Http!Caught, Uncaught
  <2> HIDE DEF a, y
  <2>3. CallEnds(y, a, r, hs) /\ y.h.ended
    BY <2>1, <2>2, SendErrorKeeps
  <2>4. CallGoes(y, x) /\ Dropped(y)
    BY <2>1, <2>3 DEF CallEnds, CallGoes, Dropped
  <2> QED
    BY <2>3, <2>4 DEF CallEnds, y
<1> QED
  BY <1>1, <1>2

LEMMA AutoFinishedKeeps ==
    ASSUME HttpWorld, NEW x, NEW hs, HandlerTypes(hs), NEW r \in HttpIds, CallHolds(x, r, hs),
           NEW taken \in Http!Outcomes
    PROVE  LET y == Http!AutoFinished(x, r, taken)
           IN  /\ CallHolds(y, r, hs) /\ CallGoes(y, x)
               /\ x.ok /\ x.h.phase = "execute" /\ x.h.autoFinish => y.h.ended
               /\ ~x.ok => ~y.ok
<1> DEFINE y == Http!AutoFinished(x, r, taken)
<1>1. CASE x.ok /\ x.h.phase = "execute" /\ x.h.autoFinish /\ ~x.h.finished
  <2>1. y = Http!Finish(x, r, taken)
    BY <1>1 DEF Http!AutoFinished
  <2> HIDE DEF y
  <2>2. EndsIt(y, x, r, hs)
    BY <1>1, <2>1, FinishingKeeps
  <2> QED
    BY <1>1, <2>2 DEF EndsIt, CallEnds, y
<1>2. CASE ~(x.ok /\ x.h.phase = "execute" /\ x.h.autoFinish /\ ~x.h.finished)
  <2>1. y = x
    BY <1>2 DEF Http!AutoFinished
  <2>2. x.h.finished => x.h.ended
    BY FramedCall DEF Framed
  <2> HIDE DEF y
  <2>3. CallGoes(y, x)
    BY <2>1 DEF CallGoes
  <2> QED
    BY <1>2, <2>1, <2>2, <2>3 DEF y
<1> QED
  BY <1>1, <1>2

-----------------------------------------------------------------------------
(* The code of a handler returns.                                          *)

\* Followed, once no callback of the stream runs.
FollowedOn(c, hs) ==
    c.open /\ c.request # 0 /\ hs[c.request].ended => Http!Writing(c) \/ WrittenQueued(c)

\* An exception ends the stream callback.
Raised(x) == ~x.ok /\ x.c.within # "none"

PhaseOf(h, p) == [h EXCEPT !.phase = p]
IsPhase(g, h, p) ==
    /\ g \in HandlerType /\ g.phase = p /\ g.autoFinish = h.autoFinish /\ g.ended = h.ended
    /\ g.finished = h.finished /\ g.closedSeen = h.closedSeen /\ g.wrote = h.wrote
    /\ g.framing = h.framing /\ g.headersWritten = h.headersWritten
LEMMA PhaseType ==
    ASSUME NEW h \in HandlerType, NEW p \in {"execute", "callback", "waiting", "done"}
    PROVE  IsPhase(PhaseOf(h, p), h, p)
BY DEF IsPhase, PhaseOf, HandlerType

\* That the code of a handler starts or returns does not matter to the connection.
LEMMA PhaseKeeps ==
    ASSUME HttpWorld, NEW c, NEW hs, HttpMid(c, hs), NEW r \in HttpIds, r <= c.parsed,
           hs[r].phase # "none", NEW p \in {"execute", "callback", "waiting", "done"}
    PROVE  LET gs == At(hs, r, PhaseOf(hs[r], p))
           IN  HttpMid(c, gs) /\ (FollowedOn(c, hs) => FollowedOn(c, gs))
<1> DEFINE g == PhaseOf(hs[r], p)
           gs == At(hs, r, g)
<1>0. /\ HttpBase(c, hs) /\ ConnTypes(c) /\ HandlerTypes(hs) /\ Before(c, hs) /\ Stage(c, hs)
      /\ requests \in Seq(Kinds) /\ Len(requests) <= MaxRequests
      /\ r \in 1 .. c.parsed /\ c.request \in 0 .. c.parsed /\ hs[r] \in HandlerType
      /\ c.parsed \in Nat
  <2>1. /\ HttpBase(c, hs) /\ ConnTypes(c) /\ HandlerTypes(hs) /\ Before(c, hs) /\ Stage(c, hs)
        /\ requests \in Seq(Kinds) /\ Len(requests) <= MaxRequests
    BY DEF HttpMid, HttpBase, HttpWorld
  <2>2. r \in 1 .. c.parsed /\ c.request \in 0 .. c.parsed /\ c.parsed \in Nat
    BY <2>1 DEF ConnTypes, HttpIds
  <2>3. hs[r] \in HandlerType
    BY <2>1 DEF HandlerTypes
  <2> QED
    BY <2>1, <2>2, <2>3
<1>1. IsPhase(g, hs[r], p)
  BY <1>0, PhaseType
<1> HIDE DEF g
<1>2. gs[r] = g /\ \A k \in HttpIds : k # r => gs[k] = hs[k]
  BY <1>0, <1>1, AtIs DEF IsPhase
<1>3. Framed(g, r)
  <2>1. Framed(hs[r], r)
    BY <1>0 DEF Before
  <2> QED
    BY <1>1, <2>1 DEF Framed, IsPhase
<1>4. Changes(gs, hs, r)
  BY <1>0, <1>1, <1>3, ChangesTo DEF IsPhase, Unheard
<1> HIDE DEF gs
<1>5. HttpBase(c, gs)
  <2>1. /\ gs[r].wrote = hs[r].wrote /\ (gs[r].headersWritten => hs[r].headersWritten)
        /\ r < c.parsed => gs[r].finished
    BY <1>0, <1>1, <1>2 DEF IsPhase, Before
  <2> QED
    BY <1>0, <1>4, <2>1, HandlerKeeps
<1>6. Stage(c, gs)
  <2>1. c.parsed # 0 => c.parsed \in HttpIds
    <3>1. c.parsed # 0 => c.parsed \in 1 .. c.parsed
      BY <1>0
    <3> QED
      BY <1>0, <3>1, IdsKnown
  <2>2. c.parsed # 0 => gs[c.parsed] = hs[c.parsed] \/ SameEnd(gs[c.parsed], hs[c.parsed])
    BY <1>1, <1>2, <2>1 DEF SameEnd, IsPhase
  <2> QED
    BY <1>0, <2>2, StageChanged
<1>7. FollowedOn(c, hs) => FollowedOn(c, gs)
  <2>1. c.request # 0 => c.request \in HttpIds
    <3>1. c.request # 0 => c.request \in 1 .. c.parsed
      BY <1>0
    <3> QED
      BY <1>0, <3>1, IdsKnown
  <2>2. \A k \in HttpIds : gs[k].ended = hs[k].ended
    BY <1>1, <1>2 DEF IsPhase
  <2> QED
    BY <2>1, <2>2 DEF FollowedOn
<1> QED
  BY <1>5, <1>6, <1>7 DEF HttpMid, gs, g

\* The stream callback the code ran in goes on: the rest of _on_write_complete.
LEMMA CompletedKeeps ==
    ASSUME HttpWorld, NEW x, NEW hs, HandlerTypes(hs), NEW r \in HttpIds, CallHolds(x, r, hs),
           Dropped(x)
    PROVE  LET y == Http!Completed(x)
           IN  /\ CallHolds(y, r, hs) /\ EndsAs(y.c, x.c) /\ y.h = x.h
               /\ Dropped(y)
               /\ FollowedOn(y.c, At(hs, r, y.h)) \/ Raised(y)
<1> DEFINE y == Http!Completed(x)
           fs == At(hs, r, x.h)
<1>0. /\ HttpMid(x.c, fs) /\ Followed(x.c, fs) /\ x = [c |-> x.c, h |-> x.h, ok |-> x.ok]
      /\ x.ok \in BOOLEAN /\ x.h \in HandlerType /\ x.h.phase # "none" /\ r <= x.c.parsed
  BY DEF CallHolds, CallOf
<1> HIDE DEF fs
<1>1. CASE x.ok /\ x.c.within = "written"
  <2>1. y = Http!WriteComplete(x)
    BY <1>1 DEF Http!Completed
  <2>2. requests \in Seq(Kinds) /\ Len(requests) <= MaxRequests /\ client.owed \in BOOLEAN
    BY DEF HttpWorld
  <2> HIDE DEF y
  <2>3. /\ y = [c |-> y.c, h |-> x.h, ok |-> y.ok] /\ y.ok \in BOOLEAN
        /\ HttpMid(y.c, fs) /\ EndsAs(y.c, x.c)
        /\ ~y.ok /\ x.ok => ~y.c.open
        /\ y.c.request # 0 /\ fs[y.c.request].ended /\ y.c.open => Http!Writing(y.c)
    BY <1>0, <2>1, <2>2, WriteCompleteKeeps
  <2>4. y.h = x.h /\ y = CallOf(y.c, y.h, y.ok) /\ y.c.parsed = x.c.parsed
    <3>1. y.h = x.h
      BY <2>3
    <3> QED
      BY <2>3, <3>1 DEF CallOf, EndsAs
  <2>5. At(hs, r, y.h) = fs
    BY <2>4 DEF fs
  <2>6. FollowedOn(y.c, fs) /\ Followed(y.c, fs)
    BY <2>3 DEF FollowedOn, Followed
  <2>7. CallHolds(y, r, hs)
    BY <1>0, <2>3, <2>4, <2>5, <2>6 DEF CallHolds
  <2> QED
    BY <1>1, <2>3, <2>4, <2>5, <2>6, <2>7 DEF Dropped, y
<1>2. CASE ~(x.ok /\ x.c.within = "written")
  <2>1. y = x
    BY <1>2 DEF Http!Completed
  <2> HIDE DEF y
  <2>2. FollowedOn(y.c, At(hs, r, y.h)) \/ Raised(y)
    BY <1>0, <1>2, <2>1 DEF FollowedOn, Followed, Raised, fs
  <2>3. EndsAs(y.c, x.c)
    BY <2>1 DEF EndsAs, SameWrite
  <2> QED
    BY <2>1, <2>2, <2>3 DEF y
<1> QED
  BY <1>1, <1>2

\* The stream callback ends, or raises and closes the stream.
LEMMA StreamCallbackEnds ==
    ASSUME HttpWorld, NEW x, NEW hs, HttpMid(x.c, hs), Dropped(x),
           FollowedOn(x.c, hs) \/ Raised(x)
    PROVE  LET d == Http!CallbackEnds(x)
           IN  /\ HttpMid(d, hs) /\ FollowedOn(d, hs)
               /\ d.parsed = x.c.parsed /\ d.writeCallback = x.c.writeCallback
<1> DEFINE c == x.c
           d == Http!CallbackEnds(x)
<1>0. HttpBase(c, hs) /\ Stage(c, hs) /\ c.queue \in Seq(HttpEvent)
  BY DEF HttpMid, HttpBase, ConnTypes
<1>1. CASE c.within = "none"
  BY <1>1 DEF Http!CallbackEnds, Raised
<1>2. CASE c.within # "none" /\ ~x.ok
  <2>1. d = Http!CloseStream(c)
    BY <1>2 DEF Http!CallbackEnds
  <2> HIDE DEF d
  <2>2. MayBeCut \/ ~Http!Writing(c)
    BY <1>0, <1>2 DEF HttpBase, LeftToWrite, Dropped, MayBeCut
  <2>3. HttpBase(d, hs) /\ StandsAs(d, c) /\ ~d.open
    BY <1>0, <2>1, <2>2, CloseKeeps
  <2>4. HttpMid(d, hs) /\ FollowedOn(d, hs)
    BY <1>0, <2>3, StageKept DEF HttpMid, StandsAs, FollowedOn
  <2> QED
    BY <2>3, <2>4 DEF StandsAs, StandsNear, SameRead, d
<1>3. CASE c.within # "none" /\ x.ok
  <2>1. d = Http!MaybeRunClose(c)
    BY <1>3 DEF Http!CallbackEnds
  <2> HIDE DEF d
  <2>2. HttpBase(d, hs) /\ StandsAs(d, c) /\ d.open = c.open /\ (c.open \/ c.closeCb = 0 => d = c)
    BY <1>0, <2>1, RunCloseKeeps
  <2>3. HttpMid(d, hs)
    BY <1>0, <2>2, StageKept DEF HttpMid, StandsAs
  <2>4. FollowedOn(d, hs)
    <3>1. FollowedOn(c, hs)
      BY <1>3 DEF FollowedOn, Raised
    <3> QED
      BY <2>2, <3>1 DEF FollowedOn
  <2> QED
    BY <2>2, <2>3, <2>4 DEF StandsAs, StandsNear, SameRead, d
<1> QED
  BY <1>1, <1>2, <1>3

\* What a handler leaves behind that has returned.
Away(y, x, r, hs) ==
    /\ y.h \in HandlerType /\ y.h.phase \in {"done", "waiting"} /\ y.h.autoFinish = x.h.autoFinish
    /\ ~y.h.ended => y.h.phase = "waiting"
    /\ HttpMid(y.c, At(hs, r, y.h)) /\ FollowedOn(y.c, At(hs, r, y.h))
    /\ y.c.within = "none" /\ y.c.parsed = x.c.parsed
    /\ y.c.writeCallback \in {0, x.c.writeCallback}

LEMMA LeftKeeps ==
    ASSUME HttpWorld, NEW x, NEW hs, HandlerTypes(hs), NEW r \in HttpIds, CallHolds(x, r, hs),
           Dropped(x), FollowedOn(x.c, At(hs, r, x.h)) \/ Raised(x)
    PROVE  Away(Http!Left(x), x, r, hs) /\ Http!Left(x).h.ended = x.h.ended
<1> DEFINE y == Http!Left(x)
           d == Http!CallbackEnds(x)
           e == [d EXCEPT !.within = "none"]
           p == IF x.h.ended THEN "done" ELSE "waiting"
           fs == At(hs, r, x.h)
           g == PhaseOf(x.h, p)
           gs == At(fs, r, g)
<1>0. /\ x.h \in HandlerType /\ x.h.phase # "none" /\ r <= x.c.parsed
      /\ HttpMid(x.c, fs) /\ fs[r] = x.h /\ HandlerTypes(fs)
  BY FramedCall DEF CallHolds
<1>1. y.c = e /\ y.h = g
  BY DEF Http!Left, PhaseOf
<1> HIDE DEF fs, y
<1>2. /\ HttpMid(d, fs) /\ FollowedOn(d, fs)
      /\ d.parsed = x.c.parsed /\ d.writeCallback = x.c.writeCallback
  BY <1>0, StreamCallbackEnds DEF fs
<1> HIDE DEF d
<1>3. /\ HttpMid(e, fs) /\ SameRead(e, d) /\ SameWrite(e, d)
      /\ e.queue = d.queue /\ e.open = d.open /\ e.within = "none"
      /\ e.request = d.request /\ e.writeCallback = d.writeCallback
  BY <1>2, WithinKeeps
<1> HIDE DEF e
<1>4. FollowedOn(e, fs) /\ e.parsed = x.c.parsed
  BY <1>2, <1>3 DEF FollowedOn, Http!Writing, SameWrite, WrittenQueued, SameRead
<1>5. p \in {"execute", "callback", "waiting", "done"} /\ p \in {"done", "waiting"}
      /\ (~x.h.ended => p = "waiting")
  OBVIOUS
<1> HIDE DEF p
<1>6. HttpMid(e, gs) /\ FollowedOn(e, gs)
  <2>1. HttpMid(e, At(fs, r, PhaseOf(fs[r], p))) /\ FollowedOn(e, At(fs, r, PhaseOf(fs[r], p)))
    BY <1>0, <1>3, <1>4, <1>5, PhaseKeeps
  <2> QED
    BY <1>0, <2>1
<1>7. IsPhase(g, x.h, p)
  BY <1>0, <1>5, PhaseType
<1> HIDE DEF g
<1>8. gs = At(hs, r, g)
  BY <1>0, <1>7, AtAgain DEF fs, IsPhase
<1> HIDE DEF gs
<1>9. Away(y, x, r, hs)
  BY <1>1, <1>2, <1>3, <1>4, <1>5, <1>6, <1>7, <1>8 DEF Away, IsPhase
<1>10. y.h.ended = x.h.ended
  BY <1>1, <1>7 DEF IsPhase
<1> QED
  BY <1>9, <1>10 DEF y

\* _execute, or the context of a callback, once the code has returned or raised: a handler
\* that has not ended waits, and was not to be finished by itself.
LEMMA ReturnedKeeps ==
    ASSUME HttpWorld, NEW x, NEW hs, HandlerTypes(hs), NEW r \in HttpIds, CallHolds(x, r, hs),
           x.h.ended \/ x.h.phase = "execute" \/ ~x.h.autoFinish,
           ~x.ok /\ Uncaught(x.h) => FlushCallbacksRaise,
           NEW taken \in Http!Outcomes
    PROVE  LET y == Http!Returned(x, r, taken)
           IN  Away(y, x, r, hs) /\ (~y.h.ended => ~y.h.autoFinish)
<1> DEFINE a == Http!AutoFinished(x, r, taken)
           b == Http!Caught(a, r, taken)
           d == Http!Completed(b)
           y == Http!Left(d)
<1>1. /\ CallHolds(a, r, hs) /\ CallGoes(a, x)
      /\ x.ok /\ x.h.phase = "execute" /\ x.h.autoFinish => a.h.ended
      /\ ~x.ok => ~a.ok
      /\ ~a.ok /\ Uncaught(a.h) => FlushCallbacksRaise /\ a.h.ended
  <2>1. /\ CallHolds(a, r, hs) /\ CallGoes(a, x)
        /\ x.ok /\ x.h.phase = "execute" /\ x.h.autoFinish => a.h.ended
        /\ ~x.ok => ~a.ok
    BY AutoFinishedKeeps
  <2>2. Uncaught(x.h) => a = x
    BY DEF Uncaught, Http!AutoFinished
  <2>3. Uncaught(a.h) => Uncaught(x.h) /\ x.h.ended
    BY <2>1 DEF Uncaught, CallGoes
  <2> QED
    BY <2>1, <2>2, <2>3
<1> HIDE DEF a
<1>2. CallHolds(b, r, hs) /\ CallGoes(b, a) /\ Dropped(b) /\ (~a.ok => b.h.ended)
  BY <1>1, CaughtKeeps
<1> HIDE DEF b
<1>3. /\ CallHolds(d, r, hs) /\ EndsAs(d.c, b.c) /\ d.h = b.h /\ Dropped(d)
      /\ FollowedOn(d.c, At(hs, r, d.h)) \/ Raised(d)
  BY <1>2, CompletedKeeps
<1> HIDE DEF d
<1>4. Away(y, d, r, hs) /\ y.h.ended = d.h.ended
  BY <1>3, LeftKeeps
<1> HIDE DEF y
<1>5. Away(y, x, r, hs)
  BY <1>1, <1>2, <1>3, <1>4 DEF Away, CallEnds, CallGoes, EndsAs
<1>6. ~y.h.ended => ~y.h.autoFinish
  BY <1>1, <1>2, <1>3, <1>4 DEF Away, CallEnds, CallGoes
<1> QED
  BY <1>5, <1>6 DEF Http!Returned, a, b, d, y

-----------------------------------------------------------------------------
(* The steps.                                                              *)

\* What the client has sent stays sent.
WorldGrows ==
    /\ \A i \in 1 .. Len(requests) : requests'[i] = requests[i]
    /\ Len(requests) <= Len(requests')
    /\ client.gone # "no" => client'.gone # "no"

LEMMA SameWorld ==
    ASSUME HttpWorld, UNCHANGED <<requests, client>>
    PROVE  HttpWorld' /\ WorldGrows
BY DEF HttpWorld, WorldGrows

LEMMA HttpGrown ==
    ASSUME HttpWorld, HttpWorld', WorldGrows, HttpMid(conn', handler')
    PROVE  HttpMid(conn, handler)'
<1>0. /\ ConnTypes(conn') /\ HandlerTypes(handler') /\ Before(conn', handler')
      /\ ClosedNews(conn', handler') /\ LeftToWrite(conn', handler') /\ Ordered(conn', handler')
      /\ Stage(conn', handler')
  BY DEF HttpMid, HttpBase
<1>1. Len(requests) \in Nat /\ Len(requests') \in Nat /\ Len(requests) <= Len(requests')
  BY DEF HttpWorld, WorldGrows
<1>2. ConnTypes(conn)'
  BY <1>0, <1>1 DEF ConnTypes, ConnRecord, ConnFields, Reads, HttpEvent, Chunk, HttpIds
<1>3. HandlerTypes(handler)'
  BY <1>0 DEF HandlerTypes, HandlerType, HttpIds
<1>4. Before(conn, handler)'
  <2>1. \A r \in HttpIds : r <= conn'.parsed => requests'[r] = requests[r]
    <3>1. conn'.parsed \in Nat /\ conn'.parsed <= Len(requests)
      BY <1>0, <1>1 DEF ConnTypes
    <3>2. \A r \in HttpIds : r <= conn'.parsed => r \in 1 .. Len(requests)
      BY <1>1, <3>1 DEF HttpIds
    <3> QED
      BY <3>2 DEF WorldGrows
  <2> QED
    BY <1>0, <2>1 DEF Before, Framed, HttpIds, Http!NoHandler, Http!NewHandler
<1>5. LeftToWrite(conn, handler)'
  BY <1>0 DEF LeftToWrite, MayBeCut, WorldGrows, Http!Writing
<1>6. ClosedNews(conn, handler)'
  BY <1>0 DEF ClosedNews, Unheard
<1>7. Ordered(conn, handler)'
  BY <1>0 DEF Ordered, SentOf, InOrder, LastSent, Next2
<1>8. Stage(conn, handler)'
  BY <1>0 DEF Stage, BetweenRequests, InBody, InHandler, AtEnd, Reading, Quiet, NoReadQueued,
     Reads, Http!NoHandler, Http!NewHandler
<1> QED
  BY <1>2, <1>3, <1>4, <1>5, <1>6, <1>7, <1>8 DEF HttpMid, HttpBase

\* The invariant of the next state, from its parts.
LEMMA HttpNext ==
    ASSUME HttpWorld, UNCHANGED <<requests, client>>, HttpMid(conn', handler'),
           Followed(conn', handler'), TurnRight', GoesOn(handler)'
    PROVE  HttpInv'
<1>1. HttpWorld' /\ HttpMid(conn, handler)'
  BY SameWorld, HttpGrown
<1>2. Followed(conn, handler)'
  BY DEF Followed, Http!Writing, WrittenQueued
<1> QED
  BY <1>1, <1>2 DEF HttpInv

\* A step of the stream alone.
LEMMA StreamStep ==
    ASSUME HttpInv, turn = 0, UNCHANGED <<handler, turn, requests, client>>,
           HttpMid(conn', handler), FollowedOn(conn', handler), conn'.within = "none",
           conn'.writeCallback \in {0, conn.writeCallback}
    PROVE  HttpInv'
<1>1. HttpMid(conn', handler') /\ Followed(conn', handler')
  BY DEF FollowedOn, Followed
<1>2. TurnRight' /\ GoesOn(handler)'
  BY DEF HttpInv, TurnRight, GoesOn, HttpIds
<1> QED
  BY <1>1, <1>2, HttpNext DEF HttpInv

\* Between callbacks.
LEMMA AtRest ==
    ASSUME HttpInv, turn = 0
    PROVE  /\ HttpWorld /\ HttpMid(conn, handler) /\ HttpBase(conn, handler)
           /\ Stage(conn, handler) /\ ConnTypes(conn) /\ HandlerTypes(handler)
           /\ FollowedOn(conn, handler) /\ conn.within = "none"
           /\ requests \in Seq(Kinds) /\ Len(requests) <= MaxRequests /\ client.owed \in BOOLEAN
BY DEF HttpInv, HttpWorld, HttpMid, HttpBase, TurnRight, Followed, FollowedOn

LEMMA StreamClosed ==
    ASSUME HttpInv, turn = 0, UNCHANGED <<handler, turn, requests, client>>,
           client.gone # "no", conn' = Http!CloseStream(conn)
    PROVE  HttpInv'
<1>0. HttpBase(conn, handler) /\ Stage(conn, handler) /\ conn.within = "none" /\ ConnTypes(conn)
  BY AtRest
<1>1. HttpBase(conn', handler) /\ StandsAs(conn', conn) /\ ~conn'.open
  BY <1>0, CloseKeeps DEF MayBeCut
<1>2. HttpMid(conn', handler) /\ FollowedOn(conn', handler)
  BY <1>0, <1>1, StageKept DEF HttpMid, StandsAs, FollowedOn, ConnTypes
<1>3. conn'.within = "none" /\ conn'.writeCallback \in {0, conn.writeCallback}
  BY <1>0, <1>1 DEF StandsAs, StandsNear
<1> QED
  BY <1>2, <1>3, StreamStep

LEMMA PollWriteKeeps == HttpInv /\ Http!PollWrite => HttpInv'
<1> SUFFICES ASSUME HttpInv, Http!PollWrite PROVE HttpInv'
  OBVIOUS
<1>0. /\ HttpBase(conn, handler) /\ Stage(conn, handler) /\ conn.within = "none"
      /\ ConnTypes(conn) /\ FollowedOn(conn, handler) /\ turn = 0
      /\ conn.open /\ Http!Writing(conn) /\ UNCHANGED <<handler, turn, requests, client>>
  BY AtRest DEF Http!PollWrite
<1>1. \/ conn' = Http!Written(conn, 1)
      \/ client.gone # "no" /\ conn' = Http!CloseStream(conn)
  BY DEF Http!PollWrite
<1>2. CASE conn' = Http!Written(conn, 1)
  <2>1. 1 \in 0 .. Len(conn.wbuf)
    BY <1>0 DEF ConnTypes, Http!Writing
  <2>2. /\ HttpBase(conn', handler) /\ StandsAs(conn', conn) /\ conn'.open = conn.open
        /\ Http!Writing(conn) /\ conn.streamCb => Http!Writing(conn') \/ WrittenQueued(conn')
    BY <1>0, <1>2, <2>1, WrittenKeeps
  <2>3. HttpMid(conn', handler) /\ conn'.request = conn.request
    BY <1>0, <2>2, StageKept DEF HttpMid, StandsAs, ConnTypes, StandsNear
  <2>4. FollowedOn(conn', handler)
    <3>1. SUFFICES ASSUME conn.request # 0, handler[conn.request].ended
                   PROVE  Http!Writing(conn') \/ WrittenQueued(conn')
      BY <2>3 DEF FollowedOn
    <3>2. handler[conn.request].headersWritten
      <4>1. conn.request \in 1 .. conn.parsed /\ conn.request <= conn.parsed
        BY <1>0, <3>1 DEF ConnTypes
      <4>2. conn.request \in HttpIds
        BY <1>0, <4>1, IdsKnown, AtRest
      <4> QED
        BY <1>0, <3>1, <4>1, <4>2 DEF HttpBase, Before, Framed
    <3>3. conn.streamCb
      BY <1>0, <3>1, <3>2 DEF HttpBase, LeftToWrite
    <3> QED
      BY <1>0, <2>2, <3>3
  <2>5. conn'.within = "none" /\ conn'.writeCallback \in {0, conn.writeCallback}
    BY <1>0, <2>2 DEF StandsAs, StandsNear
  <2> QED
    BY <1>0, <2>3, <2>4, <2>5, StreamStep
<1>3. CASE client.gone # "no" /\ conn' = Http!CloseStream(conn)
  BY <1>0, <1>3, StreamClosed
<1> QED
  BY <1>1, <1>2, <1>3

LEMMA PollReadKeeps == HttpInv /\ Http!PollRead => HttpInv'
<1> SUFFICES ASSUME HttpInv, Http!PollRead PROVE HttpInv'
  OBVIOUS
<1>0. /\ HttpBase(conn, handler) /\ Stage(conn, handler) /\ conn.within = "none"
      /\ ConnTypes(conn) /\ FollowedOn(conn, handler) /\ turn = 0
      /\ conn.open /\ UNCHANGED <<handler, turn, requests, client>>
      /\ requests \in Seq(Kinds) /\ client.owed \in BOOLEAN
  BY AtRest DEF Http!PollRead
<1>1. CASE client.gone = "reset"
  BY <1>0, <1>1, StreamClosed DEF Http!PollRead
<1>2. CASE client.gone # "reset"
  <2> DEFINE b == [Http!Fill(conn) EXCEPT !.open = client.gone = "no"]
             d == Http!Deliver(b)
  <2>1. conn' = Http!MaybeRunClose(d)
    BY <1>2 DEF Http!PollRead
  <2>2. /\ HttpBase(b, handler) /\ ReadOnly(b, conn) /\ b.queue = conn.queue
        /\ b.reading = conn.reading /\ b.got >= conn.got
    BY <1>0, FillKeeps
  <2> HIDE DEF b
  <2>3. /\ NoReadQueued(conn) => NoReadQueued(b)
        /\ \A what \in Reads : Reading(conn, what) => Reading(b, what)
        /\ WrittenQueued(conn) => WrittenQueued(b)
    BY <2>2 DEF NoReadQueued, Reading, WrittenQueued
  <2>4. b.reading # "none" => NoReadQueued(b)
    BY <1>0, <2>2, <2>3 DEF Stage, BetweenRequests, InBody, InHandler, AtEnd, Quiet, Reading,
         NoReadQueued
  <2>5. /\ HttpBase(d, handler) /\ ReadOnly(d, b) /\ d.open = b.open /\ d.got = b.got
        /\ WrittenQueued(b) => WrittenQueued(d)
        /\ \A what \in Reads : Reading(b, what) => Reading(d, what)
        /\ b.reading = "headers" /\ d.reading = "none" => d.parsed < d.got
        /\ b.reading = "none" => d = b
    BY <2>2, <2>4, DeliverKeeps
  <2> HIDE DEF d
  <2>6. /\ d.parsed = conn.parsed /\ d.closeCb = conn.closeCb
        /\ SameWrite(d, conn) /\ SameRequest(d, conn)
        /\ d.reading = "none" /\ conn.reading = "none" => d.got >= conn.got
        /\ conn.reading = "headers" /\ d.reading = "none" => d.parsed < d.got
        /\ \A what \in Reads : Reading(conn, what) => Reading(d, what)
        /\ Quiet(conn) => Quiet(d)
    BY <2>2, <2>3, <2>5 DEF ReadOnly, SameWrite, SameRequest, Quiet
  <2>7. Stage(d, handler)
    <3>1. CASE BetweenRequests(conn, handler)
      <4>1. d.reading = "none" => d.parsed < d.got
        <5>1. conn.parsed \in Nat /\ conn.got \in Nat /\ d.got \in Nat
          BY <1>0, <2>5 DEF HttpBase, ConnTypes
        <5>2. conn.reading \in {"none", "headers"}
          BY <3>1 DEF BetweenRequests, Reading
        <5>3. conn.reading = "none" => conn.parsed < conn.got
          BY <3>1 DEF BetweenRequests
        <5> QED
          BY <2>6, <5>1, <5>2, <5>3
      <4> QED
        BY <2>6, <3>1, <4>1 DEF Stage, BetweenRequests, SameRequest, Reads
    <3>2. CASE InBody(conn, handler)
      BY <2>6, <3>2 DEF Stage, InBody, SameRequest, Reads
    <3>3. CASE InHandler(conn, handler)
      BY <2>6, <3>3 DEF Stage, InHandler, SameRequest
    <3>4. CASE AtEnd(conn, handler)
      BY <1>0, <3>4 DEF AtEnd
    <3> QED
      BY <1>0, <3>1, <3>2, <3>3, <3>4 DEF Stage
  <2>8. FollowedOn(d, handler)
    BY <1>0, <2>2, <2>3, <2>5, <2>6 DEF FollowedOn, SameWrite, SameRequest, Http!Writing
  <2>9. /\ HttpBase(conn', handler) /\ StandsAs(conn', d) /\ conn'.open = d.open
        /\ (d.open \/ d.closeCb = 0 => conn' = d)
    BY <2>1, <2>5, RunCloseKeeps
  <2>10. HttpMid(conn', handler) /\ FollowedOn(conn', handler)
    <3>1. d.queue \in Seq(HttpEvent)
      BY <2>5 DEF HttpBase, ConnTypes
    <3> QED
      BY <2>7, <2>8, <2>9, <3>1, StageKept DEF HttpMid, StandsAs, FollowedOn
  <2>11. conn'.within = "none" /\ conn'.writeCallback \in {0, conn.writeCallback}
    BY <1>0, <2>6, <2>9 DEF StandsAs, StandsNear, SameRequest
  <2> QED
    BY <1>0, <2>10, <2>11, StreamStep
<1> QED
  BY <1>1, <1>2

\* The client.
LEMMA ClientKeeps ==
    ASSUME HttpInv, UNCHANGED <<conn, handler, turn>>, HttpWorld', WorldGrows
    PROVE  HttpInv'
<1>1. HttpMid(conn', handler') /\ HttpWorld
  BY DEF HttpInv
<1>2. HttpMid(conn, handler)'
  BY <1>1, HttpGrown
<1>3. Followed(conn, handler)' /\ TurnRight' /\ GoesOn(handler)'
  BY DEF HttpInv, Followed, Http!Writing, WrittenQueued, TurnRight, GoesOn, HttpIds
<1> QED
  BY <1>2, <1>3 DEF HttpInv

LEMMA ClientSendsKeeps ==
    ASSUME HttpInv, NEW k \in Kinds, k.body \in BOOLEAN, MaxRequests \in Nat, Http!ClientSends(k)
    PROVE  HttpInv'
<1>1. requests \in Seq(Kinds) /\ requests' = Append(requests, k) /\ Len(requests) < MaxRequests
  BY DEF HttpInv, HttpWorld, Http!ClientSends
<1>2. requests' \in Seq(Kinds) /\ Len(requests') = Len(requests) + 1
      /\ \A i \in 1 .. Len(requests) : requests'[i] = requests[i]
  BY <1>1
<1>3. client' \in [owed : BOOLEAN, gone : {"no", "fin", "reset"}] /\ client'.gone = client.gone
  BY DEF HttpInv, HttpWorld, Http!ClientSends
<1>4. HttpWorld' /\ WorldGrows
  BY <1>1, <1>2, <1>3 DEF HttpWorld, WorldGrows
<1> QED
  BY <1>4, ClientKeeps DEF Http!ClientSends

LEMMA ClientSendsBodyKeeps == HttpInv /\ Http!ClientSendsBody => HttpInv'
<1> SUFFICES ASSUME HttpInv, Http!ClientSendsBody PROVE HttpInv'
  OBVIOUS
<1>1. client' \in [owed : BOOLEAN, gone : {"no", "fin", "reset"}] /\ client'.gone = client.gone
  BY DEF HttpInv, HttpWorld, Http!ClientSendsBody
<1>2. HttpWorld' /\ WorldGrows
  BY <1>1 DEF HttpInv, HttpWorld, WorldGrows, Http!ClientSendsBody
<1> QED
  BY <1>2, ClientKeeps DEF Http!ClientSendsBody

LEMMA ClientClosesKeeps == HttpInv /\ Http!ClientCloses => HttpInv'
<1> SUFFICES ASSUME HttpInv, Http!ClientCloses PROVE HttpInv'
  OBVIOUS
<1>1. client' \in [owed : BOOLEAN, gone : {"no", "fin", "reset"}] /\ client'.gone # "no"
  BY DEF HttpInv, HttpWorld, Http!ClientCloses
<1>2. HttpWorld' /\ WorldGrows
  BY <1>1 DEF HttpInv, HttpWorld, WorldGrows, Http!ClientCloses
<1> QED
  BY <1>2, ClientKeeps DEF Http!ClientCloses

-----------------------------------------------------------------------------
(* The steps of a handler.                                                 *)

LEMMA HereHolds ==
    ASSUME HttpInv, turn # 0
    PROVE  /\ HttpWorld /\ turn \in HttpIds /\ turn <= conn.parsed /\ HandlerTypes(handler)
           /\ CallHolds(Http!Here, turn, handler)
           /\ Http!Here = CallOf(conn, handler[turn], TRUE)
           /\ Http!Here.c = conn /\ Http!Here.h = handler[turn] /\ Http!Here.ok
           /\ handler[turn].ended \/ handler[turn].phase = "execute" \/ ~handler[turn].autoFinish
           /\ conn.parsed \in Nat
<1>1. /\ HttpWorld /\ HttpMid(conn, handler) /\ HandlerTypes(handler) /\ ConnTypes(conn)
      /\ Followed(conn, handler) /\ turn \in 1 .. conn.parsed /\ handler[turn].phase # "none"
      /\ conn.parsed \in Nat
  BY DEF HttpInv, TurnRight, HttpMid, HttpBase, ConnTypes
<1>2. turn \in HttpIds /\ turn <= conn.parsed
  <2>1. turn \in HttpIds
    BY <1>1, IdsKnown DEF HttpWorld
  <2> QED
    BY <1>1, <2>1
<1>3. handler[turn].ended \/ handler[turn].phase = "execute" \/ ~handler[turn].autoFinish
  BY <1>1, <1>2 DEF HttpInv, GoesOn
<1>4. /\ Http!Here = CallOf(conn, handler[turn], TRUE)
      /\ Http!Here.c = conn /\ Http!Here.h = handler[turn] /\ Http!Here.ok
  BY DEF Http!Here, CallOf
<1>5. At(handler, turn, handler[turn]) = handler /\ handler[turn] \in HandlerType
  BY <1>1, <1>2, AtSame
<1>6. Http!Here.ok \in BOOLEAN
  BY <1>4 DEF CallOf
<1>7. Http!Here = CallOf(Http!Here.c, Http!Here.h, Http!Here.ok)
  BY DEF Http!Here, CallOf
<1>8. CallHolds(Http!Here, turn, handler)
  <2> DEFINE x == Http!Here
  <2>1. x = CallOf(x.c, x.h, x.ok) /\ x.ok \in BOOLEAN /\ x.c = conn /\ x.h = handler[turn]
    BY <1>4, <1>6, <1>7
  <2> HIDE DEF x
  <2>2. At(handler, turn, x.h) = handler /\ x.h \in HandlerType
    BY <1>5, <2>1
  <2>3. CallHolds(x, turn, handler)
    BY <1>1, <1>2, <2>1, <2>2 DEF CallHolds
  <2> QED
    BY <2>3 DEF x
<1> QED
  BY <1>1, <1>2, <1>3, <1>4, <1>8

\* A call that has raised.
LEMMA RaisedHolds ==
    ASSUME NEW x, NEW hs, NEW r \in HttpIds, CallHolds(x, r, hs)
    PROVE  LET y == Http!Raise(x)
           IN  CallHolds(y, r, hs) /\ ~y.ok /\ y.c = x.c /\ y.h = x.h
<1> DEFINE no == FALSE
           y == [x EXCEPT !.ok = no]
<1> HIDE DEF no
<1>1. x = [c |-> x.c, h |-> x.h, ok |-> x.ok]
  BY DEF CallHolds, CallOf
<1>2. y = [c |-> x.c, h |-> x.h, ok |-> no]
  BY <1>1
<1>6. Http!Raise(x) = y
  BY DEF Http!Raise, no
<1> HIDE DEF y
<1>3. y.c = x.c /\ y.h = x.h /\ y.ok = no
  BY <1>2
<1>4. y = CallOf(y.c, y.h, y.ok)
  BY <1>2, <1>3 DEF CallOf
<1>5. no \in BOOLEAN /\ ~no
  BY DEF no
<1> QED
  BY <1>3, <1>4, <1>5, <1>6 DEF CallHolds

\* The handlers after a step of the one that has the turn.
LEMMA BecomesAt ==
    ASSUME NEW x, Http!Becomes(x)
    PROVE  conn' = x.c /\ handler' = At(handler, turn, x.h)
BY DEF Http!Becomes, At

\* The code returns.
LEMMA ReturnsHome ==
    ASSUME HttpInv, turn # 0, NEW x, CallHolds(x, turn, handler), CallGoes(x, Http!Here),
           ~x.ok /\ Uncaught(handler[turn]) => FlushCallbacksRaise,
           NEW taken \in Http!Outcomes, Http!Becomes(Http!Returned(x, turn, taken)), turn' = 0,
           UNCHANGED <<requests, client>>
    PROVE  HttpInv'
<1> DEFINE y == Http!Returned(x, turn, taken)
<1>0. /\ HttpWorld /\ turn \in HttpIds /\ HandlerTypes(handler)
      /\ Http!Here.c = conn /\ Http!Here.h = handler[turn]
      /\ handler[turn].ended \/ handler[turn].phase = "execute" \/ ~handler[turn].autoFinish
      /\ TurnRight /\ GoesOn(handler) /\ conn.writeCallback \in 0 .. conn.parsed
  <2>1. TurnRight /\ GoesOn(handler) /\ conn.writeCallback \in 0 .. conn.parsed
    BY DEF HttpInv, HttpMid, HttpBase, ConnTypes
  <2> QED
    BY <2>1, HereHolds
<1>1. x.h.ended \/ x.h.phase = "execute" \/ ~x.h.autoFinish
  BY <1>0 DEF CallGoes
<1>2. Away(y, x, turn, handler) /\ (~y.h.ended => ~y.h.autoFinish)
  BY <1>0, <1>1, ReturnedKeeps DEF CallGoes, Uncaught
<1>3. conn' = y.c /\ handler' = At(handler, turn, y.h)
  BY BecomesAt
<1> HIDE DEF y
<1>4. HttpMid(conn', handler') /\ Followed(conn', handler')
  BY <1>2, <1>3 DEF Away, FollowedOn, Followed
<1>5. handler'[turn] = y.h /\ \A k \in HttpIds : k # turn => handler'[k] = handler[k]
  BY <1>0, <1>2, <1>3, AtIs DEF Away
<1>6. GoesOn(handler)'
  BY <1>0, <1>2, <1>5 DEF GoesOn, Away, HttpIds
<1>7. TurnRight'
  <2>1. conn'.within = "none" /\ conn'.writeCallback \in {0, conn.writeCallback}
    BY <1>0, <1>2, <1>3 DEF Away, CallGoes
  <2>2. ASSUME conn.writeCallback # 0 PROVE handler'[conn.writeCallback].phase # "none"
    <3>1. conn.writeCallback \in HttpIds
      <4>1. conn.writeCallback \in 1 .. conn.parsed /\ ConnTypes(conn)
        BY <1>0, <2>2 DEF HttpInv, HttpMid, HttpBase
      <4> QED
        BY <1>0, <4>1, IdsKnown DEF HttpWorld
    <3>2. y.h.phase # "none"
      BY <1>2 DEF Away
    <3> QED
      BY <1>0, <1>5, <2>2, <3>1, <3>2 DEF TurnRight
  <2> QED
    BY <2>1, <2>2 DEF TurnRight
<1> QED
  BY <1>0, <1>4, <1>6, <1>7, HttpNext

\* The code goes on.
LEMMA StaysOn ==
    ASSUME HttpInv, turn # 0, NEW x, CallHolds(x, turn, handler),
           x.c.parsed = conn.parsed, x.c.writeCallback \in {0, conn.writeCallback, turn},
           x.h.phase = handler[turn].phase, x.h.autoFinish = handler[turn].autoFinish,
           handler[turn].ended => x.h.ended,
           Http!Becomes(x), turn' = turn, UNCHANGED <<requests, client>>
    PROVE  HttpInv'
<1>0. /\ HttpWorld /\ turn \in HttpIds /\ turn <= conn.parsed /\ HandlerTypes(handler)
      /\ handler[turn].ended \/ handler[turn].phase = "execute" \/ ~handler[turn].autoFinish
      /\ TurnRight /\ GoesOn(handler) /\ conn.writeCallback \in 0 .. conn.parsed
  <2>1. TurnRight /\ GoesOn(handler) /\ conn.writeCallback \in 0 .. conn.parsed
    BY DEF HttpInv, HttpMid, HttpBase, ConnTypes
  <2> QED
    BY <2>1, HereHolds
<1>1. conn' = x.c /\ handler' = At(handler, turn, x.h)
  BY BecomesAt
<1>2. HttpMid(conn', handler') /\ Followed(conn', handler') /\ x.h \in HandlerType
      /\ x.h.phase # "none"
  BY <1>1 DEF CallHolds
<1>3. handler'[turn] = x.h /\ \A k \in HttpIds : k # turn => handler'[k] = handler[k]
  BY <1>0, <1>1, <1>2, AtIs
<1>4. GoesOn(handler)'
  BY <1>0, <1>3 DEF GoesOn, HttpIds
<1>5. TurnRight'
  <2>1. ASSUME conn.writeCallback # 0 PROVE handler'[conn.writeCallback].phase # "none"
    <3>1. conn.writeCallback \in HttpIds
      <4>1. conn.writeCallback \in 1 .. conn.parsed /\ ConnTypes(conn)
        BY <1>0, <2>1 DEF HttpInv, HttpMid, HttpBase
      <4> QED
        BY <1>0, <4>1, IdsKnown DEF HttpWorld
    <3> QED
      BY <1>0, <1>2, <1>3, <2>1, <3>1 DEF TurnRight
  <2>2. turn' \in 1 .. conn'.parsed /\ handler'[turn].phase # "none"
    BY <1>0, <1>1, <1>2, <1>3 DEF TurnRight
  <2> QED
    BY <1>0, <1>1, <1>2, <1>3, <2>1, <2>2 DEF TurnRight
<1> QED
  BY <1>0, <1>2, <1>4, <1>5, HttpNext

LEMMA HandlerReturnsKeeps == HttpInv /\ Http!HandlerReturns => HttpInv'
<1> SUFFICES ASSUME HttpInv, Http!HandlerReturns PROVE HttpInv'
  OBVIOUS
<1>1. turn # 0 /\ turn' = 0 /\ UNCHANGED <<requests, client>>
  BY DEF Http!HandlerReturns
<1>2. PICK taken \in Http!Outcomes : Http!Becomes(Http!Returned(Http!Here, turn, taken))
  BY DEF Http!HandlerReturns
<1>3. CallHolds(Http!Here, turn, handler) /\ Http!Here.ok
  BY <1>1, HereHolds DEF Http!Here
<1>4. CallGoes(Http!Here, Http!Here)
  BY DEF CallGoes
<1> QED
  BY <1>1, <1>2, <1>3, <1>4, ReturnsHome

LEMMA HandlerRaisesKeeps == HttpInv /\ Http!HandlerRaises => HttpInv'
<1> SUFFICES ASSUME HttpInv, Http!HandlerRaises PROVE HttpInv'
  OBVIOUS
<1> DEFINE x == Http!Raise(Http!Here)
<1>1. turn # 0 /\ (Uncaught(handler[turn]) => FlushCallbacksRaise)
  BY DEF Http!HandlerRaises, Uncaught
<1>2. PICK taken \in Http!Outcomes : Http!AfterCall(x, taken)
  BY DEF Http!HandlerRaises
<1>3. CallHolds(x, turn, handler) /\ ~x.ok /\ x.c = Http!Here.c /\ x.h = Http!Here.h
  BY <1>1, HereHolds, RaisedHolds
<1> HIDE DEF x
<1>4. CallGoes(x, Http!Here)
  BY <1>3 DEF CallGoes
<1>5. Http!Becomes(Http!Returned(x, turn, taken)) /\ turn' = 0 /\ UNCHANGED <<requests, client>>
  BY <1>2, <1>3 DEF Http!AfterCall
<1> QED
  BY <1>1, <1>3, <1>4, <1>5, ReturnsHome

LEMMA HandlerFinishKeeps == HttpInv /\ Http!HandlerFinish => HttpInv'
<1> SUFFICES ASSUME HttpInv, Http!HandlerFinish PROVE HttpInv'
  OBVIOUS
<1>1. turn # 0 /\ ~handler[turn].ended
  BY DEF Http!HandlerFinish
<1>2. PICK taken \in Http!Outcomes :
        Http!AfterCall(Http!Finish(Http!Here, turn, taken), taken)
  BY DEF Http!HandlerFinish
<1> DEFINE x == Http!Finish(Http!Here, turn, taken)
<1>3. /\ HttpWorld /\ turn \in HttpIds /\ HandlerTypes(handler)
      /\ CallHolds(Http!Here, turn, handler)
      /\ Http!Here.c = conn /\ Http!Here.h = handler[turn] /\ Http!Here.ok
      /\ ~Uncaught(handler[turn])
  <2>1. TurnRight /\ GoesOn(handler)
    BY DEF HttpInv
  <2> QED
    BY <1>1, <2>1, HereHolds DEF Uncaught, GoesOn
<1>4. ~handler[turn].finished
  <2>1. Framed(Http!Here.h, turn)
    BY <1>3, FramedCall
  <2> QED
    BY <1>1, <1>3, <2>1 DEF Framed
<1>5. EndsIt(x, Http!Here, turn, handler)
  BY <1>3, <1>4, FinishingKeeps
<1> HIDE DEF x
<1>6. CallHolds(x, turn, handler) /\ CallGoes(x, Http!Here)
  BY <1>5 DEF EndsIt, CallEnds
<1>7. CASE x.ok
  <2>1. Http!Becomes(x) /\ turn' = turn /\ UNCHANGED <<requests, client>>
    BY <1>2, <1>7 DEF Http!AfterCall, x
  <2>2. /\ x.c.parsed = conn.parsed /\ x.c.writeCallback \in {0, conn.writeCallback, turn}
        /\ x.h.phase = handler[turn].phase /\ x.h.autoFinish = handler[turn].autoFinish
        /\ handler[turn].ended => x.h.ended
    BY <1>3, <1>6 DEF CallGoes
  <2> QED
    BY <1>1, <1>6, <2>1, <2>2, StaysOn
<1>8. CASE ~x.ok
  <2>1. /\ Http!Becomes(Http!Returned(x, turn, taken)) /\ turn' = 0
        /\ UNCHANGED <<requests, client>>
    BY <1>2, <1>8 DEF Http!AfterCall, x
  <2> QED
    BY <1>1, <1>3, <1>6, <2>1, ReturnsHome
<1> QED
  BY <1>7, <1>8

LEMMA HandlerFlushKeeps == HttpInv /\ Http!HandlerFlush => HttpInv'
<1> SUFFICES ASSUME HttpInv, Http!HandlerFlush PROVE HttpInv'
  OBVIOUS
<1>1. turn # 0 /\ ~handler[turn].ended
  BY DEF Http!HandlerFlush
<1>2. PICK callback \in {0, turn}, taken \in Http!Outcomes :
        Http!AfterCall(Http!Flush(Http!Here, turn, callback, FALSE, taken), taken)
  BY DEF Http!HandlerFlush
<1> DEFINE fin == FALSE
           x == Http!Flush(Http!Here, turn, callback, fin, taken)
           f == handler[turn]
           gs == At(handler, turn, x.h)
<1>3. /\ HttpWorld /\ turn \in HttpIds /\ turn <= conn.parsed /\ HandlerTypes(handler)
      /\ CallHolds(Http!Here, turn, handler) /\ IsCall(Http!Here, conn, f)
      /\ Http!Here.c = conn /\ Http!Here.h = f /\ conn.parsed \in Nat
  BY <1>1, HereHolds DEF IsCall
<1>4. f \in HandlerType /\ At(handler, turn, f) = handler
  BY <1>3, AtSame
<1>5. HttpMid(conn, handler) /\ HttpBase(conn, handler) /\ Stage(conn, handler)
      /\ conn.queue \in Seq(HttpEvent) /\ f.phase # "none"
  BY <1>1 DEF HttpInv, HttpMid, HttpBase, ConnTypes, TurnRight
<1>6. ~f.finished
  <2>1. Framed(f, turn)
    BY <1>3, FramedCall
  <2> QED
    BY <1>1, <2>1 DEF Framed
<1>7. turn = conn.parsed /\ conn.request = turn
  <2> HIDE DEF f
  <2>1. handler[turn] = f
    BY DEF f
  <2> QED
    BY <1>1, <1>3, <1>5, <1>6, <2>1, Unfinished
<1>8. callback \in 0 .. conn.parsed /\ turn \in 1 .. conn.parsed /\ fin \in BOOLEAN
  BY <1>3 DEF HttpIds
<1>9. /\ ~handler[turn].finished /\ f.wrote = handler[turn].wrote
      /\ f.headersWritten = handler[turn].headersWritten /\ f.framing = handler[turn].framing
      /\ f.closedSeen = handler[turn].closedSeen /\ f.phase = handler[turn].phase
  BY <1>6
<1> HIDE DEF f, fin, x
<1>10. Flushed(x, conn, f, handler, turn, callback)
  <2>1. requests \in Seq(Kinds) /\ Len(requests) <= MaxRequests
    BY <1>3 DEF HttpWorld
  <2>2. Flushed(Http!Flush(Http!Here, turn, callback, fin, taken), conn, f, handler, turn, callback)
    BY ONLY <2>1, <1>3, <1>4, <1>5, <1>6, <1>7, <1>8, <1>9, FlushKeeps, taken \in Http!Outcomes
  <2> QED
    BY <2>2 DEF x
<1>11. /\ x = CallOf(x.c, x.h, TRUE) /\ x.h \in HandlerType /\ x.h.phase = f.phase
       /\ x.h.autoFinish = f.autoFinish /\ x.h.finished = f.finished /\ x.h.ended = f.ended
       /\ HttpBase(x.c, gs) /\ StandsNear(x.c, conn)
       /\ x.c.writeCallback \in {conn.writeCallback, callback}
  BY <1>10 DEF Flushed, CallOf
<1>12. x.ok = TRUE
  BY <1>11 DEF CallOf
<1>13. x.c.parsed = conn.parsed /\ x.c.request = turn
  BY <1>7, <1>11 DEF StandsNear, SameRead
<1>14. gs[turn] = x.h
  BY <1>3, <1>11, AtIs
<1> HIDE DEF gs
<1>15. Stage(x.c, gs)
  <2>1. Stage(x.c, handler)
    BY <1>5, <1>11, StageKept
  <2>2. SameEnd(gs[turn], handler[turn])
    BY <1>5, <1>11, <1>14 DEF SameEnd, f
  <2> QED
    BY <1>7, <1>13, <2>1, <2>2, StageChanged
<1>16. Followed(x.c, gs)
  BY <1>1, <1>11, <1>13, <1>14 DEF Followed, f
<1>17. CallHolds(x, turn, handler)
  BY <1>3, <1>5, <1>11, <1>12, <1>13, <1>15, <1>16 DEF CallHolds, HttpMid, gs
<1>18. Http!Becomes(x) /\ turn' = turn /\ UNCHANGED <<requests, client>>
  BY <1>2, <1>12 DEF Http!AfterCall, x, fin
<1> QED
  BY <1>1, <1>11, <1>13, <1>17, <1>18, StaysOn DEF f

LEMMA HandlerResumesKeeps ==
    ASSUME HttpInv, NEW r \in HttpIds, Http!HandlerResumes(r)
    PROVE  HttpInv'
<1> DEFINE gs == At(handler, r, PhaseOf(handler[r], "callback"))
<1>0. /\ turn = 0 /\ handler[r].phase = "waiting" /\ ~handler[r].autoFinish
      /\ handler' = gs /\ turn' = r /\ UNCHANGED <<conn, requests, client>>
  BY DEF Http!HandlerResumes, At, PhaseOf
<1>1. /\ HttpWorld /\ HttpMid(conn, handler) /\ HandlerTypes(handler) /\ Before(conn, handler)
      /\ FollowedOn(conn, handler) /\ ConnTypes(conn)
      /\ TurnRight /\ GoesOn(handler)
  BY <1>0, AtRest DEF HttpBase, HttpInv
<1>2. r <= conn.parsed
  <2>1. Http!NoHandler.phase = "none"
    BY DEF Http!NoHandler, Http!NewHandler
  <2>2. ~(r > conn.parsed)
    BY <1>0, <1>1, <2>1 DEF Before
  <2> QED
    BY <1>1, <2>2 DEF ConnTypes, HttpIds
<1>3. HttpMid(conn, gs) /\ FollowedOn(conn, gs)
  BY <1>0, <1>1, <1>2, PhaseKeeps
<1>4. IsPhase(PhaseOf(handler[r], "callback"), handler[r], "callback")
  <2>1. handler[r] \in HandlerType
    BY <1>1 DEF HandlerTypes
  <2> QED
    BY <2>1, PhaseType
<1>5. gs[r] = PhaseOf(handler[r], "callback") /\ \A k \in HttpIds : k # r => gs[k] = handler[k]
  BY <1>1, <1>4, AtIs DEF IsPhase
<1> HIDE DEF gs
<1>6. HttpMid(conn', handler') /\ Followed(conn', handler')
  BY <1>0, <1>3 DEF Followed, FollowedOn
<1>7. GoesOn(handler)'
  BY <1>0, <1>1, <1>4, <1>5 DEF GoesOn, IsPhase, HttpIds
<1>8. TurnRight'
  <2>1. r \in 1 .. conn.parsed
    BY <1>1, <1>2 DEF HttpIds, ConnTypes
  <2>2. ASSUME conn.writeCallback # 0 PROVE handler'[conn.writeCallback].phase # "none"
    <3>1. conn.writeCallback \in HttpIds
      <4>1. conn.writeCallback \in 1 .. conn.parsed
        BY <1>1, <2>2 DEF ConnTypes
      <4> QED
        BY <1>1, <4>1, IdsKnown DEF HttpWorld
    <3> QED
      BY <1>0, <1>1, <1>4, <1>5, <2>2, <3>1 DEF TurnRight, IsPhase
  <2>3. handler'[r].phase # "none" /\ r # 0
    BY <1>0, <1>4, <1>5 DEF IsPhase, HttpIds
  <2> QED
    BY <1>0, <2>1, <2>2, <2>3 DEF TurnRight
<1> QED
  BY <1>0, <1>1, <1>6, <1>7, <1>8, HttpNext

-----------------------------------------------------------------------------
(* The callbacks of the stream.                                            *)

NoNews(c) == \A i \in DOMAIN c.queue : c.queue[i].kind # "closed"
TakenFrom(d, c) ==
    /\ d.queue = Tail(c.queue) /\ d.open = c.open /\ d.closeCb = c.closeCb
    /\ SameRead(d, c) /\ SameWrite(d, c) /\ SameRequest(d, c)
\* A callback is taken from the queue: the news of the end was the first.
LEMMA RestKeeps ==
    ASSUME NEW c, NEW hs, HttpBase(c, hs), c.queue # <<>>
    PROVE  LET d == [c EXCEPT !.queue = Tail(@)]
           IN  /\ HttpBase(d, hs) /\ TakenFrom(d, c) /\ NoNews(d)
               /\ NoReadQueued(c) => NoReadQueued(d)
               /\ \A what \in Reads : Reading(c, what) /\ Head(c.queue).kind \notin Reads =>
                     Reading(d, what)
               /\ \A what \in Reads : Reading(c, what) /\ Head(c.queue).kind \in Reads =>
                     Quiet(d) /\ Head(c.queue).kind = what
               /\ WrittenQueued(c) /\ Head(c.queue).kind # "written" => WrittenQueued(d)
<1> DEFINE d == [c EXCEPT !.queue = Tail(@)]
           n == Len(c.queue)
<1>0. ConnRecord(c) /\ ConnTypes(c) /\ c.queue \in Seq(HttpEvent)
  BY DEF HttpBase, ConnTypes
<1>1. ConnRecord(d) /\ d.queue = Tail(c.queue)
  BY <1>0 DEF ConnRecord, ConnFields
<1>2. /\ d.open = c.open /\ d.closeCb = c.closeCb
      /\ SameRead(d, c) /\ SameWrite(d, c) /\ SameRequest(d, c)
  BY <1>0 DEF ConnRecord, ConnFields, SameRead, SameWrite, SameRequest
<1> HIDE DEF d
<1>3. /\ n \in Nat /\ n # 0 /\ DOMAIN c.queue = 1 .. n /\ DOMAIN d.queue = 1 .. n - 1
      /\ Tail(c.queue) \in Seq(HttpEvent)
      /\ \A i \in 1 .. n - 1 : d.queue[i] = c.queue[i + 1]
      /\ Head(c.queue) = c.queue[1]
  BY <1>0, <1>1
<1> HIDE DEF n
<1>4. /\ \A i \in DOMAIN d.queue : i + 1 \in DOMAIN c.queue /\ i + 1 # 1
                                   /\ d.queue[i] = c.queue[i + 1]
      /\ \A i \in DOMAIN c.queue : i # 1 => i - 1 \in DOMAIN d.queue /\ (i - 1) + 1 = i
      /\ 1 \in DOMAIN c.queue
  BY <1>3
<1>5. ConnTypes(d)
  BY <1>0, <1>1, <1>2, <1>3 DEF ConnTypes, SameRead, SameWrite, SameRequest
<1>6. NoNews(d)
  BY <1>4 DEF NoNews, HttpBase, ClosedNews
<1>7. ClosedNews(d, hs)
  BY <1>2, <1>6 DEF NoNews, HttpBase, ClosedNews
<1>8. Before(d, hs) /\ LeftToWrite(d, hs) /\ Ordered(d, hs)
  BY <1>2 DEF HttpBase, Before, LeftToWrite, Http!Writing, Ordered, SentOf, LastSent,
     SameRead, SameWrite, SameRequest
<1>9. NoReadQueued(c) => NoReadQueued(d)
  BY <1>4 DEF NoReadQueued
<1>10. ASSUME NEW what \in Reads, Reading(c, what), c.queue[1].kind \notin Reads
       PROVE  Reading(d, what)
  <2>1. CASE c.reading = what /\ NoReadQueued(c)
    BY <1>2, <1>9, <2>1 DEF Reading, SameRead
  <2>2. ASSUME c.reading = "none", NEW i \in DOMAIN c.queue, c.queue[i].kind = what,
               \A j \in DOMAIN c.queue : c.queue[j].kind \in Reads => j = i
        PROVE  Reading(d, what)
    <3>1. i # 1
      BY <1>10, <2>2
    <3>2. i - 1 \in DOMAIN d.queue /\ d.queue[i - 1] = c.queue[i]
      BY <1>4, <3>1
    <3>3. \A j \in DOMAIN d.queue : d.queue[j].kind \in Reads => j + 1 = i
      BY <1>4, <2>2
    <3>4. \A j \in DOMAIN d.queue : j + 1 = i => j = i - 1
      BY <1>3
    <3> QED
      BY <1>2, <2>2, <3>2, <3>3, <3>4 DEF Reading, SameRead
  <2> QED
    BY <1>10, <2>1, <2>2 DEF Reading
<1>11. ASSUME NEW what \in Reads, Reading(c, what), c.queue[1].kind \in Reads
       PROVE  Quiet(d) /\ c.queue[1].kind = what
  <2>1. ~NoReadQueued(c)
    BY <1>4, <1>11 DEF NoReadQueued
  <2>2. PICK i \in DOMAIN c.queue :
           c.queue[i].kind = what /\ \A j \in DOMAIN c.queue : c.queue[j].kind \in Reads => j = i
    BY <1>11, <2>1 DEF Reading
  <2>3. c.reading = "none"
    BY <1>11, <2>1 DEF Reading
  <2>4. i = 1
    BY <1>4, <1>11, <2>2
  <2>5. NoReadQueued(d)
    BY <1>4, <2>2, <2>4 DEF NoReadQueued
  <2> QED
    BY <1>2, <2>2, <2>3, <2>4, <2>5 DEF Quiet, SameRead
<1>12. WrittenQueued(c) /\ c.queue[1].kind # "written" => WrittenQueued(d)
  BY <1>4 DEF WrittenQueued
<1>13. HttpBase(d, hs) /\ TakenFrom(d, c)
  BY <1>1, <1>2, <1>5, <1>7, <1>8 DEF HttpBase, TakenFrom
<1> QED
  BY <1>3, <1>6, <1>9, <1>10, <1>11, <1>12, <1>13 DEF d

\* A callback other than a read leaves the connection where it stands.
LEMMA RestStands ==
    ASSUME NEW c, NEW hs, HttpMid(c, hs), c.queue # <<>>, Head(c.queue).kind \notin Reads
    PROVE  HttpMid([c EXCEPT !.queue = Tail(@)], hs)
<1> DEFINE d == [c EXCEPT !.queue = Tail(@)]
<1>1. /\ HttpBase(d, hs) /\ TakenFrom(d, c)
      /\ NoReadQueued(c) => NoReadQueued(d)
      /\ \A what \in Reads : Reading(c, what) /\ Head(c.queue).kind \notin Reads => Reading(d, what)
  BY RestKeeps DEF HttpMid
<1> HIDE DEF d
<1>2. BetweenRequests(c, hs) => BetweenRequests(d, hs)
  BY <1>1 DEF BetweenRequests, TakenFrom, SameRead, SameRequest, Reads
<1>3. InBody(c, hs) => InBody(d, hs)
  BY <1>1 DEF InBody, TakenFrom, SameRead, SameRequest, Reads
<1>4. InHandler(c, hs) => InHandler(d, hs)
  BY <1>1 DEF InHandler, Quiet, TakenFrom, SameRead, SameRequest
<1>5. AtEnd(c, hs) => AtEnd(d, hs)
  BY <1>1 DEF AtEnd, TakenFrom, SameRead, SameRequest
<1> QED
  BY <1>1, <1>2, <1>3, <1>4, <1>5 DEF HttpMid, Stage, d

\* Outside of application code, a callback ends or closes the stream.
LEMMA CallbackEndsKeeps ==
    ASSUME HttpInv, turn = 0, NEW x, Http!Ends(x), HttpMid(x.c, handler),
           FollowedOn(x.c, handler), ~x.ok => ~x.c.open, x.c.within = "none",
           x.c.writeCallback \in {0, conn.writeCallback}
    PROVE  HttpInv'
<1>0. /\ HttpBase(x.c, handler) /\ Stage(x.c, handler) /\ x.c.queue \in Seq(HttpEvent)
      /\ UNCHANGED <<handler, turn, requests, client>>
  BY DEF HttpMid, HttpBase, ConnTypes, Http!Ends
<1>1. CASE x.ok
  <2>1. conn' = Http!MaybeRunClose(x.c)
    BY <1>1 DEF Http!Ends
  <2>2. /\ HttpBase(conn', handler) /\ StandsAs(conn', x.c) /\ conn'.open = x.c.open
        /\ (x.c.open \/ x.c.closeCb = 0 => conn' = x.c)
    BY <1>0, <2>1, RunCloseKeeps
  <2>3. HttpMid(conn', handler) /\ FollowedOn(conn', handler)
    BY <1>0, <2>2, StageKept DEF HttpMid, StandsAs, FollowedOn
  <2>4. conn'.within = "none" /\ conn'.writeCallback \in {0, conn.writeCallback}
    BY <2>2 DEF StandsAs, StandsNear
  <2> QED
    BY <1>0, <2>3, <2>4, StreamStep
<1>2. CASE ~x.ok
  <2>1. conn' = Http!CloseStream(x.c)
    BY <1>2 DEF Http!Ends
  <2>2. MayBeCut \/ ~Http!Writing(x.c)
    BY <1>0, <1>2 DEF HttpBase, LeftToWrite
  <2>3. HttpBase(conn', handler) /\ StandsAs(conn', x.c) /\ ~conn'.open
    BY <1>0, <2>1, <2>2, CloseKeeps
  <2>4. HttpMid(conn', handler) /\ FollowedOn(conn', handler)
    BY <1>0, <2>3, StageKept DEF HttpMid, StandsAs, FollowedOn
  <2>5. conn'.within = "none" /\ conn'.writeCallback \in {0, conn.writeCallback}
    BY <2>3 DEF StandsAs, StandsNear
  <2> QED
    BY <1>0, <2>4, <2>5, StreamStep
<1> QED
  BY <1>1, <1>2

LEMMA OnWriteCompleteKeeps == HttpInv /\ Http!OnWriteComplete => HttpInv'
<1> SUFFICES ASSUME HttpInv, Http!OnWriteComplete PROVE HttpInv'
  OBVIOUS
<1> DEFINE r == conn.writeCallback
           c == [conn EXCEPT !.queue = Tail(@)]
<1>0. /\ turn = 0 /\ conn.queue # <<>> /\ Head(conn.queue).kind = "written"
      /\ HttpWorld /\ HttpMid(conn, handler) /\ HttpBase(conn, handler) /\ ConnTypes(conn)
      /\ HandlerTypes(handler) /\ conn.within = "none"
      /\ requests \in Seq(Kinds) /\ Len(requests) <= MaxRequests /\ client.owed \in BOOLEAN
  BY AtRest DEF Http!OnWriteComplete, Http!Taken
<1>1. /\ HttpMid(c, handler) /\ TakenFrom(c, conn)
  BY <1>0, RestStands, RestKeeps DEF Reads
<1>2. Http!Rest = c
  BY DEF Http!Rest
<1> HIDE DEF c
<1>3. c.parsed = conn.parsed /\ c.within = "none" /\ c.writeCallback = r /\ c.request = conn.request
  BY <1>0, <1>1 DEF TakenFrom, SameRead, SameRequest
<1>4. CASE r = 0
  <2> DEFINE x == Http!Call(c)
             y == Http!WriteComplete(x)
             t == TRUE
  <2>1. x = [c |-> c, h |-> Http!NoHandler, ok |-> t]
    BY DEF Http!Call
  <2>2. Http!Ends(y)
    BY <1>2, <1>4 DEF Http!OnWriteComplete
  <2>3. t \in BOOLEAN /\ t
    OBVIOUS
  <2> HIDE DEF x, t
  <2>4. /\ y.ok \in BOOLEAN /\ HttpMid(y.c, handler) /\ EndsAs(y.c, c)
        /\ ~y.ok /\ t => ~y.c.open
        /\ y.c.request # 0 /\ handler[y.c.request].ended /\ y.c.open => Http!Writing(y.c)
    BY <1>0, <1>1, <2>1, <2>3, WriteCompleteKeeps
  <2> HIDE DEF y
  <2>5. FollowedOn(y.c, handler)
    BY <2>4 DEF FollowedOn
  <2>6. y.c.within = "none" /\ y.c.writeCallback \in {0, conn.writeCallback}
    BY <1>3, <2>4 DEF EndsAs
  <2> QED
    BY <1>0, <2>2, <2>3, <2>4, <2>5, <2>6, CallbackEndsKeeps
<1>5. CASE r # 0
  <2> DEFINE b == [c EXCEPT !.writeCallback = 0]
             d == [b EXCEPT !.within = "written"]
             gs == At(handler, r, PhaseOf(handler[r], "callback"))
  <2>0. /\ conn' = [c EXCEPT !.writeCallback = 0, !.within = "written"]
        /\ handler' = gs /\ turn' = r /\ UNCHANGED <<requests, client>>
    BY <1>2, <1>5 DEF Http!OnWriteComplete, At, PhaseOf
  <2>1. conn' = d
    BY <2>0
  <2>2. /\ r \in HttpIds /\ r \in 1 .. conn.parsed /\ r <= conn.parsed
        /\ handler[r].phase # "none" /\ TurnRight /\ GoesOn(handler) /\ r # 0
    <3>1. r \in 1 .. conn.parsed /\ r <= conn.parsed
      BY <1>0, <1>5 DEF ConnTypes
    <3>2. r \in HttpIds
      BY <1>0, <3>1, IdsKnown
    <3> QED
      BY <1>5, <3>1, <3>2 DEF HttpInv, TurnRight
  <2>3. HttpBase(c, handler) /\ 0 \in 0 .. c.parsed /\ Stage(c, handler)
        /\ c.queue \in Seq(HttpEvent)
    BY <1>1 DEF HttpMid, HttpBase, ConnTypes
  <2>4. /\ HttpBase(b, handler) /\ StandsNear(b, c) /\ b.writeCallback = 0 /\ b.queue = c.queue
    BY <2>3, CallbackNoted
  <2> HIDE DEF b
  <2>5. HttpMid(b, handler)
    BY <2>3, <2>4, StageKept DEF HttpMid
  <2>6. HttpMid(d, handler) /\ SameRead(d, b) /\ d.within = "written" /\ d.writeCallback = 0
    BY <2>4, <2>5, WithinKeeps
  <2> HIDE DEF d
  <2>7. d.parsed = conn.parsed
    BY <1>3, <2>4, <2>6 DEF StandsNear, SameRead
  <2>8. HttpMid(d, gs)
    BY <1>0, <2>2, <2>6, <2>7, PhaseKeeps
  <2>9. IsPhase(PhaseOf(handler[r], "callback"), handler[r], "callback")
    <3>1. handler[r] \in HandlerType
      BY <1>0, <2>2 DEF HandlerTypes
    <3> QED
      BY <3>1, PhaseType
  <2>10. gs[r] = PhaseOf(handler[r], "callback") /\ \A k \in HttpIds : k # r => gs[k] = handler[k]
    BY <1>0, <2>2, <2>9, AtIs DEF IsPhase
  <2> HIDE DEF gs, r
  <2>11. HttpMid(conn', handler') /\ Followed(conn', handler')
    BY <2>0, <2>1, <2>6, <2>8 DEF Followed
  <2>12. GoesOn(handler)'
    BY <1>0, <2>0, <2>2, <2>9, <2>10 DEF GoesOn, IsPhase, HttpIds
  <2>13. TurnRight'
    BY <2>0, <2>1, <2>2, <2>6, <2>7, <2>9, <2>10 DEF TurnRight, IsPhase
  <2> QED
    BY <1>0, <2>0, <2>11, <2>12, <2>13, HttpNext
<1> QED
  BY <1>4, <1>5

HeardOf(h) == [h EXCEPT !.closedSeen = @ + 1]
IsHeard(g, h) ==
    /\ g \in HandlerType /\ g.autoFinish = h.autoFinish /\ g.ended = h.ended /\ g.phase = h.phase
    /\ g.finished = h.finished /\ g.wrote = h.wrote
    /\ g.framing = h.framing /\ g.headersWritten = h.headersWritten
LEMMA HeardType ==
    ASSUME NEW h \in HandlerType, h.closedSeen = 0
    PROVE  IsHeard(HeardOf(h), h)
BY DEF IsHeard, HeardOf, HandlerType

\* A handler hears of the end, the news of which was not for another one.
LEMMA HeardKeeps ==
    ASSUME HttpWorld, NEW c, NEW hs, HttpMid(c, hs), NEW r \in HttpIds, r <= c.parsed,
           NoNews(c), r # c.closeCb, Unheard(hs[r])
    PROVE  LET gs == At(hs, r, HeardOf(hs[r]))
           IN  HttpMid(c, gs) /\ (FollowedOn(c, hs) => FollowedOn(c, gs))
<1> DEFINE g == HeardOf(hs[r])
           gs == At(hs, r, g)
<1>0. /\ HttpBase(c, hs) /\ ConnTypes(c) /\ HandlerTypes(hs) /\ Before(c, hs) /\ Stage(c, hs)
      /\ hs[r] \in HandlerType /\ hs[r].phase # "none"
  <2>1. HttpBase(c, hs) /\ ConnTypes(c) /\ HandlerTypes(hs) /\ Before(c, hs) /\ Stage(c, hs)
    BY DEF HttpMid, HttpBase
  <2>2. hs[r] \in HandlerType /\ hs[r].phase # "none"
    BY <2>1 DEF HandlerTypes, Unheard
  <2> QED
    BY <2>1, <2>2
<1>1. IsHeard(g, hs[r])
  BY <1>0, HeardType DEF Unheard
<1> HIDE DEF g
<1>2. HandlerTypes(gs) /\ gs[r] = g /\ \A k \in HttpIds : k # r => gs[k] = hs[k]
  BY <1>0, <1>1, AtIs DEF IsHeard
<1> HIDE DEF gs
<1>3. \A k \in HttpIds :
         /\ gs[k].finished = hs[k].finished /\ gs[k].wrote = hs[k].wrote
         /\ gs[k].headersWritten = hs[k].headersWritten /\ gs[k].framing = hs[k].framing
         /\ gs[k].ended = hs[k].ended
  BY <1>1, <1>2 DEF IsHeard
<1>4. /\ c.parsed # 0 => c.parsed \in HttpIds
      /\ c.request # 0 => c.request \in HttpIds
      /\ c.closeCb # 0 => c.closeCb \in HttpIds
  <2>1. \A k \in 1 .. c.parsed : k \in HttpIds
    BY <1>0, IdsKnown DEF HttpWorld
  <2>2. /\ c.parsed # 0 => c.parsed \in 1 .. c.parsed
        /\ c.request # 0 => c.request \in 1 .. c.parsed
        /\ c.closeCb # 0 => c.closeCb \in 1 .. c.parsed
    BY <1>0 DEF ConnTypes
  <2> QED
    BY <2>1, <2>2
<1>5. Before(c, gs)
  <2>1. \A k \in HttpIds : k > c.parsed => k # r
    BY <1>0 DEF ConnTypes, HttpIds
  <2> QED
    BY <1>0, <1>2, <1>3, <2>1 DEF Before, Framed
<1>6. ClosedNews(c, gs)
  BY <1>0, <1>2, <1>4 DEF HttpBase, ClosedNews, NoNews
<1>7. LeftToWrite(c, gs)
  BY <1>0, <1>3, <1>4 DEF HttpBase, LeftToWrite
<1>8. Ordered(c, gs)
  <2> DEFINE s == SentOf(c)
  <2>1. s \in Seq(Chunk)
    BY <1>0, SentTypes
  <2>2. InOrder(s, hs) /\ LastSent(c, s, hs)
    BY <1>0 DEF HttpBase, Ordered
  <2> HIDE DEF s
  <2>3. InOrder(s, gs)
    <3>1. SUFFICES ASSUME NEW i \in 2 .. Len(s) PROVE Next2(s[i - 1], s[i], gs)
      BY DEF InOrder
    <3>2. s[i - 1] \in Chunk /\ Next2(s[i - 1], s[i], hs)
      BY <2>1, <2>2 DEF InOrder
    <3> DEFINE a == s[i - 1]
               b == s[i]
    <3> HIDE DEF a, b
    <3>3. a.id \in HttpIds /\ Next2(a, b, hs)
      BY <3>2 DEF a, b, Chunk
    <3>4. Next2(a, b, gs)
      BY <1>3, <3>3 DEF Next2
    <3> QED
      BY <3>4 DEF a, b
  <2>4. s # <<>> => s[Len(s)].id \in HttpIds
    BY <2>1, LastIsChunk
  <2>5. LastSent(c, s, gs)
    BY <1>3, <1>4, <2>2, <2>4 DEF LastSent
  <2> QED
    BY <2>3, <2>5 DEF Ordered, s
<1>9. Stage(c, gs)
  <2>1. SameEnd(gs[r], hs[r])
    BY <1>0, <1>1, <1>2 DEF SameEnd, IsHeard
  <2> QED
    BY <1>0, <1>2, <1>4, <2>1, StageChanged
<1>10. FollowedOn(c, hs) => FollowedOn(c, gs)
  BY <1>3, <1>4 DEF FollowedOn
<1> QED
  BY <1>0, <1>2, <1>5, <1>6, <1>7, <1>8, <1>9, <1>10 DEF HttpMid, HttpBase, g, gs

LEMMA OnCloseKeeps == HttpInv /\ Http!OnClose => HttpInv'
<1> SUFFICES ASSUME HttpInv, Http!OnClose PROVE HttpInv'
  OBVIOUS
<1> DEFINE r == Head(conn.queue).id
           c == [conn EXCEPT !.queue = Tail(@)]
           gs == At(handler, r, HeardOf(handler[r]))
<1>0. /\ turn = 0 /\ conn.queue # <<>> /\ Head(conn.queue).kind = "closed"
      /\ HttpWorld /\ HttpMid(conn, handler) /\ HttpBase(conn, handler) /\ ConnTypes(conn)
      /\ HandlerTypes(handler) /\ conn.within = "none" /\ FollowedOn(conn, handler)
      /\ conn' = Http!MaybeRunClose(c) /\ UNCHANGED <<turn, requests, client>>
      /\ TurnRight /\ GoesOn(handler)
  BY AtRest DEF Http!OnClose, Http!Taken, Http!Rest, HttpInv
<1>1. handler' = gs
  BY DEF Http!OnClose, At, HeardOf
<1>2. r \in 1 .. conn.parsed /\ r # conn.closeCb /\ Unheard(handler[r])
  <2>1. 1 \in DOMAIN conn.queue /\ Head(conn.queue) = conn.queue[1]
    BY <1>0 DEF ConnTypes
  <2> QED
    BY <1>0, <2>1 DEF HttpBase, ClosedNews
<1> HIDE DEF r
<1>3. /\ HttpMid(c, handler) /\ TakenFrom(c, conn) /\ NoNews(c)
      /\ WrittenQueued(conn) => WrittenQueued(c)
  BY <1>0, RestStands, RestKeeps DEF Reads
<1> HIDE DEF c
<1>4. /\ c.parsed = conn.parsed /\ c.closeCb = conn.closeCb /\ c.within = "none"
      /\ c.writeCallback = conn.writeCallback /\ FollowedOn(c, handler)
  BY <1>0, <1>3 DEF TakenFrom, SameRead, SameRequest, FollowedOn, Http!Writing, SameWrite
<1>5. r \in HttpIds /\ r <= c.parsed
  <2>1. r \in HttpIds
    BY <1>0, <1>2, IdsKnown DEF HttpWorld
  <2> QED
    BY <1>0, <1>2, <1>4, <2>1 DEF ConnTypes
<1>6. HttpMid(c, gs) /\ FollowedOn(c, gs)
  BY <1>0, <1>2, <1>3, <1>4, <1>5, HeardKeeps
<1>7. IsHeard(HeardOf(handler[r]), handler[r])
  <2>1. handler[r] \in HandlerType
    BY <1>0, <1>5 DEF HandlerTypes
  <2> QED
    BY <1>2, <2>1, HeardType DEF Unheard
<1>8. gs[r] = HeardOf(handler[r]) /\ \A k \in HttpIds : k # r => gs[k] = handler[k]
  BY <1>0, <1>5, <1>7, AtIs DEF IsHeard
<1> HIDE DEF gs
<1>9. HttpBase(c, gs) /\ Stage(c, gs) /\ c.queue \in Seq(HttpEvent)
  BY <1>6 DEF HttpMid, HttpBase, ConnTypes
<1>10. /\ HttpBase(conn', gs) /\ StandsAs(conn', c) /\ conn'.open = c.open
       /\ (c.open \/ c.closeCb = 0 => conn' = c)
  BY <1>0, <1>9, RunCloseKeeps
<1>11. HttpMid(conn', handler') /\ Followed(conn', handler')
  BY <1>1, <1>6, <1>9, <1>10, StageKept DEF HttpMid, StandsAs, FollowedOn, Followed
<1>12. GoesOn(handler)'
  BY <1>0, <1>1, <1>7, <1>8 DEF GoesOn, IsHeard, HttpIds
<1>13. TurnRight'
  <2>1. conn'.within = "none" /\ conn'.writeCallback = conn.writeCallback
    BY <1>4, <1>10 DEF StandsAs, StandsNear
  <2>2. ASSUME conn.writeCallback # 0 PROVE handler'[conn.writeCallback].phase # "none"
    <3>1. conn.writeCallback \in HttpIds
      <4>1. conn.writeCallback \in 1 .. conn.parsed
        BY <1>0, <2>2 DEF ConnTypes
      <4> QED
        BY <1>0, <4>1, IdsKnown DEF HttpWorld
    <3> QED
      BY <1>0, <1>1, <1>7, <1>8, <2>2, <3>1 DEF TurnRight, IsHeard
  <2> QED
    BY <1>0, <2>1, <2>2 DEF TurnRight
<1> QED
  BY <1>0, <1>11, <1>12, <1>13, HttpNext

-----------------------------------------------------------------------------
(* A new request.                                                          *)

\* The next request is known, and no handler of its own yet.
Arrived(c, hs, r) ==
    /\ HttpBase(c, hs) /\ r \in HttpIds /\ c.parsed = r /\ c.request \in {0, r}
    /\ c.closeCb = 0 /\ ~c.requestFinished /\ c.within = "none" /\ NoNews(c)
    /\ hs[r] = Http!NoHandler
\* Nothing was sent for it.
NotAnswered(c, r) == SentOf(c) # <<>> => SentOf(c)[Len(SentOf(c))].id # r

LEMMA ParsedKeeps ==
    ASSUME HttpWorld, NEW c, NEW hs, HttpBase(c, hs), c.request = 0, c.closeCb = 0,
           ~c.requestFinished, c.within = "none", NoNews(c), c.parsed < c.got,
           c.parsed # 0 => hs[c.parsed].finished
    PROVE  LET r == c.parsed + 1
               d == [c EXCEPT !.parsed = r]
           IN  /\ Arrived(d, hs, r) /\ NotAnswered(d, r)
               /\ d.request = 0 /\ d.writeCallback = c.writeCallback
               /\ d.reading = c.reading /\ d.queue = c.queue /\ ~Http!Writing(d)
               /\ d.open = c.open
<1> DEFINE r == c.parsed + 1
           d == [c EXCEPT !.parsed = r]
<1>0. /\ ConnTypes(c) /\ ConnRecord(c) /\ HandlerTypes(hs) /\ Before(c, hs)
      /\ c.parsed \in Nat /\ c.got \in Nat /\ c.got <= Len(requests) /\ Len(requests) \in Nat
      /\ Len(requests) <= MaxRequests /\ MaxRequests \in Nat
  BY SizesAssumption DEF HttpBase, ConnTypes, HttpWorld
<1>1. ConnRecord(d) /\ d.parsed = r
  BY <1>0 DEF ConnRecord, ConnFields
<1>2. /\ d.open = c.open /\ d.closeCb = c.closeCb /\ d.queue = c.queue
      /\ d.got = c.got /\ d.gotOwed = c.gotOwed /\ d.reading = c.reading
      /\ SameWrite(d, c) /\ SameRequest(d, c)
  BY <1>0 DEF ConnRecord, ConnFields, SameWrite, SameRequest
<1> HIDE DEF d
<1>3. r \in HttpIds /\ r \in Nat /\ r # 0 /\ r <= c.got /\ r > c.parsed
  BY <1>0 DEF HttpIds
<1>4. ConnTypes(d)
  <2>1. c.writeCallback \in 0 .. r
    BY <1>0, <1>3 DEF ConnTypes
  <2> QED
    BY <1>0, <1>1, <1>2, <1>3, <2>1 DEF ConnTypes, SameWrite, SameRequest
<1>5. hs[r] = Http!NoHandler
  BY <1>0, <1>3 DEF Before
<1>6. Before(d, hs)
  <2>1. \A k \in HttpIds : k < r => k < c.parsed \/ k = c.parsed
    BY <1>0 DEF HttpIds
  <2>2. \A k \in HttpIds : k > r => k > c.parsed
    BY <1>0 DEF HttpIds
  <2>3. \A k \in HttpIds : k <= r => k <= c.parsed \/ k = r
    BY <1>0 DEF HttpIds
  <2>4. Framed(hs[r], r)
    BY <1>5 DEF Framed, Http!NoHandler, Http!NewHandler
  <2>5. \A k \in HttpIds : k = c.parsed => c.parsed # 0
    BY DEF HttpIds
  <2> QED
    BY <1>0, <1>1, <2>1, <2>2, <2>3, <2>4, <2>5 DEF Before
<1>7. ClosedNews(d, hs)
  BY <1>2 DEF NoNews, ClosedNews
<1>8. LeftToWrite(d, hs) /\ ~Http!Writing(d)
  BY <1>2 DEF HttpBase, LeftToWrite, Http!Writing, SameWrite, SameRequest
<1>9. Ordered(d, hs) /\ NotAnswered(d, r)
  <2> DEFINE s == SentOf(c)
  <2>1. InOrder(s, hs) /\ LastSent(c, s, hs) /\ s \in Seq(Chunk)
    BY <1>0, SentTypes DEF HttpBase, Ordered
  <2>2. SentOf(d) = s
    BY <1>2 DEF SentOf, SameWrite
  <2> HIDE DEF s
  <2>3. s # <<>> => s[Len(s)].id \in Nat /\ s[Len(s)].id <= c.parsed
    BY <2>1, LastIsChunk DEF LastSent, HttpIds
  <2>4. s # <<>> => s[Len(s)].id <= r /\ s[Len(s)].id # r
    BY <1>0, <2>3
  <2>5. LastSent(d, s, hs)
    BY <1>1, <1>2, <2>1, <2>4 DEF LastSent, SameRequest
  <2> QED
    BY <2>1, <2>2, <2>4, <2>5 DEF Ordered, NotAnswered
<1>10. HttpBase(d, hs)
  BY <1>0, <1>4, <1>6, <1>7, <1>8, <1>9 DEF HttpBase
<1>11. Arrived(d, hs, r)
  BY <1>1, <1>2, <1>3, <1>5, <1>9, <1>10 DEF Arrived, NoNews, SameRequest
<1> QED
  BY <1>2, <1>8, <1>9, <1>11 DEF d, SameRequest

LEMMA RequestKnown ==
    ASSUME NEW c, NEW hs, NEW r, Arrived(c, hs, r)
    PROVE  LET d == [c EXCEPT !.request = r]
           IN  /\ Arrived(d, hs, r) /\ d.request = r /\ d.writeCallback = c.writeCallback
               /\ d.reading = c.reading /\ d.queue = c.queue /\ d.open = c.open
               /\ SentOf(d) = SentOf(c)
<1> DEFINE d == [c EXCEPT !.request = r]
<1>0. /\ ConnTypes(c) /\ ConnRecord(c) /\ HttpBase(c, hs) /\ Before(c, hs) /\ HandlerTypes(hs)
      /\ r \in HttpIds /\ c.parsed = r /\ r # 0 /\ c.closeCb = 0 /\ c.request \in {0, r}
  BY DEF Arrived, HttpBase, ConnTypes, HttpIds
<1>1. ConnRecord(d) /\ d.request = r
  BY <1>0 DEF ConnRecord, ConnFields
<1>2. /\ d.open = c.open /\ d.closeCb = c.closeCb /\ d.queue = c.queue
      /\ SameRead(d, c) /\ SameWrite(d, c)
      /\ d.requestFinished = c.requestFinished /\ d.within = c.within
      /\ d.writeCallback = c.writeCallback
  BY <1>0 DEF ConnRecord, ConnFields, SameRead, SameWrite
<1> HIDE DEF d
<1>3. ConnTypes(d)
  BY <1>0, <1>1, <1>2 DEF ConnTypes, SameRead, SameWrite
<1>4. Before(d, hs) /\ ClosedNews(d, hs)
  BY <1>0, <1>2 DEF HttpBase, Before, ClosedNews, SameRead
<1>5. ~hs[r].headersWritten /\ hs[r].wrote = 0
  BY DEF Arrived, Http!NoHandler, Http!NewHandler
<1>6. LeftToWrite(d, hs)
  BY <1>0, <1>1, <1>2, <1>5 DEF HttpBase, LeftToWrite, Http!Writing, SameWrite
<1>7. Ordered(d, hs)
  <2> DEFINE s == SentOf(c)
  <2>1. InOrder(s, hs) /\ LastSent(c, s, hs) /\ s \in Seq(Chunk)
    BY <1>0, SentTypes DEF HttpBase, Ordered
  <2>2. SentOf(d) = s
    BY <1>2 DEF SentOf, SameWrite
  <2> HIDE DEF s
  <2>3. s # <<>> => s[Len(s)].id # 0
    BY <2>1, LastIsChunk DEF HttpIds
  <2>4. LastSent(d, s, hs)
    BY <1>0, <1>1, <1>2, <1>5, <2>1, <2>3 DEF LastSent, SameRead
  <2> QED
    BY <2>1, <2>2, <2>4 DEF Ordered
<1>8. SentOf(d) = SentOf(c)
  BY <1>2 DEF SentOf, SameWrite
<1>9. HttpBase(d, hs)
  BY <1>0, <1>3, <1>4, <1>6, <1>7 DEF HttpBase
<1> QED
  BY <1>0, <1>1, <1>2, <1>8, <1>9 DEF Arrived, NoNews, SameRead, d

IsNew(g) ==
    /\ g \in HandlerType /\ g.phase = "execute" /\ ~g.headersWritten /\ ~g.finished /\ ~g.ended
    /\ g.closedSeen = 0 /\ g.wrote = 0
LEMMA NewType ==
    ASSUME NEW auto \in BOOLEAN
    PROVE  IsNew(Http!NewHandler(auto))
BY DEF IsNew, Http!NewHandler, HandlerType

BegunOf(c, r) == [c EXCEPT !.request = r, !.closeCb = r, !.within = "headers"]
\* The handler of the request is created, and will hear of the end.
LEMMA ArrivedBegins ==
    ASSUME HttpWorld, NEW c, NEW hs, NEW r, Arrived(c, hs, r), Quiet(c),
           NEW g, IsNew(g)
    PROVE  LET d == BegunOf(c, r)
               gs == At(hs, r, g)
           IN  /\ HttpMid(d, gs) /\ d.parsed = r /\ d.request = r
               /\ d.writeCallback = c.writeCallback
               /\ gs[r] = g /\ \A k \in HttpIds : k # r => gs[k] = hs[k]
<1> DEFINE b == [c EXCEPT !.request = r]
           d == [b EXCEPT !.closeCb = r, !.within = "headers"]
           gs == At(hs, r, g)
<1>0. d = BegunOf(c, r)
  BY DEF BegunOf
<1>1. /\ Arrived(b, hs, r) /\ b.request = r /\ b.writeCallback = c.writeCallback
      /\ b.reading = c.reading /\ b.queue = c.queue /\ b.open = c.open
  BY RequestKnown
<1> HIDE DEF b
<1>2. /\ ConnTypes(b) /\ ConnRecord(b) /\ HttpBase(b, hs) /\ HandlerTypes(hs)
      /\ r \in HttpIds /\ b.parsed = r /\ r # 0 /\ r \in 1 .. b.parsed /\ ~b.requestFinished
      /\ b.closeCb = 0
  BY <1>1 DEF Arrived, HttpBase, ConnTypes, HttpIds
<1>3. HandlerTypes(gs) /\ gs[r] = g /\ \A k \in HttpIds : k # r => gs[k] = hs[k]
  <2>1. HandlerTypes(hs) /\ r \in HttpIds /\ g \in HandlerType
    BY <1>2 DEF IsNew
  <2> QED
    BY ONLY <2>1, AtIs
<1> HIDE DEF gs
<1>4. hs[r].phase = "none" /\ ~hs[r].finished /\ hs[r].wrote = 0
  BY <1>1 DEF Arrived, Http!NoHandler, Http!NewHandler
<1>5. Changes(gs, hs, r)
  BY <1>3, <1>4 DEF Changes, IsNew, Framed, Unheard
<1>6. HttpBase(b, gs)
  <2>1. r < b.parsed => gs[r].finished
    BY <1>2 DEF HttpIds
  <2>2. gs[r].wrote = hs[r].wrote /\ ~gs[r].headersWritten
    BY <1>3, <1>4 DEF IsNew
  <2> QED
    BY <1>2, <1>5, <2>1, <2>2, HandlerKeeps DEF HttpWorld
<1>7. ConnRecord(d) /\ d.closeCb = r /\ d.within = "headers"
  BY <1>2 DEF ConnRecord, ConnFields
<1>8. /\ d.open = b.open /\ d.queue = b.queue
      /\ SameRead(d, b) /\ SameWrite(d, b) /\ d.request = b.request
      /\ d.requestFinished = b.requestFinished /\ d.writeCallback = b.writeCallback
  BY <1>2 DEF ConnRecord, ConnFields, SameRead, SameWrite
<1> HIDE DEF d
<1>9. ConnTypes(d)
  BY <1>1, <1>2, <1>7, <1>8 DEF ConnTypes, SameRead, SameWrite
<1>10. Before(d, gs) /\ LeftToWrite(d, gs) /\ Ordered(d, gs)
  BY <1>6, <1>8 DEF HttpBase, Before, LeftToWrite, Http!Writing, Ordered, SentOf, LastSent,
     SameRead, SameWrite
<1>11. ClosedNews(d, gs)
  <2>1. NoNews(d)
    BY <1>1, <1>8 DEF Arrived, NoNews
  <2>2. Unheard(gs[r])
    BY <1>3 DEF IsNew, Unheard
  <2> QED
    BY <1>7, <2>1, <2>2 DEF ClosedNews, NoNews
<1>12. InHandler(d, gs)
  <2>1. Quiet(d)
    BY <1>1, <1>8 DEF Quiet, NoReadQueued, SameRead
  <2>2. gs[r].ended = d.requestFinished /\ gs[r].finished = d.requestFinished
    BY <1>2, <1>3, <1>8, <1>9 DEF IsNew, HandlerType, ConnTypes
  <2>3. gs[r].phase # "none"
    BY <1>3 DEF IsNew
  <2> QED
    BY <1>1, <1>2, <1>8, <2>1, <2>2, <2>3 DEF InHandler, SameRead
<1>13. HttpMid(d, gs)
  BY <1>3, <1>9, <1>10, <1>11, <1>12 DEF HttpMid, HttpBase, Stage
<1>14. d.parsed = r /\ d.request = r /\ d.writeCallback = c.writeCallback
  BY <1>1, <1>2, <1>8 DEF SameRead
<1> QED
  BY <1>0, <1>3, <1>13, <1>14 DEF gs

LEMMA DispatchKeeps ==
    ASSUME HttpInv, turn = 0, NEW c, NEW r, Arrived(c, handler, r), Quiet(c),
           c.writeCallback = conn.writeCallback, Http!Dispatch(c, r)
    PROVE  HttpInv'
<1>0. /\ HttpWorld /\ TurnRight /\ GoesOn(handler) /\ UNCHANGED <<requests, client>>
      /\ ConnTypes(conn) /\ turn' = r
  BY DEF HttpInv, Http!Dispatch, HttpMid, HttpBase
<1>1. PICK auto \in BOOLEAN : handler' = [handler EXCEPT ![r] = Http!NewHandler(auto)]
  BY DEF Http!Dispatch
<1> DEFINE g == Http!NewHandler(auto)
           d == BegunOf(c, r)
           gs == At(handler, r, g)
<1>2. conn' = d /\ handler' = gs
  BY <1>1 DEF Http!Dispatch, At, BegunOf
<1>3. IsNew(g)
  BY NewType
<1> HIDE DEF g
<1>4. /\ HttpMid(d, gs) /\ d.parsed = r /\ d.request = r
      /\ d.writeCallback = c.writeCallback
      /\ gs[r] = g /\ \A k \in HttpIds : k # r => gs[k] = handler[k]
  BY <1>0, <1>3, ArrivedBegins
<1> HIDE DEF d, gs
<1>5. handler[r].phase = "none" /\ r \in HttpIds /\ r \in 1 .. r
  BY DEF Arrived, Http!NoHandler, Http!NewHandler, HttpIds
<1>6. HttpMid(conn', handler')
  BY <1>2, <1>4
<1>7. Followed(conn', handler')
  BY <1>2, <1>3, <1>4 DEF Followed, IsNew
<1>8. GoesOn(handler)'
  BY <1>0, <1>2, <1>3, <1>4 DEF GoesOn, IsNew, HttpIds
<1>9. TurnRight'
  <2>1. turn' # 0 /\ turn' \in 1 .. conn'.parsed /\ handler'[turn'].phase # "none"
    BY <1>0, <1>2, <1>3, <1>4, <1>5 DEF IsNew, HttpIds
  <2>2. ASSUME conn'.writeCallback # 0 PROVE handler'[conn'.writeCallback].phase # "none"
    <3>1. conn'.writeCallback = conn.writeCallback
      BY <1>2, <1>4
    <3>2. conn.writeCallback \in HttpIds
      <4>1. conn.writeCallback \in 1 .. conn.parsed
        BY <1>0, <2>2, <3>1 DEF ConnTypes
      <4> QED
        BY <1>0, <4>1, IdsKnown DEF HttpWorld
    <3>3. handler[conn.writeCallback].phase # "none"
      BY <1>0, <2>2, <3>1 DEF TurnRight
    <3> QED
      BY <1>2, <1>4, <1>5, <3>1, <3>2, <3>3
  <2> QED
    BY <2>1, <2>2 DEF TurnRight
<1> QED
  BY <1>0, <1>6, <1>7, <1>8, <1>9, HttpNext

\* With the head of a request in the queue the connection is between two requests, with
\* its body in it, in the body.
LEMMA ReadTaken ==
    ASSUME NEW c, NEW hs, HttpMid(c, hs), c.queue # <<>>, Head(c.queue).kind \in Reads
    PROVE  \/ /\ Head(c.queue).kind = "headers" /\ BetweenRequests(c, hs)
              /\ c.reading = "none" /\ c.closeCb = 0
           \/ Head(c.queue).kind = "body" /\ InBody(c, hs)
<1>1. ConnTypes(c) /\ Stage(c, hs)
  BY DEF HttpMid, HttpBase
<1>2. 1 \in DOMAIN c.queue /\ Head(c.queue) = c.queue[1]
  BY <1>1 DEF ConnTypes
<1>3. ~NoReadQueued(c)
  BY <1>2 DEF NoReadQueued
<1>4. \A what \in Reads : Reading(c, what) => Head(c.queue).kind = what /\ c.reading = "none"
  BY <1>2, <1>3 DEF Reading
<1>5. CASE BetweenRequests(c, hs)
  BY <1>1, <1>4, <1>5 DEF BetweenRequests, Reads, ConnTypes
<1>6. CASE InBody(c, hs)
  BY <1>4, <1>6 DEF InBody, Reads
<1> QED
  BY <1>1, <1>3, <1>5, <1>6 DEF Stage, InHandler, AtEnd, Quiet

LEMMA OnRequestBodyKeeps == HttpInv /\ Http!OnRequestBody => HttpInv'
<1> SUFFICES ASSUME HttpInv, Http!OnRequestBody PROVE HttpInv'
  OBVIOUS
<1> DEFINE r == conn.parsed
           c == [conn EXCEPT !.queue = Tail(@)]
<1>0. /\ turn = 0 /\ conn.queue # <<>> /\ Head(conn.queue).kind = "body"
      /\ HttpWorld /\ HttpMid(conn, handler) /\ HttpBase(conn, handler) /\ ConnTypes(conn)
      /\ conn.within = "none" /\ Http!Dispatch(c, r)
  BY AtRest DEF Http!OnRequestBody, Http!Taken, Http!Rest
<1>1. InBody(conn, handler)
  BY <1>0, ReadTaken DEF Reads
<1>2. HttpBase(c, handler) /\ TakenFrom(c, conn) /\ NoNews(c) /\ Quiet(c)
  BY <1>0, <1>1, RestKeeps DEF InBody, Reads
<1> HIDE DEF c
<1>3. Arrived(c, handler, r)
  <2>1. r \in 1 .. conn.parsed
    BY <1>0, <1>1 DEF InBody, ConnTypes
  <2>2. r \in HttpIds
    BY <1>0, <2>1, IdsKnown DEF HttpWorld
  <2> QED
    BY <1>0, <1>1, <1>2, <2>2 DEF Arrived, InBody, TakenFrom, SameRead, SameRequest
<1>4. c.writeCallback = conn.writeCallback
  BY <1>2 DEF TakenFrom, SameRequest
<1> HIDE DEF r
<1> QED
  BY <1>0, <1>2, <1>3, <1>4, DispatchKeeps

\* The body is read: it is asked for, or the stream is closed.
LEMMA ReadBodyKeeps ==
    ASSUME HttpWorld, NEW c, NEW hs, NEW r, Arrived(c, hs, r), c.request = r, Quiet(c),
           NotAnswered(c, r), NEW taken \in Http!Outcomes
    PROVE  LET y == Http!ReadBody(c, r, taken)
           IN  /\ HttpMid(y.c, hs) /\ (~y.ok => ~y.c.open) /\ y.c.within = "none"
               /\ y.c.request = r /\ y.c.writeCallback = c.writeCallback
<1> DEFINE y == Http!ReadBody(c, r, taken)
           what == "body"
           no == FALSE
           x == [id |-> r, part |-> 0]
           b == IF requests[r].expect THEN Http!StreamWrite(c, x, no, taken) ELSE c
           z == Http!Call(b)
           t == TRUE
<1>0. /\ HttpBase(c, hs) /\ requests \in Seq(Kinds) /\ Len(requests) <= MaxRequests
      /\ client.owed \in BOOLEAN /\ ConnTypes(c) /\ HandlerTypes(hs) /\ Before(c, hs)
      /\ r \in HttpIds /\ c.parsed = r /\ r # 0 /\ r \in 1 .. c.parsed /\ ~c.requestFinished
      /\ c.closeCb = 0 /\ hs[r] = Http!NoHandler /\ NoReadQueued(c) /\ c.within = "none"
  BY DEF HttpWorld, Arrived, HttpBase, ConnTypes, HttpIds, Quiet
<1>1. y = IF requests[r].expect /\ ~c.open THEN Http!Raise(Http!Call(c))
          ELSE Http!StartRead(z, what)
  BY DEF Http!ReadBody
<1>2. z = [c |-> b, h |-> Http!NoHandler, ok |-> t] /\ t \in BOOLEAN /\ t
  BY DEF Http!Call
<1>3. what \in Reads /\ what = "body" /\ no \in BOOLEAN /\ ~no
  BY DEF Reads
<1> HIDE DEF z, t, what, no, x, y
<1>4. CASE requests[r].expect /\ ~c.open
  <2>1. y.c = c /\ ~y.ok
    BY <1>1, <1>4 DEF Http!Raise, Http!Call
  <2>2. AtEnd(c, hs)
    BY <1>0, <1>4 DEF AtEnd
  <2> QED
    BY <1>0, <2>1, <2>2, <1>4 DEF HttpMid, Stage, y
<1>5. CASE ~(requests[r].expect /\ ~c.open)
  <2>1. HttpBase(b, hs) /\ StandsAs(b, c)
    <3>1. CASE ~requests[r].expect
      <4>1. b = c
        BY <3>1
      <4> HIDE DEF b
      <4> QED
        BY <1>0, <4>1 DEF StandsAs, StandsNear, SameRead, QueueGrows
    <3>2. CASE requests[r].expect
      <4>1. b = Http!StreamWrite(c, x, no, taken) /\ c.open
        BY <1>5, <3>2
      <4> HIDE DEF b
      <4>2. /\ ~hs[r].finished /\ hs[r].wrote = 0 /\ ~hs[r].headersWritten
            /\ 0 \in Nat
        BY <1>0 DEF Http!NoHandler, Http!NewHandler
      <4>3. Changes(hs, hs, r)
        BY <1>0 DEF Changes, Before
      <4>4. SentOf(c) # <<>> => SentOf(c)[Len(SentOf(c))].id # r
        BY DEF NotAnswered
      <4>5. /\ HttpBase(Http!StreamWrite(c, [id |-> r, part |-> 0], no, taken), hs)
            /\ StandsAs(Http!StreamWrite(c, [id |-> r, part |-> 0], no, taken), c)
        BY <1>0, <1>3, <4>1, <4>2, <4>3, <4>4, WriteKeeps
      <4> QED
        BY <4>1, <4>5 DEF x
    <3> QED
      BY <3>1, <3>2
  <2> HIDE DEF b
  <2>2. NoReadQueued(b)
    <3>1. b.reading = c.reading /\ QueueGrows(b, c) /\ c.queue \in Seq(HttpEvent)
      BY <1>0, <2>1 DEF StandsAs, StandsNear, SameRead, ConnTypes
    <3>2. CASE b.queue = c.queue
      BY <1>0, <3>2 DEF NoReadQueued
    <3>3. CASE \E e \in HttpEvent : e.kind \notin Reads /\ b.queue = Append(c.queue, e)
      BY <1>0, <3>1, <3>3, NoReadMore
    <3> QED
      BY <3>1, <3>2, <3>3 DEF QueueGrows
  <2>3. /\ y.ok \in BOOLEAN /\ HttpBase(y.c, hs) /\ ReadOnly(y.c, b)
        /\ \/ y.ok = t /\ Reading(y.c, what)
           \/ ~y.ok /\ ~y.c.open /\ NoReadQueued(y.c)
    <3> DEFINE u == Http!StartRead(z, what)
    <3>1. y = u
      BY <1>1, <1>5
    <3>2. /\ requests \in Seq(Kinds) /\ client.owed \in BOOLEAN /\ t \in BOOLEAN
          /\ z = [c |-> b, h |-> Http!NoHandler, ok |-> t] /\ HttpBase(b, hs)
          /\ NoReadQueued(b) /\ what \in Reads
      BY <1>0, <1>2, <1>3, <2>1, <2>2
    <3>3. /\ u.ok \in BOOLEAN /\ HttpBase(u.c, hs) /\ ReadOnly(u.c, b)
          /\ \/ u.ok = t /\ Reading(u.c, what)
             \/ ~u.ok /\ ~u.c.open /\ NoReadQueued(u.c)
      BY ONLY <3>2, StartReadKeeps
    <3> QED
      BY <3>1, <3>3
  <2>4. /\ y.c.parsed = r /\ y.c.request = r /\ ~y.c.requestFinished /\ y.c.closeCb = 0
        /\ y.c.within = "none" /\ y.c.writeCallback = c.writeCallback
    <3>1. /\ b.parsed = r /\ b.request = r /\ b.requestFinished = c.requestFinished
          /\ b.closeCb = 0 /\ b.within = "none" /\ b.writeCallback = c.writeCallback
      BY <1>0, <2>1 DEF StandsAs, StandsNear, SameRead
    <3> QED
      BY <1>0, <2>3, <3>1 DEF ReadOnly, SameRequest
  <2>5. InBody(y.c, hs) \/ AtEnd(y.c, hs)
    BY <1>0, <1>3, <2>3, <2>4 DEF InBody, AtEnd
  <2>6. ~y.ok => ~y.c.open
    BY <1>2, <2>3
  <2> QED
    BY <2>3, <2>4, <2>5, <2>6 DEF HttpMid, Stage, y
<1> QED
  BY <1>4, <1>5

\* A request that is refused closes the stream.
LEMMA RefusedKeeps ==
    ASSUME HttpWorld, NEW c, NEW hs, NEW r, Arrived(c, hs, r), Quiet(c), ~Http!Writing(c)
    PROVE  LET d == Http!CloseStream(c)
           IN  /\ HttpMid(d, hs) /\ ~d.open /\ d.within = "none"
               /\ d.writeCallback = c.writeCallback
<1> DEFINE d == Http!CloseStream(c)
<1>0. /\ HttpBase(c, hs) /\ c.closeCb = 0 /\ ~c.requestFinished /\ c.within = "none"
      /\ c.parsed = r /\ hs[r] = Http!NoHandler /\ NoReadQueued(c) /\ c.queue \in Seq(HttpEvent)
  BY DEF Arrived, HttpBase, ConnTypes, Quiet
<1>1. HttpBase(d, hs) /\ StandsAs(d, c) /\ ~d.open
  BY <1>0, CloseKeeps
<1> HIDE DEF d
<1>2. NoReadQueued(d)
  <2>1. d.reading = c.reading /\ QueueGrows(d, c)
    BY <1>1 DEF StandsAs, StandsNear, SameRead
  <2>2. CASE d.queue = c.queue
    BY <1>0, <2>2 DEF NoReadQueued
  <2>3. CASE \E e \in HttpEvent : e.kind \notin Reads /\ d.queue = Append(c.queue, e)
    BY <1>0, <2>1, <2>3, NoReadMore
  <2> QED
    BY <2>1, <2>2, <2>3 DEF QueueGrows
<1>3. /\ d.closeCb = 0 /\ ~d.requestFinished /\ d.within = "none" /\ d.parsed = r
      /\ d.writeCallback = c.writeCallback
  BY <1>0, <1>1 DEF StandsAs, StandsNear, SameRead
<1>4. AtEnd(d, hs)
  BY <1>0, <1>1, <1>2, <1>3 DEF AtEnd
<1> QED
  BY <1>1, <1>3, <1>4 DEF HttpMid, Stage, d

HeadRead(c, r) == [c EXCEPT !.parsed = r]
Served(c, r) == [c EXCEPT !.request = r]
LEMMA OnHeadersKeeps == HttpInv /\ Http!OnHeaders => HttpInv'
<1> SUFFICES ASSUME HttpInv, Http!OnHeaders PROVE HttpInv'
  OBVIOUS
<1> DEFINE r == conn.parsed + 1
           b == [conn EXCEPT !.queue = Tail(@)]
           c == HeadRead(b, r)
           d == Served(c, r)
<1>0. /\ turn = 0 /\ conn.queue # <<>> /\ Head(conn.queue).kind = "headers"
      /\ HttpWorld /\ HttpMid(conn, handler) /\ HttpBase(conn, handler) /\ ConnTypes(conn)
      /\ conn.within = "none"
  BY AtRest DEF Http!OnHeaders, Http!Taken
<1>1. \/ Http!Ends(Http!Call(Http!CloseStream(c)))
      \/ \E taken \in Http!Outcomes : Http!Ends(Http!ReadBody(d, r, taken))
      \/ Http!Dispatch(c, r)
  BY DEF Http!OnHeaders, Http!Rest, HeadRead, Served
<1>2. BetweenRequests(conn, handler) /\ conn.reading = "none" /\ conn.closeCb = 0
  BY <1>0, ReadTaken DEF Reads
<1>3. HttpBase(b, handler) /\ TakenFrom(b, conn) /\ NoNews(b) /\ Quiet(b)
  BY <1>0, <1>2, RestKeeps DEF BetweenRequests, Reads
<1> HIDE DEF b
<1>4. /\ b.request = 0 /\ b.closeCb = 0 /\ ~b.requestFinished /\ b.within = "none"
      /\ b.parsed < b.got /\ (b.parsed # 0 => handler[b.parsed].finished)
      /\ b.parsed = conn.parsed /\ b.writeCallback = conn.writeCallback
  BY <1>0, <1>2, <1>3 DEF BetweenRequests, TakenFrom, SameRead, SameRequest
<1>5. /\ Arrived(c, handler, r) /\ NotAnswered(c, r) /\ c.request = 0
      /\ c.writeCallback = b.writeCallback /\ c.reading = b.reading /\ c.queue = b.queue
      /\ ~Http!Writing(c) /\ c.open = b.open
  BY <1>0, <1>3, <1>4, ParsedKeeps DEF HeadRead
<1> HIDE DEF r, c
<1>6. Quiet(c)
  BY <1>3, <1>5 DEF Quiet, NoReadQueued
<1>7. CASE Http!Dispatch(c, r)
  BY <1>0, <1>4, <1>5, <1>6, <1>7, DispatchKeeps
<1>8. CASE Http!Ends(Http!Call(Http!CloseStream(c)))
  <2> DEFINE x == Http!Call(Http!CloseStream(c))
  <2>1. /\ HttpMid(Http!CloseStream(c), handler) /\ ~Http!CloseStream(c).open
        /\ Http!CloseStream(c).within = "none"
        /\ Http!CloseStream(c).writeCallback = c.writeCallback
    BY <1>0, <1>5, <1>6, RefusedKeeps
  <2>2. x.c = Http!CloseStream(c) /\ Http!Ends(x)
    BY <1>8 DEF Http!Call
  <2> HIDE DEF x
  <2>3. /\ HttpMid(x.c, handler) /\ ~x.c.open /\ x.c.within = "none"
        /\ x.c.writeCallback \in {0, conn.writeCallback}
    BY <1>4, <1>5, <2>1, <2>2
  <2> QED
    BY <1>0, <2>2, <2>3, CallbackEndsKeeps DEF FollowedOn
<1>9. ASSUME NEW taken \in Http!Outcomes, Http!Ends(Http!ReadBody(d, r, taken))
      PROVE  HttpInv'
  <2> DEFINE y == Http!ReadBody(d, r, taken)
  <2>1. /\ Arrived(d, handler, r) /\ d.request = r /\ d.writeCallback = c.writeCallback
        /\ d.reading = c.reading /\ d.queue = c.queue /\ d.open = c.open
        /\ SentOf(d) = SentOf(c)
    BY <1>5, RequestKnown DEF Served
  <2> HIDE DEF d
  <2>2. Quiet(d) /\ NotAnswered(d, r)
    BY <1>5, <1>6, <2>1 DEF Quiet, NoReadQueued, NotAnswered
  <2>3. /\ HttpMid(y.c, handler) /\ (~y.ok => ~y.c.open) /\ y.c.within = "none"
        /\ y.c.request = r /\ y.c.writeCallback = d.writeCallback
    <3>1. /\ HttpWorld /\ Arrived(d, handler, r) /\ d.request = r /\ Quiet(d)
          /\ NotAnswered(d, r) /\ taken \in Http!Outcomes
      BY <1>0, <1>9, <2>1, <2>2
    <3> QED
      BY ONLY <3>1, ReadBodyKeeps
  <2>4. Http!Ends(y)
    BY <1>9
  <2> HIDE DEF y
  <2>5. FollowedOn(y.c, handler)
    BY <1>5, <2>3 DEF FollowedOn, Arrived, Http!NoHandler, Http!NewHandler
  <2>6. y.c.writeCallback \in {0, conn.writeCallback}
    BY <1>4, <1>5, <2>1, <2>3
  <2> QED
    BY <1>0, <2>3, <2>4, <2>5, <2>6, CallbackEndsKeeps
<1> QED
  BY <1>1, <1>7, <1>8, <1>9

-----------------------------------------------------------------------------
(* Every step of the connection.                                           *)

LEMMA HttpBegins == Http!Init => HttpInv
<1> SUFFICES ASSUME Http!Init PROVE HttpInv
  OBVIOUS
<1>1. /\ conn = Http!NewConn /\ handler = [r \in HttpIds |-> Http!NoHandler]
      /\ turn = 0 /\ requests = <<>> /\ client = [owed |-> FALSE, gone |-> "no"]
      /\ MaxRequests \in Nat
  BY SizesAssumption DEF Http!Init, Http!Ids, HttpIds
<1>2. HttpWorld
  BY <1>1 DEF HttpWorld
<1>3. /\ ConnRecord(conn) /\ conn.open /\ conn.gotOwed \in BOOLEAN /\ ~conn.streamCb
      /\ ~conn.requestFinished /\ conn.reading = "headers" /\ conn.within = "none"
      /\ conn.got = 0 /\ conn.parsed = 0 /\ conn.request = 0 /\ conn.closeCb = 0
      /\ conn.writeCallback = 0 /\ conn.wbuf = <<>> /\ conn.wire = <<>> /\ conn.queue = <<>>
  BY <1>1 DEF Http!NewConn, ConnRecord, ConnFields
<1>4. HandlerTypes(handler)
  <2>1. Http!NoHandler \in HandlerType
    <3> DEFINE yes == TRUE
               g == Http!NewHandler(yes)
    <3>1. Http!NoHandler = [g EXCEPT !.phase = "none"] /\ yes \in BOOLEAN
      BY DEF Http!NoHandler
    <3> HIDE DEF yes
    <3>2. g \in HandlerType
      BY <3>1, NewType DEF IsNew
    <3> HIDE DEF g
    <3> QED
      BY <3>1, <3>2 DEF HandlerType
  <2> QED
    BY <1>1, <2>1 DEF HandlerTypes
<1>5. \A r \in HttpIds : handler[r] = Http!NoHandler
  BY <1>1
<1>6. ConnTypes(conn)
  <2>1. <<>> \in Seq(Chunk) /\ <<>> \in Seq(HttpEvent)
    OBVIOUS
  <2>2. Len(requests) = 0
    BY <1>1
  <2>3. conn.open \in BOOLEAN /\ conn.streamCb \in BOOLEAN /\ conn.requestFinished \in BOOLEAN
    BY <1>1 DEF Http!NewConn
  <2> QED
    BY <1>3, <2>1, <2>2, <2>3 DEF ConnTypes, Reads
<1>7. Before(conn, handler)
  BY <1>3, <1>5 DEF Before, HttpIds
<1>8. ClosedNews(conn, handler) /\ LeftToWrite(conn, handler) /\ conn.queue = <<>>
  BY <1>3 DEF ClosedNews, LeftToWrite, Http!Writing
<1>9. Ordered(conn, handler)
  <2>1. SentOf(conn) = <<>>
    BY <1>3 DEF SentOf
  <2> QED
    BY <1>3, <2>1 DEF Ordered, InOrder, LastSent
<1>10. Stage(conn, handler)
  BY <1>3 DEF Stage, BetweenRequests, Reading, NoReadQueued
<1>11. Followed(conn, handler) /\ TurnRight
  BY <1>1, <1>3 DEF Followed, TurnRight
<1>12. GoesOn(handler)
  BY <1>5 DEF GoesOn, Http!NoHandler, Http!NewHandler
<1> QED
  BY <1>2, <1>4, <1>6, <1>7, <1>8, <1>9, <1>10, <1>11, <1>12 DEF HttpInv, HttpMid, HttpBase

LEMMA HttpKept == HttpInv /\ [Http!HTTPNext]_httpVars => HttpInv'
<1> SUFFICES ASSUME HttpInv, [Http!HTTPNext]_httpVars PROVE HttpInv'
  OBVIOUS
<1>1. CASE UNCHANGED httpVars
  <2>1. /\ UNCHANGED <<conn, handler, turn, requests, client>>
        /\ HttpWorld
    BY <1>1 DEF httpVars, HttpInv
  <2> QED
    BY <2>1, SameWorld, ClientKeeps
<1>2. ASSUME NEW r \in Http!Ids, Http!HandlerResumes(r) PROVE HttpInv'
  BY <1>2, HandlerResumesKeeps DEF Http!Ids, HttpIds
<1>3. ASSUME NEW k \in Kinds, Http!ClientSends(k) PROVE HttpInv'
  <2>1. k.body \in BOOLEAN
    BY InputsAssumption DEF Http!KindType
  <2> QED
    BY <1>3, <2>1, SizesAssumption, ClientSendsKeeps
<1> QED
  BY <1>1, <1>2, <1>3, OnHeadersKeeps, OnRequestBodyKeeps, OnWriteCompleteKeeps, OnCloseKeeps,
     PollReadKeeps, PollWriteKeeps, HandlerReturnsKeeps, HandlerFlushKeeps,
     HandlerFinishKeeps, HandlerRaisesKeeps, ClientSendsBodyKeeps, ClientClosesKeeps
     DEF Http!HTTPNext

LEMMA HttpAlways == ServicesSpec => []HttpInv
<1>1. ServicesInit => HttpInv
  BY HttpBegins DEF ServicesInit
<1>2. HttpInv /\ [ServicesNext]_servicesVars => HttpInv'
  BY HttpKept, PartsAlone
<1> QED
  BY <1>1, <1>2, PTL DEF ServicesSpec

-----------------------------------------------------------------------------
(* What the invariant says of the connection.                              *)

LEMMA AnsweredInOrder == HttpInv => ResponsesSeparate
<1> SUFFICES ASSUME HttpInv PROVE ResponsesSeparate
  OBVIOUS
<1>0. /\ ConnTypes(conn) /\ Before(conn, handler) /\ Ordered(conn, handler)
      /\ requests \in Seq(Kinds) /\ Len(requests) <= MaxRequests
  BY DEF HttpInv, HttpWorld, HttpMid, HttpBase
<1>1. Http!ResponsesInOrder
  BY <1>0 DEF Http!ResponsesInOrder, Http!Sent, Ordered, InOrder, SentOf, Next2
<1>2. ASSUME NEW r \in 1 .. conn.parsed - 1, requests[r].http11
      PROVE  handler[r].framing \in {"length", "chunked"}
  <2>1. r < conn.parsed /\ r <= conn.parsed /\ r \in 1 .. conn.parsed
    BY <1>0 DEF ConnTypes
  <2>2. r \in HttpIds
    BY <1>0, <2>1, IdsKnown
  <2> QED
    BY <1>0, <1>2, <2>1, <2>2 DEF Before, Framed
<1> QED
  BY <1>1, <1>2 DEF ResponsesSeparate, Http!ResponsesSeparate, Http!Delimited

LEMMA ClosesInTime == HttpInv /\ ~FlushCallbacksRaise => ClosedInTime
<1> SUFFICES ASSUME HttpInv, ~FlushCallbacksRaise PROVE ClosedInTime
  OBVIOUS
<1>0. /\ ConnTypes(conn) /\ HandlerTypes(handler) /\ LeftToWrite(conn, handler)
      /\ Stage(conn, handler)
  BY DEF HttpInv, HttpMid, HttpBase
<1>1. Http!NothingCutShort
  BY <1>0 DEF Http!NothingCutShort, LeftToWrite, MayBeCut
<1>2. ASSUME conn.closeCb # 0
      PROVE  conn.closeCb = conn.request /\ ~handler[conn.closeCb].finished
  <2>1. conn.closeCb = conn.request /\ conn.request # 0
    BY <1>0, <1>2 DEF ConnTypes
  <2>2. InHandler(conn, handler)
    BY <1>0, <1>2, <2>1 DEF Stage, BetweenRequests, InBody, AtEnd
  <2> QED
    BY <1>2, <2>1, <2>2 DEF InHandler
<1>3. \A r \in Http!Ids : handler[r].closedSeen <= 1
  BY <1>0 DEF HandlerTypes, HandlerType, Http!Ids, HttpIds
<1> QED
  BY <1>1, <1>2, <1>3 DEF ClosedInTime, Http!ClosedInTime, Http!CloseCallbackIsCurrent

LEMMA Attends == HttpInv => NeverStalls
<1> SUFFICES ASSUME HttpInv, turn = 0, conn.queue = <<>>, conn.open
             PROVE  \/ conn.reading # "none"
                    \/ conn.requestFinished /\ Http!Writing(conn) /\ conn.streamCb
                    \/ /\ conn.request # 0 /\ ~handler[conn.request].ended
                       /\ handler[conn.request].phase = "waiting"
                       /\ ~handler[conn.request].autoFinish
  BY DEF NeverStalls, Http!NeverStalls
<1>0. /\ HttpWorld /\ HttpBase(conn, handler) /\ Stage(conn, handler) /\ ConnTypes(conn)
      /\ Before(conn, handler) /\ LeftToWrite(conn, handler) /\ FollowedOn(conn, handler)
      /\ GoesOn(handler)
  BY AtRest DEF HttpBase, HttpInv
<1>1. ~WrittenQueued(conn) /\ \A what \in Reads : Reading(conn, what) => conn.reading = what
  BY DEF WrittenQueued, Reading
<1>2. CASE BetweenRequests(conn, handler) \/ InBody(conn, handler)
  BY <1>1, <1>2 DEF BetweenRequests, InBody, Reads
<1>3. CASE InHandler(conn, handler)
  <2> DEFINE r == conn.request
  <2>1. r \in HttpIds /\ r # 0 /\ r <= conn.parsed
    <3>1. r \in 1 .. conn.parsed
      BY <1>0, <1>3 DEF ConnTypes, InHandler
    <3>2. r \in HttpIds
      BY <1>0, <3>1, IdsKnown DEF HttpWorld
    <3> QED
      BY <1>0, <3>1, <3>2 DEF ConnTypes
  <2>2. handler[r].phase # "none" /\ handler[r].ended = conn.requestFinished
    BY <1>3 DEF InHandler
  <2>3. CASE handler[r].ended
    <3>1. Http!Writing(conn)
      BY <1>0, <1>1, <2>1, <2>3 DEF FollowedOn
    <3>2. handler[r].headersWritten
      BY <1>0, <2>1, <2>3 DEF Before, Framed
    <3> QED
      BY <1>0, <2>1, <2>2, <2>3, <3>1, <3>2 DEF LeftToWrite
  <2>4. CASE ~handler[r].ended
    BY <1>0, <2>1, <2>2, <2>4 DEF GoesOn
  <2> QED
    BY <2>3, <2>4
<1> QED
  BY <1>0, <1>2, <1>3 DEF Stage, AtEnd

(* However requests are pipelined, flushed in parts and finished from      *)
(* other callbacks, the parts of the responses reach the client in order,  *)
(* each response whole before the next, and each that a client of HTTP/1.1 *)
(* may read behind says where it ends; for any number of requests.         *)
THEOREM ResponsesAlwaysSeparate == ServicesSpec => []ResponsesSeparate
BY HttpAlways, AnsweredInOrder, PTL

(* If no callback of a flush() raises outside of any context, a connection *)
(* whose client is still there is closed with nothing left to write; the   *)
(* handler to be told of its end is the one whose request is served, and   *)
(* no handler hears of it twice.                                           *)
THEOREM AlwaysClosedInTime == ~FlushCallbacksRaise => (ServicesSpec => []ClosedInTime)
<1> SUFFICES ASSUME ~FlushCallbacksRaise PROVE ServicesSpec => []ClosedInTime
  OBVIOUS
<1>1. HttpInv => ClosedInTime
  BY ClosesInTime
<1> QED
  BY <1>1, HttpAlways, PTL

(* Between callbacks an open connection reads, or writes with a callback   *)
(* to come, or waits for a handler that goes on in a callback of its own.  *)
THEOREM ConnectionNeverStalls == ServicesSpec => []NeverStalls
BY HttpAlways, Attends, PTL
=============================================================================

-------------------------- MODULE WebSocketProofs ---------------------------
(***************************************************************************)
(* WebSocket: who closes and who hears of it, and which messages the       *)
(* application gets, whatever the two ends do and in whatever order.       *)
(***************************************************************************)
EXTENDS ServicesProofs

\* The record of a connection, with its fields.
WsFields ==
    {"protocol", "open", "closeCb", "queue", "due", "reading", "input", "got", "used", "attached",
     "clientTerminated", "serverTerminated", "waiting", "fragmented", "ok", "delivered", "read",
     "closeFrames", "onClose"}
WsRecord(w) == w = [f \in WsFields |-> w[f]]

WsPieces(protocol) ==
    [what : {"challenge"} \cup IF protocol = 13 THEN {"start", "length", "mask", "data"}
                              ELSE {"type", "payload", "indicator"}, frame : Nat]
ClosedPiece == Web!Piece("closed", 0)

WsTypes(w) ==
    /\ WsRecord(w)
    /\ w.protocol \in {13, 76}
    /\ w.open \in BOOLEAN /\ w.closeCb \in BOOLEAN /\ w.attached \in BOOLEAN
    /\ w.clientTerminated \in BOOLEAN /\ w.serverTerminated \in BOOLEAN /\ w.waiting \in BOOLEAN
    /\ w.input \in Seq(WsPieces(w.protocol))
    /\ w.queue \in Seq(WsPieces(w.protocol) \cup {ClosedPiece})
    /\ w.due \in 0 .. Len(w.queue)
    /\ w.got \in Nat /\ w.used \in Nat /\ w.used <= w.got /\ w.got <= Len(w.input)

\* The close callback is the first in the queue or there is none; once it has run, the
\* handler is detached.
ClosedFirst(w) ==
    /\ \A i \in DOMAIN w.queue : w.queue[i] = ClosedPiece => i = 1 /\ ~w.closeCb /\ w.attached
    /\ ~w.closeCb /\ w.attached => w.queue # <<>> /\ w.queue[1] = ClosedPiece
    /\ w.open => w.closeCb
    /\ w.closeCb => w.attached

\* What a method keeps, even where another called it.
WsBase(w) ==
    /\ WsTypes(w) /\ ClosedFirst(w)
    /\ w.onClose = IF w.attached THEN 0 ELSE 1
    /\ w.closeFrames \in 0 .. 1 /\ (w.closeFrames = 1 => w.serverTerminated)
    /\ ~w.attached => w.clientTerminated
WsTimed(w) ==
    /\ w.serverTerminated /\ w.open => w.waiting
    /\ w.clientTerminated => ~w.waiting
WsMid(w) == WsBase(w) /\ WsTimed(w)
\* A closed stream has told so, or a callback is left that will.
WsTold(w) == ~w.open /\ w.closeCb => w.queue # <<>>

WsInv == WsMid(ws) /\ WsTold(ws) /\ frames \in Seq(Frames)

LEMMA WsClosedOnce == WsInv => ClosedOnce
BY DEF WsInv, WsMid, WsBase, WsTimed, WsTold, WsTypes, ClosedFirst, ClosedOnce,
       Web!ClosedOnce, Web!OnCloseRuns, Web!OneCloseFrame, Web!CloseIsBounded

\* Steps that touch nothing of this.
WsAlike(v, w) ==
    /\ v.protocol = w.protocol /\ v.open = w.open /\ v.closeCb = w.closeCb /\ v.queue = w.queue
    /\ v.input = w.input /\ v.got = w.got /\ v.used = w.used /\ v.attached = w.attached
    /\ v.clientTerminated = w.clientTerminated /\ v.serverTerminated = w.serverTerminated
    /\ v.waiting = w.waiting /\ v.closeFrames = w.closeFrames
    /\ v.onClose = w.onClose /\ v.due = w.due

LEMMA WsMidAlike ==
    ASSUME NEW v, NEW w, WsAlike(v, w), WsRecord(v), WsMid(w)
    PROVE  WsMid(v)
BY DEF WsAlike, WsMid, WsBase, WsTimed, WsTypes, ClosedFirst

LEMMA WsToldAlike ==
    ASSUME NEW v, NEW w, WsAlike(v, w), WsTold(w)
    PROVE  WsTold(v)
BY DEF WsAlike, WsTold

LEMMA WsOther ==
    ASSUME NEW w, WsMid(w)
    PROVE  /\ \A x : WsMid([w EXCEPT !.delivered = x])
           /\ \A x : WsMid([w EXCEPT !.fragmented = x])
           /\ \A x : WsMid([w EXCEPT !.read = x])
           /\ \A x : WsMid([w EXCEPT !.reading = x])
           /\ \A x : WsMid([w EXCEPT !.ok = x])
           /\ \A x \in 0 .. Len(w.queue) : WsMid([w EXCEPT !.due = x])
<1>0. WsRecord(w)
  BY DEF WsMid, WsBase, WsTypes
<1>1. ASSUME NEW x PROVE WsMid([w EXCEPT !.delivered = x])
  <2> DEFINE v == [w EXCEPT !.delivered = x]
  <2>1. WsAlike(v, w) /\ WsRecord(v)
    BY <1>0 DEF WsAlike, WsRecord, WsFields
  <2> QED
    BY <2>1, WsMidAlike
<1>2. ASSUME NEW x PROVE WsMid([w EXCEPT !.fragmented = x])
  <2> DEFINE v == [w EXCEPT !.fragmented = x]
  <2>1. WsAlike(v, w) /\ WsRecord(v)
    BY <1>0 DEF WsAlike, WsRecord, WsFields
  <2> QED
    BY <2>1, WsMidAlike
<1>3. ASSUME NEW x PROVE WsMid([w EXCEPT !.read = x])
  <2> DEFINE v == [w EXCEPT !.read = x]
  <2>1. WsAlike(v, w) /\ WsRecord(v)
    BY <1>0 DEF WsAlike, WsRecord, WsFields
  <2> QED
    BY <2>1, WsMidAlike
<1>4. ASSUME NEW x PROVE WsMid([w EXCEPT !.reading = x])
  <2> DEFINE v == [w EXCEPT !.reading = x]
  <2>1. WsAlike(v, w) /\ WsRecord(v)
    BY <1>0 DEF WsAlike, WsRecord, WsFields
  <2> QED
    BY <2>1, WsMidAlike
<1>5. ASSUME NEW x PROVE WsMid([w EXCEPT !.ok = x])
  <2> DEFINE v == [w EXCEPT !.ok = x]
  <2>1. WsAlike(v, w) /\ WsRecord(v)
    BY <1>0 DEF WsAlike, WsRecord, WsFields
  <2> QED
    BY <2>1, WsMidAlike
<1>6. ASSUME NEW x \in 0 .. Len(w.queue) PROVE WsMid([w EXCEPT !.due = x])
  <2> DEFINE v == [w EXCEPT !.due = x]
  <2>1. /\ WsRecord(v) /\ v.due = x
        /\ v.protocol = w.protocol /\ v.open = w.open /\ v.closeCb = w.closeCb /\ v.queue = w.queue
        /\ v.input = w.input /\ v.got = w.got /\ v.used = w.used /\ v.attached = w.attached
        /\ v.clientTerminated = w.clientTerminated /\ v.serverTerminated = w.serverTerminated
        /\ v.waiting = w.waiting /\ v.closeFrames = w.closeFrames /\ v.onClose = w.onClose
    BY <1>0 DEF WsRecord, WsFields
  <2> HIDE DEF v
  <2>2. WsMid(v)
    BY <2>1 DEF WsMid, WsBase, WsTimed, WsTypes, ClosedFirst
  <2> QED
    BY <2>2 DEF v
<1> QED
  BY <1>1, <1>2, <1>3, <1>4, <1>5, <1>6

LEMMA ClosedIsNoPiece ==
    \A protocol : ClosedPiece \notin WsPieces(protocol)
BY DEF ClosedPiece, WsPieces, Web!Piece

\* The close callback is queued once, when nothing is before it.
LEMMA MaybeKeeps ==
    ASSUME NEW w, WsBase(w)
    PROVE  LET v == Web!MaybeRunClose(w)
           IN  /\ WsBase(v) /\ WsTold(v)
               /\ v.open = w.open /\ v.waiting = w.waiting
               /\ v.serverTerminated = w.serverTerminated
               /\ v.clientTerminated = w.clientTerminated /\ v.attached = w.attached
<1>0. WsRecord(w)
  BY DEF WsBase, WsTypes
<1>1. CASE ~w.open /\ w.closeCb /\ w.queue = <<>>
  <2> DEFINE v == [w EXCEPT !.closeCb = FALSE, !.queue = <<ClosedPiece>>]
  <2>1. Web!MaybeRunClose(w) = v
    BY <1>1 DEF Web!MaybeRunClose, ClosedPiece
  <2>2. /\ WsRecord(v) /\ v.closeCb = FALSE /\ v.queue = <<ClosedPiece>>
        /\ v.protocol = w.protocol /\ v.open = w.open
        /\ v.input = w.input /\ v.got = w.got /\ v.used = w.used /\ v.attached = w.attached
        /\ v.clientTerminated = w.clientTerminated /\ v.serverTerminated = w.serverTerminated
        /\ v.waiting = w.waiting /\ v.closeFrames = w.closeFrames
        /\ v.onClose = w.onClose /\ v.due = w.due
    BY <1>0 DEF WsRecord, WsFields
  <2> HIDE DEF v
  <2>3. WsTypes(v)
    <3>1. <<ClosedPiece>> \in Seq(WsPieces(w.protocol) \cup {ClosedPiece})
          /\ Len(<<ClosedPiece>>) = 1 /\ Len(<<>>) = 0
      OBVIOUS
    <3>2. w.due = 0
      <4>1. w.due \in 0 .. Len(w.queue) /\ w.queue = <<>>
        BY <1>1 DEF WsBase, WsTypes
      <4> QED
        BY <3>1, <4>1
    <3>3. v.due \in 0 .. Len(v.queue)
      BY <2>2, <3>1, <3>2
    <3> QED
      BY <2>2, <3>1, <3>3 DEF WsBase, WsTypes
  <2>4. ClosedFirst(v)
    <3>1. /\ DOMAIN <<ClosedPiece>> = {1} /\ <<ClosedPiece>>[1] = ClosedPiece /\ <<ClosedPiece>> # <<>>
      OBVIOUS
    <3> QED
      BY <1>1, <2>2, <3>1 DEF WsBase, ClosedFirst
  <2> QED
    BY <2>1, <2>2, <2>3, <2>4 DEF WsBase, WsTold
<1>2. CASE ~(~w.open /\ w.closeCb /\ w.queue = <<>>)
  <2>1. Web!MaybeRunClose(w) = w
    BY <1>2 DEF Web!MaybeRunClose
  <2> QED
    BY <1>2, <2>1 DEF WsTold
<1> QED
  BY <1>1, <1>2

LEMMA StreamClosedKeeps ==
    ASSUME NEW w, WsBase(w)
    PROVE  LET v == Web!CloseStream(w)
           IN  /\ WsBase(v) /\ WsTold(v) /\ ~v.open
               /\ v.waiting = w.waiting /\ v.serverTerminated = w.serverTerminated
               /\ v.clientTerminated = w.clientTerminated /\ v.attached = w.attached
<1> DEFINE u == [w EXCEPT !.open = FALSE]
<1>0. WsRecord(w)
  BY DEF WsBase, WsTypes
<1>1. /\ WsRecord(u) /\ u.open = FALSE
      /\ u.protocol = w.protocol /\ u.closeCb = w.closeCb /\ u.queue = w.queue
      /\ u.input = w.input /\ u.got = w.got /\ u.used = w.used /\ u.attached = w.attached
      /\ u.clientTerminated = w.clientTerminated /\ u.serverTerminated = w.serverTerminated
      /\ u.waiting = w.waiting /\ u.closeFrames = w.closeFrames
      /\ u.onClose = w.onClose /\ u.due = w.due
  BY <1>0 DEF WsRecord, WsFields
<1>2. Web!CloseStream(w) = Web!MaybeRunClose(u)
  BY DEF Web!CloseStream
<1> HIDE DEF u
<1>3. WsBase(u)
  BY <1>1 DEF WsBase, WsTypes, ClosedFirst
<1> QED
  BY <1>1, <1>2, <1>3, MaybeKeeps

LEMMA StreamClosedMid ==
    ASSUME NEW w, WsMid(w)
    PROVE  WsMid(Web!CloseStream(w)) /\ WsTold(Web!CloseStream(w))
BY StreamClosedKeeps DEF WsMid, WsTimed

\* A frame is written, or the stream is found to be closed.
LEMMA WriteKeeps ==
    ASSUME NEW w, NEW lost, WsBase(w)
    PROVE  LET v == Web!WriteFrame(w, lost)
           IN  /\ WsBase(v) /\ (WsTold(w) => WsTold(v)) /\ (v.open => w.open)
               /\ v.waiting = w.waiting /\ v.serverTerminated = w.serverTerminated
               /\ v.clientTerminated = w.clientTerminated /\ v.attached = w.attached
<1>0. WsRecord(w)
  BY DEF WsBase, WsTypes
<1>1. CASE ~w.open
  <2> DEFINE u == [w EXCEPT !.ok = FALSE]
  <2>1. WsRecord(u) /\ WsAlike(u, w)
    BY <1>0 DEF WsAlike, WsRecord, WsFields
  <2>2. Web!WriteFrame(w, lost) = u
    BY <1>1 DEF Web!WriteFrame
  <2> HIDE DEF u
  <2>3. WsBase(u)
    BY <2>1 DEF WsAlike, WsBase, WsTypes, ClosedFirst
  <2> QED
    BY <2>1, <2>2, <2>3 DEF WsAlike, WsTold
<1>2. CASE w.open /\ lost
  <2>1. Web!WriteFrame(w, lost) = Web!CloseStream(w)
    BY <1>2 DEF Web!WriteFrame
  <2> QED
    BY <2>1, StreamClosedKeeps
<1>3. CASE w.open /\ ~lost
  <2>1. Web!WriteFrame(w, lost) = w
    BY <1>3 DEF Web!WriteFrame
  <2> QED
    BY <2>1
<1> QED
  BY <1>1, <1>2, <1>3

LEMMA WriteMid ==
    ASSUME NEW w, NEW lost, WsMid(w)
    PROVE  WsMid(Web!WriteFrame(w, lost)) /\ (WsTold(w) => WsTold(Web!WriteFrame(w, lost)))
BY WriteKeeps DEF WsMid, WsTimed

\* close(): what has not been sent is sent, and the socket is closed or a timer runs.
LEMMA CloseKeeps ==
    ASSUME NEW w, NEW lost, WsBase(w)
    PROVE  LET v == Web!Close(w, lost)
           IN  /\ WsMid(v) /\ (WsTold(w) => WsTold(v)) /\ (v.open => w.open)
               /\ v.clientTerminated = w.clientTerminated /\ v.attached = w.attached
               /\ w.clientTerminated => WsTold(v) /\ ~v.open
<1> DEFINE u == IF ~Web!OncePerSide(w) THEN w
                ELSE IF w.open
                THEN [Web!WriteFrame(w, lost) EXCEPT !.serverTerminated = TRUE, !.closeFrames = @ + 1]
                ELSE [w EXCEPT !.serverTerminated = TRUE]
<1>0. WsRecord(w)
  BY DEF WsBase, WsTypes
<1>1. /\ WsBase(u) /\ (WsTold(w) => WsTold(u)) /\ (u.open => w.open)
      /\ u.clientTerminated = w.clientTerminated /\ u.attached = w.attached
  <2>1. CASE w.serverTerminated
    BY <2>1 DEF Web!OncePerSide
  <2>2. CASE ~w.serverTerminated /\ w.open
    <3> DEFINE x == Web!WriteFrame(w, lost)
    <3>1. /\ WsBase(x) /\ (WsTold(w) => WsTold(x)) /\ (x.open => w.open)
          /\ x.serverTerminated = FALSE
          /\ x.clientTerminated = w.clientTerminated /\ x.attached = w.attached
      <4>1. w.serverTerminated = FALSE
        BY <2>2 DEF WsBase, WsTypes
      <4> QED
        BY <4>1, WriteKeeps
    <3>2. u = [x EXCEPT !.serverTerminated = TRUE, !.closeFrames = @ + 1]
      BY <2>2 DEF Web!OncePerSide
    <3> HIDE DEF x, u
    <3>3. WsRecord(x) /\ x.closeFrames = 0
      BY <3>1 DEF WsBase, WsTypes
    <3>4. /\ WsRecord(u) /\ u.serverTerminated = TRUE /\ u.closeFrames = x.closeFrames + 1
          /\ u.protocol = x.protocol /\ u.open = x.open /\ u.closeCb = x.closeCb
          /\ u.queue = x.queue /\ u.input = x.input /\ u.got = x.got /\ u.used = x.used
          /\ u.attached = x.attached /\ u.clientTerminated = x.clientTerminated
          /\ u.waiting = x.waiting /\ u.onClose = x.onClose /\ u.due = x.due
      BY <3>2, <3>3 DEF WsRecord, WsFields
    <3>5. WsBase(u)
      <4>1. u.closeFrames = 1
        BY <3>3, <3>4
      <4>2. WsTypes(u) /\ ClosedFirst(u)
        BY <3>1, <3>4 DEF WsBase, WsTypes, ClosedFirst
      <4> QED
        BY <3>1, <3>4, <4>1, <4>2 DEF WsBase
    <3> QED
      BY <3>1, <3>4, <3>5 DEF WsTold
  <2>3. CASE ~w.serverTerminated /\ ~w.open
    <3>1. u = [w EXCEPT !.serverTerminated = TRUE]
      BY <2>3 DEF Web!OncePerSide
    <3> HIDE DEF u
    <3>2. /\ WsRecord(u) /\ u.serverTerminated = TRUE /\ u.closeFrames = w.closeFrames
          /\ u.protocol = w.protocol /\ u.open = w.open /\ u.closeCb = w.closeCb
          /\ u.queue = w.queue /\ u.input = w.input /\ u.got = w.got /\ u.used = w.used
          /\ u.attached = w.attached /\ u.clientTerminated = w.clientTerminated
          /\ u.waiting = w.waiting /\ u.onClose = w.onClose /\ u.due = w.due
      BY <1>0, <3>1 DEF WsRecord, WsFields
    <3>3. WsBase(u)
      BY <3>2 DEF WsBase, WsTypes, ClosedFirst
    <3> QED
      BY <3>2, <3>3 DEF WsTold
  <2> QED
    BY <2>1, <2>2, <2>3 DEF WsBase, WsTypes
<1>2. Web!Close(w, lost) = IF u.clientTerminated THEN Web!CloseStream([u EXCEPT !.waiting = FALSE])
                           ELSE [u EXCEPT !.waiting = TRUE]
  BY DEF Web!Close
<1> HIDE DEF u
<1>3. WsRecord(u)
  BY <1>1 DEF WsBase, WsTypes
<1>4. \A b \in BOOLEAN :
        LET v == [u EXCEPT !.waiting = b]
        IN  /\ WsBase(v) /\ (WsTold(u) => WsTold(v)) /\ v.waiting = b /\ v.open = u.open
            /\ v.clientTerminated = u.clientTerminated /\ v.attached = u.attached
  <2> SUFFICES ASSUME NEW b \in BOOLEAN
               PROVE  LET v == [u EXCEPT !.waiting = b]
                      IN  /\ WsBase(v) /\ (WsTold(u) => WsTold(v)) /\ v.waiting = b /\ v.open = u.open
                          /\ v.clientTerminated = u.clientTerminated /\ v.attached = u.attached
    OBVIOUS
  <2> DEFINE v == [u EXCEPT !.waiting = b]
  <2>1. /\ WsRecord(v) /\ v.serverTerminated = u.serverTerminated /\ v.closeFrames = u.closeFrames
        /\ v.protocol = u.protocol /\ v.open = u.open /\ v.closeCb = u.closeCb
        /\ v.queue = u.queue /\ v.input = u.input /\ v.got = u.got /\ v.used = u.used
        /\ v.attached = u.attached /\ v.clientTerminated = u.clientTerminated
        /\ v.waiting = b /\ v.onClose = u.onClose /\ v.due = u.due
    BY <1>3 DEF WsRecord, WsFields
  <2> HIDE DEF v
  <2>2. WsBase(v)
    BY <1>1, <2>1 DEF WsBase, WsTypes, ClosedFirst
  <2> QED
    BY <2>1, <2>2 DEF WsTold, v
<1>5. CASE u.clientTerminated
  <2> DEFINE x == [u EXCEPT !.waiting = FALSE]
  <2>1. WsBase(x) /\ x.waiting = FALSE /\ x.clientTerminated = u.clientTerminated /\ x.attached = u.attached
    BY <1>4
  <2>2. Web!Close(w, lost) = Web!CloseStream(x)
    BY <1>2, <1>5
  <2> HIDE DEF x
  <2> QED
    BY <1>1, <2>1, <2>2, StreamClosedKeeps DEF WsMid, WsTimed
<1>6. CASE ~u.clientTerminated
  <2> DEFINE x == [u EXCEPT !.waiting = TRUE]
  <2>1. /\ WsBase(x) /\ x.waiting = TRUE /\ x.open = u.open /\ (WsTold(u) => WsTold(x))
        /\ x.clientTerminated = u.clientTerminated /\ x.attached = u.attached
    BY <1>4
  <2>2. Web!Close(w, lost) = x
    BY <1>2, <1>6
  <2> HIDE DEF x
  <2> QED
    BY <1>1, <1>6, <2>1, <2>2 DEF WsMid, WsTimed
<1> QED
  BY <1>5, <1>6

LEMMA AbortKeeps ==
    ASSUME NEW w, WsBase(w)
    PROVE  LET v == Web!Abort(w)
           IN  WsMid(v) /\ WsTold(v) /\ ~v.open /\ v.clientTerminated /\ v.attached = w.attached
<1> DEFINE u == [w EXCEPT !.clientTerminated = TRUE, !.serverTerminated = TRUE]
<1>0. WsRecord(w)
  BY DEF WsBase, WsTypes
<1>1. /\ WsRecord(u) /\ u.serverTerminated = TRUE /\ u.clientTerminated = TRUE
      /\ u.protocol = w.protocol /\ u.open = w.open /\ u.closeCb = w.closeCb
      /\ u.queue = w.queue /\ u.input = w.input /\ u.got = w.got /\ u.used = w.used
      /\ u.attached = w.attached /\ u.closeFrames = w.closeFrames
      /\ u.waiting = w.waiting /\ u.onClose = w.onClose /\ u.due = w.due
  BY <1>0 DEF WsRecord, WsFields
<1>2. Web!Abort(w) = Web!Close(Web!CloseStream(u), FALSE)
  BY DEF Web!Abort
<1> HIDE DEF u
<1>3. WsBase(u)
  BY <1>1 DEF WsBase, WsTypes, ClosedFirst
<1> DEFINE x == Web!CloseStream(u)
<1>4. WsBase(x) /\ x.clientTerminated = TRUE /\ x.attached = w.attached
  BY <1>1, <1>3, StreamClosedKeeps
<1>5. Web!Abort(w) = Web!Close(x, FALSE)
  BY <1>2
<1> HIDE DEF x
<1> DEFINE y == Web!Close(x, FALSE)
<1>6. /\ WsMid(y) /\ y.clientTerminated = x.clientTerminated /\ y.attached = x.attached
      /\ WsTold(y) /\ ~y.open
  BY <1>4, CloseKeeps
<1> HIDE DEF y
<1> QED
  BY <1>4, <1>5, <1>6 DEF y

-----------------------------------------------------------------------------
\* A piece that was read is queued behind what is there.
LEMMA DeliverKeeps ==
    ASSUME NEW w, WsMid(w), w.got <= Len(w.input)
    PROVE  WsMid(Web!Deliver(w)) /\ (WsTold(w) => WsTold(Web!Deliver(w)))
<1>1. CASE w.reading = "none" \/ w.got = w.used
  BY <1>1 DEF Web!Deliver
<1>2. CASE ~(w.reading = "none" \/ w.got = w.used)
  <2> DEFINE p == w.input[w.used + 1]
             v == [w EXCEPT !.reading = "none", !.used = @ + 1, !.queue = Append(@, p)]
  <2>1. Web!Deliver(w) = v
    BY <1>2 DEF Web!Deliver
  <2>0. WsRecord(w) /\ WsTypes(w) /\ ClosedFirst(w)
    BY DEF WsMid, WsBase, WsTypes
  <2>2. p \in WsPieces(w.protocol)
    <3>1. w.input \in Seq(WsPieces(w.protocol)) /\ w.used \in Nat /\ w.got \in Nat
          /\ w.used < w.got /\ w.got <= Len(w.input)
      BY <1>2, <2>0 DEF WsTypes
    <3> DEFINE i == w.used + 1
    <3>2. i \in 1 .. Len(w.input)
      BY <3>1
    <3> QED
      BY <3>1, <3>2
  <2> HIDE DEF p
  <2>3. /\ WsRecord(v) /\ v.used = w.used + 1 /\ v.queue = Append(w.queue, p)
        /\ v.protocol = w.protocol /\ v.open = w.open /\ v.closeCb = w.closeCb
        /\ v.input = w.input /\ v.got = w.got
        /\ v.attached = w.attached /\ v.clientTerminated = w.clientTerminated
        /\ v.serverTerminated = w.serverTerminated /\ v.closeFrames = w.closeFrames
        /\ v.waiting = w.waiting /\ v.onClose = w.onClose /\ v.due = w.due
    BY <2>0 DEF WsRecord, WsFields
  <2> HIDE DEF v
  <2>4. /\ v.queue \in Seq(WsPieces(w.protocol) \cup {ClosedPiece}) /\ v.queue # <<>>
        /\ DOMAIN v.queue = 1 .. Len(w.queue) + 1 /\ v.queue[Len(w.queue) + 1] = p
        /\ \A i \in 1 .. Len(w.queue) : v.queue[i] = w.queue[i]
        /\ DOMAIN w.queue = 1 .. Len(w.queue) /\ Len(w.queue) \in Nat
    <3> DEFINE P == WsPieces(w.protocol) \cup {ClosedPiece}
    <3>1. w.queue \in Seq(P) /\ p \in P
      BY <2>0, <2>2 DEF WsTypes
    <3> HIDE DEF P
    <3> QED
      BY <2>3, <3>1 DEF P
  <2>5. WsTypes(v)
    <3>1. v.used <= v.got /\ v.used \in Nat
      BY <1>2, <2>0, <2>3 DEF WsTypes
    <3> QED
      BY <2>0, <2>3, <2>4, <3>1 DEF WsTypes
  <2>6. ClosedFirst(v)
    <3>1. p # ClosedPiece
      BY <2>2, ClosedIsNoPiece
    <3>2. \A i \in DOMAIN v.queue : v.queue[i] = ClosedPiece => i \in DOMAIN w.queue /\ w.queue[i] = ClosedPiece
      BY <2>4, <3>1
    <3>3. w.queue # <<>> => 1 \in DOMAIN w.queue
      BY <2>0, <2>4 DEF WsTypes
    <3>4. w.queue # <<>> => v.queue[1] = w.queue[1]
      BY <2>4, <3>3
    <3> QED
      BY <2>0, <2>3, <2>4, <3>2, <3>4 DEF ClosedFirst
  <2> QED
    BY <2>1, <2>3, <2>4, <2>5, <2>6 DEF WsMid, WsBase, WsTimed, WsTold
<1> QED
  BY <1>1, <1>2

\* The socket is read: what was sent is there, and the end of it may show.
LEMMA FillKeeps ==
    ASSUME NEW w, NEW b \in BOOLEAN, WsMid(w), w.open
    PROVE  WsMid([Web!Fill(w) EXCEPT !.open = b])
<1> DEFINE v == [Web!Fill(w) EXCEPT !.open = b]
<1>0. WsRecord(w) /\ WsTypes(w)
  BY DEF WsMid, WsBase, WsTypes
<1>1. /\ WsRecord(v) /\ v.used = w.used /\ v.queue = w.queue
      /\ v.protocol = w.protocol /\ v.open = b /\ v.closeCb = w.closeCb
      /\ v.input = w.input /\ v.got \in {w.got, Len(w.input)}
      /\ v.attached = w.attached /\ v.clientTerminated = w.clientTerminated
      /\ v.serverTerminated = w.serverTerminated /\ v.closeFrames = w.closeFrames
      /\ v.waiting = w.waiting /\ v.onClose = w.onClose /\ v.due = w.due
  BY <1>0 DEF WsRecord, WsFields, Web!Fill
<1> HIDE DEF v
<1>2. WsTypes(v)
  <2>1. w.got \in Nat /\ w.used \in Nat /\ w.used <= w.got /\ w.got <= Len(w.input) /\ Len(w.input) \in Nat
    BY <1>0 DEF WsTypes
  <2>2. v.got \in Nat /\ v.used <= v.got /\ v.got <= Len(v.input)
    BY <1>1, <2>1
  <2> QED
    BY <1>0, <1>1, <2>2 DEF WsTypes
<1> QED
  BY <1>1, <1>2 DEF v, WsMid, WsBase, WsTimed, ClosedFirst

LEMMA StartReadKeeps ==
    ASSUME NEW w, NEW what, WsMid(w)
    PROVE  WsMid(Web!StartRead(w, what))
<1> DEFINE v == [w EXCEPT !.reading = what]
<1>0. WsRecord(w)
  BY DEF WsMid, WsBase, WsTypes
<1>1. WsMid(v)
  BY WsOther
<1>2. v.open = w.open /\ v.got = w.got /\ v.used = w.used /\ v.input = w.input
  BY <1>0 DEF WsRecord, WsFields
<1>3. Web!StartRead(w, what) =
        IF w.got > w.used THEN Web!Deliver(v)
        ELSE IF ~w.open \/ link = "reset" THEN [v EXCEPT !.open = FALSE, !.ok = FALSE]
        ELSE Web!Deliver([Web!Fill(v) EXCEPT !.open = link = "up"])
  BY DEF Web!StartRead
<1> HIDE DEF v
<1>4. \A u : WsMid(u) => u.got <= Len(u.input)
  BY DEF WsMid, WsBase, WsTypes
<1>5. CASE w.got > w.used
  BY <1>1, <1>3, <1>4, <1>5, DeliverKeeps
<1>6. CASE ~(w.got > w.used) /\ (~w.open \/ link = "reset")
  <2> DEFINE u == [v EXCEPT !.open = FALSE, !.ok = FALSE]
  <2>1. WsRecord(v)
    BY <1>1 DEF WsMid, WsBase, WsTypes
  <2>2. /\ WsRecord(u) /\ u.open = FALSE
        /\ u.protocol = v.protocol /\ u.closeCb = v.closeCb /\ u.queue = v.queue
        /\ u.input = v.input /\ u.got = v.got /\ u.used = v.used /\ u.attached = v.attached
        /\ u.clientTerminated = v.clientTerminated /\ u.serverTerminated = v.serverTerminated
        /\ u.waiting = v.waiting /\ u.closeFrames = v.closeFrames
        /\ u.onClose = v.onClose /\ u.due = v.due
    BY <2>1 DEF WsRecord, WsFields
  <2> HIDE DEF u
  <2>3. WsMid(u)
    BY <1>1, <2>2 DEF WsMid, WsBase, WsTimed, WsTypes, ClosedFirst
  <2> QED
    BY <1>3, <1>6, <2>3 DEF u
<1>7. CASE ~(w.got > w.used) /\ ~(~w.open \/ link = "reset")
  <2> DEFINE b == link = "up"
             x == [Web!Fill(v) EXCEPT !.open = b]
  <2>1. b \in BOOLEAN
    OBVIOUS
  <2>2. Web!StartRead(w, what) = Web!Deliver(x)
    BY <1>3, <1>7
  <2> HIDE DEF b
  <2>3. WsMid(x)
    BY <1>1, <1>2, <1>7, <2>1, FillKeeps
  <2> HIDE DEF x
  <2> QED
    BY <1>4, <2>2, <2>3, DeliverKeeps
<1> QED
  BY <1>5, <1>6, <1>7

\* The handler's methods, up to the next read.
LEMMA ReactKeeps ==
    ASSUME NEW v, NEW reaction \in Web!Reactions, NEW lost, WsMid(v)
    PROVE  WsMid(Web!React(v, reaction, lost))
<1>3. CASE reaction = "none"
  BY <1>3 DEF Web!React
<1>4. CASE reaction = "write"
  <2> DEFINE u == Web!WriteFrame(v, lost)
             x == [u EXCEPT !.ok = TRUE]
  <2>1. Web!React(v, reaction, lost) = IF u.ok THEN u ELSE Web!Abort(x)
    BY <1>4 DEF Web!React
  <2>2. WsMid(u)
    BY WriteMid
  <2> HIDE DEF u
  <2>3. WsMid(x)
    BY <2>2, WsOther
  <2> HIDE DEF x
  <2>4. WsMid(Web!Abort(x))
    BY <2>3, AbortKeeps DEF WsMid
  <2> QED
    BY <2>1, <2>2, <2>4
<1>5. CASE reaction = "close"
  <2>1. Web!React(v, reaction, lost) = Web!Close(v, lost)
    BY <1>5 DEF Web!React
  <2> QED
    BY <2>1, CloseKeeps DEF WsMid
<1>6. CASE reaction = "raise"
  <2>1. Web!React(v, reaction, lost) = Web!Abort(v)
    BY <1>6 DEF Web!React
  <2> QED
    BY <2>1, AbortKeeps DEF WsMid
<1> QED
  BY <1>3, <1>4, <1>5, <1>6 DEF Web!Reactions

LEMMA OnMessageKeeps ==
    ASSUME NEW w, NEW tags, NEW reaction \in Web!Reactions, NEW lost, WsMid(w)
    PROVE  WsMid(Web!OnMessage(w, tags, reaction, lost))
<1> DEFINE messages == Append(w.delivered, tags)
           v == [w EXCEPT !.delivered = messages]
<1>1. Web!OnMessage(w, tags, reaction, lost) = Web!React(v, reaction, lost)
  BY DEF Web!OnMessage
<1> HIDE DEF messages
<1>2. WsMid(v)
  BY WsOther
<1> QED
  BY <1>1, <1>2, ReactKeeps

\* The client's close is answered at once.
LEMMA ClientClosed ==
    ASSUME NEW w, NEW lost, WsMid(w)
    PROVE  WsMid(Web!Close([w EXCEPT !.clientTerminated = TRUE], lost))
<1> DEFINE u == [w EXCEPT !.clientTerminated = TRUE]
<1>0. WsRecord(w)
  BY DEF WsMid, WsBase, WsTypes
<1>1. /\ WsRecord(u) /\ u.clientTerminated = TRUE /\ u.serverTerminated = w.serverTerminated
      /\ u.protocol = w.protocol /\ u.open = w.open /\ u.closeCb = w.closeCb
      /\ u.queue = w.queue /\ u.input = w.input /\ u.got = w.got /\ u.used = w.used
      /\ u.attached = w.attached /\ u.closeFrames = w.closeFrames
      /\ u.waiting = w.waiting /\ u.onClose = w.onClose /\ u.due = w.due
  BY <1>0 DEF WsRecord, WsFields
<1> HIDE DEF u
<1>2. WsBase(u)
  BY <1>1 DEF WsMid, WsBase, WsTypes, ClosedFirst
<1> QED
  BY <1>2, CloseKeeps DEF u

LEMMA HandleKeeps ==
    ASSUME NEW w, NEW op, NEW tags, NEW reaction \in Web!Reactions, NEW lost, WsMid(w)
    PROVE  WsMid(Web!HandleMessage(w, op, tags, reaction, lost))
<1> DEFINE v == Web!HandleMessage(w, op, tags, reaction, lost)
<1>1. CASE w.clientTerminated
  BY <1>1 DEF Web!HandleMessage
<1>2. CASE ~w.clientTerminated
  <2>1. CASE op \in {"text", "binary"}
    <3>1. v = Web!OnMessage(w, tags, reaction, lost)
      BY <1>2, <2>1 DEF Web!HandleMessage
    <3> QED
      BY <3>1, OnMessageKeeps
  <2>2. CASE op = "close"
    <3>1. v = Web!Close([w EXCEPT !.clientTerminated = TRUE], lost)
      BY <1>2, <2>2 DEF Web!HandleMessage
    <3> QED
      BY <3>1, ClientClosed
  <2>3. CASE op = "ping"
    <3>1. v = Web!WriteFrame(w, lost)
      BY <1>2, <2>3 DEF Web!HandleMessage
    <3> QED
      BY <3>1, WriteMid
  <2>4. CASE op = "pong"
    BY <1>2, <2>4 DEF Web!HandleMessage
  <2>5. CASE op \notin {"text", "binary", "close", "ping", "pong"}
    <3>1. v = Web!Abort(w)
      BY <1>2, <2>5 DEF Web!HandleMessage
    <3> QED
      BY <3>1, AbortKeeps DEF WsMid
  <2> QED
    BY <2>1, <2>2, <2>3, <2>4, <2>5
<1> QED
  BY <1>1, <1>2

LEMMA FrameDataKeeps ==
    ASSUME NEW w, NEW f, NEW n, NEW reaction \in Web!Reactions, NEW lost, WsMid(w)
    PROVE  WsMid(Web!FrameData(w, f, n, reaction, lost))
<1> DEFINE v == Web!FrameData(w, f, n, reaction, lost)
<1>0. WsMid(Web!Abort(w))
  BY AbortKeeps DEF WsMid
<1>1. CASE f.op \in Web!Control
  <2>1. v = IF f.fin THEN Web!HandleMessage(w, f.op, <<n>>, reaction, lost) ELSE Web!Abort(w)
    BY <1>1 DEF Web!FrameData, Web!Control
  <2>2. WsMid(Web!HandleMessage(w, f.op, <<n>>, reaction, lost))
    BY HandleKeeps
  <2> QED
    BY <1>0, <2>1, <2>2
<1>2. CASE f.op \notin Web!Control /\ f.op = "cont"
  <2> DEFINE tags == Append(w.fragmented.tags, n)
             x == [w EXCEPT !.fragmented.tags = tags]
             c == Web!Cleared(w)
             h == Web!HandleMessage(c, w.fragmented.op, tags, reaction, lost)
  <2>1. v = IF Web!Finished(w) THEN Web!Abort(w) ELSE IF f.fin THEN h ELSE x
    BY <1>2 DEF Web!FrameData
  <2>2. WsMid(x)
    <3> DEFINE part == [w.fragmented EXCEPT !.tags = tags]
    <3>1. x = [w EXCEPT !.fragmented = part]
      OBVIOUS
    <3> HIDE DEF part, x
    <3> QED
      BY <3>1, WsOther
  <2>3. WsMid(c)
    BY WsOther DEF Web!Cleared
  <2> HIDE DEF c, x, tags
  <2>4. WsMid(h)
    BY <2>3, HandleKeeps
  <2> QED
    BY <1>0, <2>1, <2>2, <2>4
<1>3. CASE f.op \notin Web!Control /\ f.op # "cont"
  <2> DEFINE first == [op |-> f.op, tags |-> <<n>>]
             x == [w EXCEPT !.fragmented = first]
             h == Web!HandleMessage(w, f.op, <<n>>, reaction, lost)
  <2>1. v = IF ~Web!Finished(w) THEN Web!Abort(w) ELSE IF f.fin THEN h ELSE x
    BY <1>3 DEF Web!FrameData
  <2>2. WsMid(x) /\ WsMid(h)
    BY WsOther, HandleKeeps
  <2> QED
    BY <1>0, <2>1, <2>2
<1> QED
  BY <1>1, <1>2, <1>3

LEMMA CountedKeeps ==
    ASSUME NEW w, WsMid(w)
    PROVE  WsMid(Web!Counted(w))
BY WsOther DEF Web!Counted

LEMMA ThenReadKeeps ==
    ASSUME NEW w, NEW what, WsMid(w)
    PROVE  WsMid(Web!ThenRead(w, what))
BY StartReadKeeps DEF Web!ThenRead

LEMMA Run13Keeps ==
    ASSUME NEW w, NEW what \in {"start", "length", "mask", "data"}, NEW f, NEW n,
           NEW reaction \in Web!Reactions, NEW lost, WsMid(w)
    PROVE  WsMid(Web!Run13(w, what, f, n, reaction, lost))
<1> DEFINE v == Web!Run13(w, what, f, n, reaction, lost)
<1>1. CASE what = "start"
  <2>1. v = IF f.broken THEN Web!Abort(w)
            ELSE Web!StartRead(w, IF f.long THEN "length" ELSE "mask")
    BY <1>1 DEF Web!Run13
  <2>2. WsMid(Web!Abort(w))
    BY AbortKeeps DEF WsMid
  <2>3. WsMid(Web!StartRead(w, IF f.long THEN "length" ELSE "mask"))
    BY StartReadKeeps
  <2> QED
    BY <2>1, <2>2, <2>3
<1>2. CASE what = "length"
  <2>1. v = Web!StartRead(w, "mask")
    BY <1>2 DEF Web!Run13
  <2> QED
    BY <2>1, StartReadKeeps
<1>3. CASE what = "mask"
  <2>1. v = Web!StartRead(w, "data")
    BY <1>3 DEF Web!Run13
  <2> QED
    BY <2>1, StartReadKeeps
<1>4. CASE what = "data"
  <2> DEFINE c == Web!Counted(w)
             d == Web!FrameData(c, f, n, reaction, lost)
  <2>1. v = Web!ThenRead(d, "start")
    BY <1>4 DEF Web!Run13
  <2>2. WsMid(c)
    BY CountedKeeps
  <2> HIDE DEF c
  <2>3. WsMid(d)
    BY <2>2, FrameDataKeeps
  <2> HIDE DEF d
  <2> QED
    BY <2>1, <2>3, ThenReadKeeps
<1> QED
  BY <1>1, <1>2, <1>3, <1>4

LEMMA Run76Keeps ==
    ASSUME NEW w, NEW what \in {"type", "payload", "indicator"}, NEW f, NEW n,
           NEW reaction \in Web!Reactions, NEW lost, WsMid(w)
    PROVE  WsMid(Web!Run76(w, what, f, n, reaction, lost))
<1> DEFINE v == Web!Run76(w, what, f, n, reaction, lost)
           c == Web!Counted(w)
<1>0. WsMid(Web!Abort(w)) /\ WsMid(c)
  BY AbortKeeps, CountedKeeps DEF WsMid
<1>1. CASE what = "type"
  <2>1. v = IF f.op = "unknown" THEN Web!Abort(w)
            ELSE Web!StartRead(w, IF f.op = "close" THEN "indicator" ELSE "payload")
    BY <1>1 DEF Web!Run76
  <2>2. WsMid(Web!StartRead(w, IF f.op = "close" THEN "indicator" ELSE "payload"))
    BY StartReadKeeps
  <2> QED
    BY <1>0, <2>1, <2>2
<1>2. CASE what = "payload"
  <2> DEFINE m == Web!OnMessage(c, <<n>>, reaction, lost)
             d == IF w.clientTerminated THEN w ELSE m
  <2>1. v = Web!ThenRead(d, "type")
    BY <1>2 DEF Web!Run76
  <2> HIDE DEF c
  <2>2. WsMid(m)
    BY <1>0, OnMessageKeeps
  <2> HIDE DEF m
  <2>3. WsMid(d)
    BY <2>2
  <2> HIDE DEF d
  <2> QED
    BY <2>1, <2>3, ThenReadKeeps
<1>3. CASE what = "indicator"
  <2> DEFINE x == Web!Close([c EXCEPT !.clientTerminated = TRUE], lost)
  <2>1. v = IF f.broken THEN Web!Abort(w) ELSE x
    BY <1>3 DEF Web!Run76
  <2> HIDE DEF c
  <2>2. WsMid(x)
    BY <1>0, ClientClosed
  <2> QED
    BY <1>0, <2>1, <2>2
<1> QED
  BY <1>1, <1>2, <1>3

LEMMA ChallengedKeeps ==
    ASSUME NEW w, NEW valid, NEW reaction \in Web!Reactions, NEW lost, WsMid(w)
    PROVE  WsMid(Web!Challenged(w, valid, reaction, lost))
<1> DEFINE u == Web!WriteFrame(w, lost)
           y == Web!React(u, reaction, lost)
           first == IF w.protocol = 13 THEN "start" ELSE "type"
<1>1. Web!Challenged(w, valid, reaction, lost) =
        IF ~valid THEN Web!Abort(w) ELSE IF ~u.ok THEN u ELSE Web!StartRead(y, first)
  BY DEF Web!Challenged
<1>2. WsMid(u) /\ WsMid(Web!Abort(w))
  BY WriteMid, AbortKeeps DEF WsMid
<1> HIDE DEF u, first
<1>3. WsMid(y)
  BY <1>2, ReactKeeps
<1> HIDE DEF y
<1>4. WsMid(Web!StartRead(y, first))
  BY <1>3, StartReadKeeps
<1> QED
  BY <1>1, <1>2, <1>4

-----------------------------------------------------------------------------
\* The close callback has its turn: the handler is told and lets go.
LEMMA ToldKeeps ==
    ASSUME NEW w, WsTypes(w), ~w.open, ~w.closeCb, w.attached, w.onClose = 0,
           w.closeFrames \in 0 .. 1,
           \A i \in DOMAIN w.queue : w.queue[i] # ClosedPiece
    PROVE  WsMid(Web!ConnectionClosed(w))
<1> DEFINE u == [w EXCEPT !.clientTerminated = TRUE, !.serverTerminated = TRUE]
           y == [u EXCEPT !.open = FALSE]
           x == [y EXCEPT !.waiting = FALSE]
           z == [x EXCEPT !.open = FALSE]
           v == [z EXCEPT !.attached = FALSE, !.onClose = @ + 1]
<1>0. WsRecord(w)
  BY DEF WsTypes
<1>1. /\ WsRecord(u) /\ u.serverTerminated = TRUE /\ u.clientTerminated = TRUE
      /\ u.protocol = w.protocol /\ u.open = FALSE /\ u.closeCb = FALSE /\ u.queue = w.queue
      /\ u.input = w.input /\ u.got = w.got /\ u.used = w.used /\ u.attached = w.attached
      /\ u.closeFrames = w.closeFrames /\ u.onClose = w.onClose /\ u.due = w.due
  BY <1>0 DEF WsRecord, WsFields, WsTypes
<1>2. /\ WsRecord(y) /\ y.serverTerminated = TRUE /\ y.clientTerminated = TRUE
      /\ y.protocol = w.protocol /\ y.open = FALSE /\ y.closeCb = FALSE /\ y.queue = w.queue
      /\ y.input = w.input /\ y.got = w.got /\ y.used = w.used /\ y.attached = w.attached
      /\ y.closeFrames = w.closeFrames /\ y.onClose = w.onClose /\ y.due = w.due
  <2> HIDE DEF u
  <2> QED
    BY <1>1 DEF WsRecord, WsFields
<1>3. Web!CloseStream(u) = y
  <2> HIDE DEF u
  <2> QED
    BY <1>2 DEF Web!CloseStream, Web!MaybeRunClose
<1>4. Web!Abort(w) = Web!Close(y, FALSE)
  BY <1>3 DEF Web!Abort
<1>5. /\ WsRecord(x) /\ x.serverTerminated = TRUE /\ x.clientTerminated = TRUE
      /\ x.waiting = FALSE
      /\ x.protocol = w.protocol /\ x.open = FALSE /\ x.closeCb = FALSE /\ x.queue = w.queue
      /\ x.input = w.input /\ x.got = w.got /\ x.used = w.used /\ x.attached = w.attached
      /\ x.closeFrames = w.closeFrames /\ x.onClose = w.onClose /\ x.due = w.due
  <2> HIDE DEF y
  <2> QED
    BY <1>2 DEF WsRecord, WsFields
<1>6. Web!Close(y, FALSE) = Web!CloseStream(x)
  <2> HIDE DEF y
  <2> QED
    BY <1>2 DEF Web!Close, Web!OncePerSide
<1>7. /\ WsRecord(z) /\ z.serverTerminated = TRUE /\ z.clientTerminated = TRUE
      /\ z.waiting = FALSE
      /\ z.protocol = w.protocol /\ z.open = FALSE /\ z.closeCb = FALSE /\ z.queue = w.queue
      /\ z.input = w.input /\ z.got = w.got /\ z.used = w.used /\ z.attached = w.attached
      /\ z.closeFrames = w.closeFrames /\ z.onClose = 0 /\ z.due = w.due
  <2> HIDE DEF x
  <2> QED
    BY <1>5 DEF WsRecord, WsFields
<1>8. Web!CloseStream(x) = z
  <2> HIDE DEF x
  <2> QED
    BY <1>7 DEF Web!CloseStream, Web!MaybeRunClose
<1>9. Web!ConnectionClosed(w) = v
  <2>1. Web!Abort(w) = z
    BY <1>4, <1>6, <1>8
  <2> HIDE DEF z
  <2> QED
    BY <2>1 DEF Web!ConnectionClosed
<1>10. /\ WsRecord(v) /\ v.serverTerminated = TRUE /\ v.clientTerminated = TRUE
       /\ v.waiting = FALSE
       /\ v.protocol = w.protocol /\ v.open = FALSE /\ v.closeCb = FALSE /\ v.queue = w.queue
       /\ v.input = w.input /\ v.got = w.got /\ v.used = w.used /\ v.attached = FALSE
       /\ v.closeFrames = w.closeFrames /\ v.onClose = 1 /\ v.due = w.due
  <2>1. v = [z EXCEPT !.attached = FALSE, !.onClose = 1]
    <3> HIDE DEF z
    <3> QED
      BY <1>7
  <2> HIDE DEF z, v
  <2> QED
    BY <1>7, <2>1 DEF WsRecord, WsFields
<1> HIDE DEF v
<1>11. WsTypes(v)
  BY <1>10 DEF WsTypes
<1>12. ClosedFirst(v)
  BY <1>10 DEF ClosedFirst
<1> QED
  BY <1>9, <1>10, <1>11, <1>12 DEF WsMid, WsBase, WsTimed

\* The first callback is taken from the queue.
Popped(w) == [w EXCEPT !.queue = Tail(@), !.due = @ - 1]
LEMMA PoppedKeeps ==
    ASSUME WsInv, ws.due > 0
    PROVE  LET w == Popped(ws)
               p == Head(ws.queue)
           IN  /\ WsTypes(w) /\ WsRecord(w)
               /\ w.protocol = ws.protocol /\ w.open = ws.open /\ w.closeCb = ws.closeCb
               /\ w.input = ws.input /\ w.got = ws.got /\ w.used = ws.used
               /\ w.attached = ws.attached /\ w.clientTerminated = ws.clientTerminated
               /\ w.serverTerminated = ws.serverTerminated /\ w.waiting = ws.waiting
               /\ w.closeFrames = ws.closeFrames /\ w.onClose = ws.onClose
               /\ p = ws.queue[1] /\ 1 \in DOMAIN ws.queue
               /\ p \in WsPieces(ws.protocol) \cup {ClosedPiece}
               /\ \A i \in DOMAIN w.queue : /\ i + 1 \in DOMAIN ws.queue /\ i + 1 # 1
                                            /\ w.queue[i] = ws.queue[i + 1]
               /\ p # ClosedPiece => WsMid(w)
<1>0. WsRecord(ws) /\ WsTypes(ws) /\ ClosedFirst(ws) /\ WsBase(ws) /\ WsMid(ws)
  BY DEF WsInv, WsMid, WsBase, WsTypes
<1> DEFINE tail == Tail(ws.queue)
           m == ws.due - 1
           w == [ws EXCEPT !.queue = tail, !.due = m]
           p == Head(ws.queue)
           P == WsPieces(ws.protocol) \cup {ClosedPiece}
<1>1. Popped(ws) = w
  BY DEF Popped
<1>3. /\ p = ws.queue[1] /\ 1 \in DOMAIN ws.queue /\ p \in P /\ tail \in Seq(P)
      /\ \A i \in DOMAIN tail : i + 1 \in DOMAIN ws.queue /\ i + 1 # 1 /\ tail[i] = ws.queue[i + 1]
      /\ m \in 0 .. Len(tail)
  <2>1. ws.queue \in Seq(P) /\ ws.due \in 0 .. Len(ws.queue) /\ ws.due > 0
    BY <1>0 DEF WsTypes
  <2> HIDE DEF P
  <2>2. ws.queue # <<>> /\ Len(ws.queue) \in Nat /\ DOMAIN ws.queue = 1 .. Len(ws.queue)
    BY <2>1
  <2>3. /\ Len(tail) = Len(ws.queue) - 1 /\ tail \in Seq(P) /\ DOMAIN tail = 1 .. Len(tail)
        /\ \A i \in DOMAIN tail : tail[i] = ws.queue[i + 1]
    BY <2>1, <2>2
  <2>4. m \in 0 .. Len(tail)
    BY <2>1, <2>2, <2>3
  <2>5. \A i \in DOMAIN tail : i + 1 \in DOMAIN ws.queue /\ i + 1 # 1
    BY <2>2, <2>3
  <2>6. p = ws.queue[1] /\ 1 \in DOMAIN ws.queue /\ p \in P
    BY <2>1, <2>2
  <2> QED
    BY <2>3, <2>4, <2>5, <2>6
<1>4. /\ WsRecord(w) /\ w.queue = tail /\ w.due = m
      /\ w.protocol = ws.protocol /\ w.open = ws.open /\ w.closeCb = ws.closeCb
      /\ w.input = ws.input /\ w.got = ws.got /\ w.used = ws.used /\ w.attached = ws.attached
      /\ w.clientTerminated = ws.clientTerminated /\ w.serverTerminated = ws.serverTerminated
      /\ w.waiting = ws.waiting /\ w.closeFrames = ws.closeFrames /\ w.onClose = ws.onClose
  <2> HIDE DEF tail, m
  <2> QED
    BY <1>0 DEF WsRecord, WsFields
<1> HIDE DEF w, tail, m, p
<1>5. WsTypes(w)
  BY <1>0, <1>3, <1>4 DEF WsTypes
<1>6. ASSUME p # ClosedPiece PROVE WsMid(w)
  <2>1. ws.closeCb \/ ~ws.attached
    BY <1>0, <1>3, <1>6 DEF ClosedFirst
  <2>2. \A i \in DOMAIN w.queue : w.queue[i] # ClosedPiece
    BY <1>0, <1>3, <1>4, <1>6 DEF ClosedFirst
  <2> QED
    BY <1>0, <1>4, <1>5, <2>1, <2>2 DEF WsMid, WsBase, WsTimed, ClosedFirst
<1> QED
  BY <1>1, <1>3, <1>4, <1>5, <1>6 DEF p

\* A callback of the stream, from the head of the queue.
LEMMA CallbackKeeps ==
    ASSUME WsInv, Web!StreamCallback
    PROVE  WsMid(ws') /\ WsTold(ws')
<1>0. WsRecord(ws) /\ WsTypes(ws) /\ ClosedFirst(ws) /\ WsBase(ws) /\ WsMid(ws) /\ ws.due > 0
  BY DEF WsInv, WsMid, WsBase, WsTypes, Web!StreamCallback
<1> DEFINE w == Popped(ws)
           p == Head(ws.queue)
<1>1. PICK reaction \in Web!Reactions, lost \in Web!Losses, valid \in BOOLEAN :
        LET f == IF p.frame = 0 THEN [op |-> "none"] ELSE frames[p.frame]
            v == CASE p.what = "closed" -> Web!ConnectionClosed(w)
                   [] p.what = "challenge" -> Web!Challenged(w, valid, reaction, lost)
                   [] p.what \in {"start", "length", "mask", "data"} ->
                         Web!Run13(w, p.what, f, p.frame, reaction, lost)
                   [] p.what \in {"type", "payload", "indicator"} ->
                         Web!Run76(w, p.what, f, p.frame, reaction, lost)
        IN  ws' = [IF v.ok THEN Web!MaybeRunClose(v) ELSE Web!CloseStream(v) EXCEPT !.ok = TRUE]
  BY DEF Web!StreamCallback, Popped
<1> DEFINE f == IF p.frame = 0 THEN [op |-> "none"] ELSE frames[p.frame]
           v == CASE p.what = "closed" -> Web!ConnectionClosed(w)
                  [] p.what = "challenge" -> Web!Challenged(w, valid, reaction, lost)
                  [] p.what \in {"start", "length", "mask", "data"} ->
                        Web!Run13(w, p.what, f, p.frame, reaction, lost)
                  [] p.what \in {"type", "payload", "indicator"} ->
                        Web!Run76(w, p.what, f, p.frame, reaction, lost)
           x == IF v.ok THEN Web!MaybeRunClose(v) ELSE Web!CloseStream(v)
<1>2. ws' = [x EXCEPT !.ok = TRUE]
  BY <1>1
<1>3. /\ WsTypes(w) /\ WsRecord(w)
      /\ w.protocol = ws.protocol /\ w.open = ws.open /\ w.closeCb = ws.closeCb
      /\ w.input = ws.input /\ w.got = ws.got /\ w.used = ws.used
      /\ w.attached = ws.attached /\ w.clientTerminated = ws.clientTerminated
      /\ w.serverTerminated = ws.serverTerminated /\ w.waiting = ws.waiting
      /\ w.closeFrames = ws.closeFrames /\ w.onClose = ws.onClose
      /\ p = ws.queue[1] /\ 1 \in DOMAIN ws.queue
      /\ p \in WsPieces(ws.protocol) \cup {ClosedPiece}
      /\ \A i \in DOMAIN w.queue : /\ i + 1 \in DOMAIN ws.queue /\ i + 1 # 1
                                   /\ w.queue[i] = ws.queue[i + 1]
      /\ p # ClosedPiece => WsMid(w)
  BY <1>0, PoppedKeeps
<1> HIDE DEF w
<1>6. WsMid(v)
  <2>1. CASE p = ClosedPiece
    <3>1. v = Web!ConnectionClosed(w)
      BY <2>1 DEF ClosedPiece, Web!Piece
    <3> HIDE DEF p, v
    <3>2. /\ ~ws.closeCb /\ ws.attached /\ ~ws.open
          /\ \A i \in DOMAIN ws.queue : ws.queue[i] = ClosedPiece => i = 1
      BY <1>0, <1>3, <2>1 DEF ClosedFirst
    <3>3. \A i \in DOMAIN w.queue : w.queue[i] # ClosedPiece
      BY <1>3, <3>2
    <3>4. w.onClose = 0 /\ w.closeFrames \in 0 .. 1
      BY <1>0, <1>3, <3>2 DEF WsBase
    <3> QED
      BY <1>3, <3>1, <3>2, <3>3, <3>4, <1>0, ToldKeeps DEF WsBase
  <2>2. CASE p # ClosedPiece
    <3>1. WsMid(w)
      BY <1>3, <2>2
    <3>4. /\ ws.protocol \in {13, 76}
          /\ p.what \in {"challenge"} \cup
                IF ws.protocol = 13 THEN {"start", "length", "mask", "data"}
                ELSE {"type", "payload", "indicator"}
      <4> HIDE DEF p
      <4> QED
        BY <1>0, <1>3, <2>2 DEF WsPieces, WsTypes
    <3> HIDE DEF p, f
    <3>5. CASE p.what = "challenge"
      <4>1. v = Web!Challenged(w, valid, reaction, lost)
        BY <3>5
      <4> QED
        BY <3>1, <4>1, ChallengedKeeps
    <3>6. CASE p.what # "challenge" /\ ws.protocol = 13
      <4>1. v = Web!Run13(w, p.what, f, p.frame, reaction, lost)
        BY <3>4, <3>6
      <4>2. p.what \in {"start", "length", "mask", "data"}
        BY <3>4, <3>6
      <4> QED
        BY <3>1, <4>1, <4>2, Run13Keeps
    <3>7. CASE p.what # "challenge" /\ ws.protocol # 13
      <4>1. v = Web!Run76(w, p.what, f, p.frame, reaction, lost)
        BY <3>4, <3>7
      <4>2. p.what \in {"type", "payload", "indicator"}
        BY <3>4, <3>7
      <4> QED
        BY <3>1, <4>1, <4>2, Run76Keeps
    <3> QED
      BY <3>5, <3>6, <3>7
  <2> QED
    BY <2>1, <2>2
<1> HIDE DEF v
<1>7. WsMid(x) /\ WsTold(x)
  BY <1>6, MaybeKeeps, StreamClosedMid DEF WsMid, WsTimed
<1> HIDE DEF x
<1>8. WsMid([x EXCEPT !.ok = TRUE])
  BY <1>7, WsOther
<1>9. WsAlike([x EXCEPT !.ok = TRUE], x)
  BY <1>7 DEF WsAlike, WsMid, WsBase, WsTypes, WsRecord, WsFields
<1> QED
  BY <1>2, <1>7, <1>8, <1>9, WsToldAlike

\* What was read, or the end of the stream, on an event.
LEMMA PollKeeps ==
    ASSUME WsInv, Web!PollRead
    PROVE  WsMid(ws') /\ WsTold(ws')
<1>0. WsMid(ws) /\ ws.open
  BY DEF WsInv, Web!PollRead
<1>1. CASE link = "reset"
  <2>1. ws' = Web!CloseStream(ws)
    BY <1>1 DEF Web!PollRead
  <2> QED
    BY <1>0, <2>1, StreamClosedMid
<1>2. CASE link # "reset"
  <2> DEFINE b == link = "up"
             u == [Web!Fill(ws) EXCEPT !.open = b]
             x == Web!Deliver(u)
  <2>1. ws' = Web!MaybeRunClose(x)
    BY <1>2 DEF Web!PollRead
  <2>2. b \in BOOLEAN
    OBVIOUS
  <2> HIDE DEF b
  <2>3. WsMid(u)
    BY <1>0, <2>2, FillKeeps
  <2> HIDE DEF u
  <2>4. WsMid(x)
    <3>1. u.got <= Len(u.input)
      BY <2>3 DEF WsMid, WsBase, WsTypes
    <3> QED
      BY <2>3, <3>1, DeliverKeeps
  <2> HIDE DEF x
  <2> QED
    BY <2>1, <2>4, MaybeKeeps DEF WsMid, WsTimed
<1> QED
  BY <1>1, <1>2

\* What a client sends comes in pieces of its protocol.
LEMMA PiecesAre ==
    ASSUME NEW w, w.protocol \in {13, 76}, NEW f, NEW n \in Nat
    PROVE  LET all == Web!PiecesOf(w, f, n)
               P == WsPieces(w.protocol)
           IN  all \in Seq(P) /\ Len(all) >= 1 /\ SubSeq(all, 1, 1) \in Seq(P)
<1> DEFINE all == Web!PiecesOf(w, f, n)
           P == WsPieces(w.protocol)
<1>0. all \in Seq(P) /\ Len(all) >= 1
  <2>1. CASE w.protocol = 76
    <3> DEFINE a == Web!Piece("type", n)
               b == Web!Piece(IF f.op = "close" THEN "indicator" ELSE "payload", n)
    <3>1. a \in P /\ b \in P
      BY <2>1 DEF WsPieces, Web!Piece
    <3>2. all = <<a, b>>
      BY <2>1 DEF Web!PiecesOf
    <3> HIDE DEF a, b, P
    <3> QED
      BY <3>1, <3>2
  <2>2. CASE w.protocol # 76
    <3> DEFINE a == Web!Piece("start", n)
               l == Web!Piece("length", n)
               k == Web!Piece("mask", n)
               d == Web!Piece("data", n)
    <3>1. a \in P /\ l \in P /\ k \in P /\ d \in P
      <4>1. w.protocol = 13
        BY <2>2
      <4> QED
        BY <4>1 DEF WsPieces, Web!Piece
    <3>2. all = <<a>> \o (IF f.long THEN <<l>> ELSE <<>>) \o <<k, d>>
      BY <2>2 DEF Web!PiecesOf
    <3> HIDE DEF a, l, k, d, P
    <3>3. <<a>> \in Seq(P) /\ <<l>> \in Seq(P) /\ <<>> \in Seq(P) /\ <<k, d>> \in Seq(P)
      BY <3>1
    <3>4. Len(<<a>>) = 1 /\ Len(<<k, d>>) = 2
      OBVIOUS
    <3> DEFINE mid == IF f.long THEN <<l>> ELSE <<>>
    <3>5. mid \in Seq(P)
      BY <3>3
    <3> HIDE DEF mid
    <3>6. <<a>> \o mid \in Seq(P) /\ Len(<<a>> \o mid) = 1 + Len(mid)
      BY <3>3, <3>4, <3>5
    <3> DEFINE head == <<a>> \o mid
    <3>7. head \in Seq(P) /\ Len(head) >= 1
      BY <3>5, <3>6
    <3>8. all = head \o <<k, d>>
      BY <3>2 DEF mid
    <3> HIDE DEF head
    <3> QED
      BY <3>3, <3>4, <3>7, <3>8
  <2> QED
    BY <2>1, <2>2
<1> HIDE DEF all, P
<1>1. SubSeq(all, 1, 1) \in Seq(P)
  BY <1>0
<1> QED
  BY <1>0, <1>1 DEF all, P

LEMMA SentKeeps ==
    ASSUME WsInv, NEW f \in Frames, Web!ClientSends(f)
    PROVE  WsInv'
<1>0. WsMid(ws) /\ WsTold(ws) /\ WsRecord(ws) /\ WsTypes(ws) /\ frames \in Seq(Frames)
  BY DEF WsInv, WsMid, WsBase, WsTypes
<1>1. frames' \in Seq(Frames)
  BY <1>0 DEF Web!ClientSends
<1> DEFINE n == Len(frames) + 1
           all == Web!PiecesOf(ws, f, n)
           P == WsPieces(ws.protocol)
<1>2. n \in Nat
  BY <1>0
<1>3. PICK torn \in BOOLEAN :
        ws' = [ws EXCEPT !.input = @ \o (IF torn THEN SubSeq(all, 1, 1) ELSE all)]
  BY DEF Web!ClientSends
<1>4. all \in Seq(P) /\ Len(all) >= 1 /\ SubSeq(all, 1, 1) \in Seq(P)
  <2> HIDE DEF n
  <2>1. ws.protocol \in {13, 76}
    BY <1>0 DEF WsTypes
  <2> QED
    BY <1>2, <2>1, PiecesAre
<1> HIDE DEF all
<1> DEFINE more == IF torn THEN SubSeq(all, 1, 1) ELSE all
<1>5. more \in Seq(P)
  BY <1>4
<1> DEFINE longer == ws.input \o more
           w == [ws EXCEPT !.input = longer]
<1>6. ws' = w
  BY <1>3
<1> HIDE DEF more
<1>7. longer \in Seq(P) /\ Len(longer) >= Len(ws.input) /\ Len(longer) \in Nat
  <2> HIDE DEF P
  <2>1. ws.input \in Seq(P)
    BY <1>0 DEF WsTypes, P
  <2> QED
    BY <1>5, <2>1
<1> HIDE DEF longer
<1>8. /\ WsRecord(w) /\ w.due = ws.due
      /\ w.protocol = ws.protocol /\ w.open = ws.open /\ w.closeCb = ws.closeCb
      /\ w.queue = ws.queue /\ w.input = longer
      /\ w.got = ws.got /\ w.used = ws.used /\ w.attached = ws.attached
      /\ w.clientTerminated = ws.clientTerminated /\ w.serverTerminated = ws.serverTerminated
      /\ w.waiting = ws.waiting /\ w.closeFrames = ws.closeFrames /\ w.onClose = ws.onClose
  BY <1>0 DEF WsRecord, WsFields
<1> HIDE DEF w
<1>9. w.got <= Len(w.input)
  <2>1. ws.got \in Nat /\ ws.got <= Len(ws.input) /\ Len(ws.input) \in Nat
    BY <1>0 DEF WsTypes
  <2> QED
    BY <1>7, <1>8, <2>1
<1>10. WsTypes(w)
  BY <1>0, <1>7, <1>8, <1>9 DEF WsTypes
<1>11. WsMid(w) /\ WsTold(w)
  BY <1>0, <1>8, <1>10 DEF WsMid, WsBase, WsTimed, WsTold, ClosedFirst
<1> QED
  BY <1>1, <1>6, <1>11 DEF WsInv

LEMMA ChallengeKeeps ==
    ASSUME WsInv, Web!ClientChallenges
    PROVE  WsMid(ws') /\ WsTold(ws')
<1>0. WsMid(ws) /\ WsTold(ws) /\ WsRecord(ws) /\ WsTypes(ws)
  BY DEF WsInv, WsMid, WsBase, WsTypes
<1> DEFINE sent0 == <<Web!Piece("challenge", 0)>>
           w == [ws EXCEPT !.input = sent0]
<1>1. ws' = w /\ ws.protocol = 76 /\ ws.input = <<>>
  BY DEF Web!ClientChallenges, Web!ChallengePiece
<1>2. sent0 \in Seq(WsPieces(76)) /\ Len(sent0) = 1
  <2>1. Web!Piece("challenge", 0) \in WsPieces(76)
    BY DEF WsPieces, Web!Piece
  <2> QED
    BY <2>1
<1>3. ws.got = 0 /\ ws.used = 0
  <2>1. ws.got \in Nat /\ ws.used \in Nat /\ ws.used <= ws.got /\ ws.got <= Len(<<>>)
    BY <1>0, <1>1 DEF WsTypes
  <2>2. Len(<<>>) = 0
    OBVIOUS
  <2> QED
    BY <2>1, <2>2
<1> HIDE DEF sent0
<1>4. /\ WsRecord(w) /\ w.due = ws.due
      /\ w.protocol = ws.protocol /\ w.open = ws.open /\ w.closeCb = ws.closeCb
      /\ w.queue = ws.queue /\ w.input = sent0
      /\ w.got = ws.got /\ w.used = ws.used /\ w.attached = ws.attached
      /\ w.clientTerminated = ws.clientTerminated /\ w.serverTerminated = ws.serverTerminated
      /\ w.waiting = ws.waiting /\ w.closeFrames = ws.closeFrames /\ w.onClose = ws.onClose
  BY <1>0 DEF WsRecord, WsFields
<1> HIDE DEF w
<1>5. WsTypes(w)
  BY <1>0, <1>1, <1>2, <1>3, <1>4 DEF WsTypes
<1> QED
  BY <1>0, <1>1, <1>4, <1>5 DEF WsMid, WsBase, WsTimed, WsTold, ClosedFirst

LEMMA WsNextKeeps ==
    ASSUME WsInv, Web!WSNext
    PROVE  WsInv'
<1>0. WsMid(ws) /\ WsTold(ws) /\ WsBase(ws) /\ WsRecord(ws) /\ frames \in Seq(Frames)
  BY DEF WsInv, WsMid, WsBase, WsTypes
<1>1. ASSUME Web!Iterate PROVE WsInv'
  <2> DEFINE n == Len(ws.queue)
             w == [ws EXCEPT !.due = n]
  <2>1. n \in 0 .. Len(ws.queue)
    <3>1. ws.due \in 0 .. Len(ws.queue) /\ n \in Nat
      <4>1. ws.due \in 0 .. Len(ws.queue) /\ ws.queue \in Seq(WsPieces(ws.protocol) \cup {ClosedPiece})
        BY <1>0 DEF WsBase, WsTypes
      <4> QED
        BY <4>1
    <3> QED
      BY <3>1
  <2>2. ws' = w /\ frames' = frames
    BY <1>1 DEF Web!Iterate
  <2> HIDE DEF n
  <2>3. WsMid(w)
    BY <1>0, <2>1, WsOther
  <2>4. WsTold(w)
    BY <1>0 DEF WsRecord, WsFields, WsTold
  <2> QED
    BY <1>0, <2>2, <2>3, <2>4 DEF WsInv
<1>2. ASSUME Web!StreamCallback PROVE WsInv'
  <2>1. frames' = frames
    BY <1>2 DEF Web!StreamCallback
  <2> QED
    BY <1>0, <1>2, <2>1, CallbackKeeps DEF WsInv
<1>3. ASSUME Web!PollRead PROVE WsInv'
  <2>1. frames' = frames
    BY <1>3 DEF Web!PollRead
  <2> QED
    BY <1>0, <1>3, <2>1, PollKeeps DEF WsInv
<1>4. ASSUME Web!Timeout PROVE WsInv'
  <2>1. ws' = Web!Abort(ws) /\ frames' = frames
    BY <1>4 DEF Web!Timeout
  <2> QED
    BY <1>0, <2>1, AbortKeeps DEF WsInv
<1>5. ASSUME Web!AppClose PROVE WsInv'
  <2>1. PICK lost \in Web!Losses : ws' = Web!Close(ws, lost)
    BY <1>5 DEF Web!AppClose
  <2>2. frames' = frames
    BY <1>5 DEF Web!AppClose
  <2> QED
    BY <1>0, <2>1, <2>2, CloseKeeps DEF WsInv
<1>6. ASSUME Web!AppWrite PROVE WsInv'
  <2>1. PICK lost \in Web!Losses : ws' = [Web!WriteFrame(ws, lost) EXCEPT !.ok = TRUE]
    BY <1>6 DEF Web!AppWrite
  <2>2. frames' = frames
    BY <1>6 DEF Web!AppWrite
  <2> DEFINE x == Web!WriteFrame(ws, lost)
  <2>3. WsMid(x) /\ WsTold(x)
    BY <1>0, WriteMid
  <2>4. ws' = [x EXCEPT !.ok = TRUE]
    BY <2>1
  <2> HIDE DEF x
  <2>5. WsMid([x EXCEPT !.ok = TRUE])
    BY <2>3, WsOther
  <2>6. WsAlike([x EXCEPT !.ok = TRUE], x)
    BY <2>3 DEF WsAlike, WsMid, WsBase, WsTypes, WsRecord, WsFields
  <2> QED
    BY <1>0, <2>2, <2>3, <2>4, <2>5, <2>6, WsToldAlike DEF WsInv
<1>7. ASSUME NEW f \in Frames, Web!ClientSends(f) PROVE WsInv'
  BY <1>7, SentKeeps
<1>8. ASSUME Web!ClientChallenges PROVE WsInv'
  <2>1. frames' = frames
    BY <1>8 DEF Web!ClientChallenges
  <2> QED
    BY <1>0, <1>8, <2>1, ChallengeKeeps DEF WsInv
<1>9. ASSUME Web!ClientGoes PROVE WsInv'
  BY <1>9 DEF Web!ClientGoes, WsInv
<1> QED
  BY <1>1, <1>2, <1>3, <1>4, <1>5, <1>6, <1>7, <1>8, <1>9 DEF Web!WSNext

OpenedWith(w, protocol, opening) ==
    /\ WsRecord(w) /\ w.protocol = protocol /\ w.open = TRUE /\ w.closeCb = TRUE
    /\ w.queue = opening /\ w.due = Len(opening) /\ w.input = opening
    /\ w.got = Len(opening) /\ w.used = Len(opening)
    /\ w.attached = TRUE /\ w.clientTerminated = FALSE /\ w.serverTerminated = FALSE
    /\ w.waiting = FALSE /\ w.closeFrames = 0 /\ w.onClose = 0
    /\ protocol = 13 => w.reading = "none"
    /\ w.read = 0 /\ w.delivered = <<>> /\ w.fragmented = Web!NoMessage
LEMMA OpenedIs ==
    /\ OpenedWith(Web!Opened(13), 13, <<Web!Piece("challenge", 0)>>)
    /\ OpenedWith(Web!Opened(76), 76, <<>>)
<1>1. OpenedWith(Web!Opened(13), 13, <<Web!Piece("challenge", 0)>>)
  <2> DEFINE s == <<Web!Piece("challenge", 0)>>
             n == Len(s)
             w == Web!Opened(13)
  <2>1. w = [protocol |-> 13, open |-> TRUE, closeCb |-> TRUE, queue |-> s, due |-> n,
             reading |-> "none", input |-> s, got |-> n, used |-> n, attached |-> TRUE,
             clientTerminated |-> FALSE, serverTerminated |-> FALSE, waiting |-> FALSE,
             fragmented |-> Web!NoMessage, ok |-> TRUE, delivered |-> <<>>, read |-> 0,
             closeFrames |-> 0, onClose |-> 0]
    BY DEF Web!Opened, Web!ChallengePiece
  <2> HIDE DEF s, n, w
  <2>2. WsRecord(w)
    BY <2>1 DEF WsRecord, WsFields
  <2>3. OpenedWith(w, 13, s)
    BY <2>1, <2>2 DEF OpenedWith, n
  <2> QED
    BY <2>3 DEF w, s
<1>2. OpenedWith(Web!Opened(76), 76, <<>>)
  <2> DEFINE s == <<>>
             n == Len(s)
             w == Web!Opened(76)
  <2>1. w = [protocol |-> 76, open |-> TRUE, closeCb |-> TRUE, queue |-> s, due |-> n,
             reading |-> "challenge", input |-> s, got |-> n, used |-> n, attached |-> TRUE,
             clientTerminated |-> FALSE, serverTerminated |-> FALSE, waiting |-> FALSE,
             fragmented |-> Web!NoMessage, ok |-> TRUE, delivered |-> <<>>, read |-> 0,
             closeFrames |-> 0, onClose |-> 0]
    BY DEF Web!Opened
  <2> HIDE DEF n, w
  <2>2. WsRecord(w)
    BY <2>1 DEF WsRecord, WsFields
  <2>3. OpenedWith(w, 76, <<>>)
    BY <2>1, <2>2 DEF OpenedWith, n
  <2> QED
    BY <2>3 DEF w
<1> QED
  BY <1>1, <1>2

LEMMA OpenedInv ==
    ASSUME NEW protocol \in {13, 76}
    PROVE  WsMid(Web!Opened(protocol)) /\ WsTold(Web!Opened(protocol))
<1> DEFINE w == Web!Opened(protocol)
           a == Web!Piece("challenge", 0)
           opening == IF protocol = 13 THEN <<a>> ELSE <<>>
           n == Len(opening)
<1>1. /\ WsRecord(w) /\ w.protocol = protocol /\ w.open = TRUE /\ w.closeCb = TRUE
      /\ w.queue = opening /\ w.due = n /\ w.input = opening /\ w.got = n /\ w.used = n
      /\ w.attached = TRUE /\ w.clientTerminated = FALSE /\ w.serverTerminated = FALSE
      /\ w.waiting = FALSE /\ w.closeFrames = 0 /\ w.onClose = 0
  <2>1. OpenedWith(w, protocol, opening)
    <3>1. CASE protocol = 13
      BY <3>1, OpenedIs
    <3>2. CASE protocol = 76
      BY <3>2, OpenedIs
    <3> QED
      BY <3>1, <3>2
  <2> HIDE DEF w, opening
  <2> QED
    BY <2>1 DEF OpenedWith, n
<1> HIDE DEF w
<1>2. a \in WsPieces(protocol) /\ a # ClosedPiece
  BY DEF WsPieces, ClosedPiece, Web!Piece
<1> HIDE DEF a
<1>3. /\ opening \in Seq(WsPieces(protocol)) /\ opening \in Seq(WsPieces(protocol) \cup {ClosedPiece})
      /\ n \in Nat /\ \A i \in DOMAIN opening : opening[i] # ClosedPiece
  <2>1. CASE protocol = 13
    <3>1. opening = <<a>>
      BY <2>1
    <3>2. /\ <<a>> \in Seq(WsPieces(protocol)) /\ <<a>> \in Seq(WsPieces(protocol) \cup {ClosedPiece})
          /\ Len(<<a>>) = 1 /\ \A i \in DOMAIN <<a>> : <<a>>[i] = a
      BY <1>2
    <3> QED
      BY <1>2, <3>1, <3>2
  <2>2. CASE protocol # 13
    <3>1. opening = <<>>
      BY <2>2
    <3> QED
      BY <3>1
  <2> QED
    BY <2>1, <2>2
<1> HIDE DEF opening
<1>4. WsTypes(w)
  <2>1. n \in 0 .. Len(opening) /\ n <= Len(opening)
    BY <1>3
  <2> HIDE DEF n
  <2>2. /\ w.due \in 0 .. Len(w.queue)
        /\ w.got \in Nat /\ w.used \in Nat /\ w.used <= w.got /\ w.got <= Len(w.input)
    BY <1>1, <1>3, <2>1
  <2>3. /\ w.input \in Seq(WsPieces(w.protocol))
        /\ w.queue \in Seq(WsPieces(w.protocol) \cup {ClosedPiece})
    BY <1>1, <1>3
  <2> QED
    BY <1>1, <2>2, <2>3 DEF WsTypes
<1>5. ClosedFirst(w)
  BY <1>1, <1>3 DEF ClosedFirst
<1> QED
  BY <1>1, <1>4, <1>5 DEF w, WsMid, WsBase, WsTimed, WsTold

(* However the application, the client, the timer and errors interleave,   *)
(* on_close runs once, one close frame is sent at most, and a connection   *)
(* that is closed does not linger, in both protocols, for any frames.      *)
THEOREM ClosedAlwaysOnce == ServicesSpec => []ClosedOnce
<1>1. ServicesInit => WsInv
  <2>1. ServicesInit => ws \in {Web!Opened(13), Web!Opened(76)} /\ frames = <<>>
    BY DEF ServicesInit, Web!Init
  <2>2. <<>> \in Seq(Frames)
    OBVIOUS
  <2> QED
    BY <2>1, <2>2, OpenedInv DEF WsInv
<1>2. WsInv /\ [ServicesNext]_servicesVars => WsInv'
  <2>1. ASSUME WsInv, UNCHANGED wsVars PROVE WsInv'
    BY <2>1 DEF WsInv, wsVars
  <2> QED
    BY <2>1, PartsAlone, WsNextKeeps
<1> QED
  BY <1>1, <1>2, WsClosedOnce, PTL DEF ServicesSpec

-----------------------------------------------------------------------------
(* What frames say, whoever reads them.                                    *)

IsData(f) == f.op \notin Web!Control
DataIn(fs, n) == {i \in 1 .. n : IsData(fs[i])}
LastIn(fs, n, k) == k \in DataIn(fs, n) /\ \A i \in DataIn(fs, n) : i <= k
\* A message was begun, and its last frame is still to come.
BegunBefore(fs, n) == \E k \in DataIn(fs, n) : LastIn(fs, n, k) /\ ~fs[k].fin
LegalIn(fs, i) ==
    /\ ~fs[i].broken
    /\ fs[i].op \notin {"garbled", "unknown", "close"}
    /\ ~IsData(fs[i]) => fs[i].fin
    /\ IsData(fs[i]) => (fs[i].op = "cont" <=> BegunBefore(fs, i - 1))

\* The message of which t are the frames, k the last of them.
IsMessage(fs, t, k) ==
    /\ t \in Seq(Nat) /\ t # <<>> /\ t[Len(t)] = k
    /\ \A i \in 2 .. Len(t) : t[i - 1] < t[i]
    /\ \E a \in DataIn(fs, k) :
          /\ fs[a].op # "cont" /\ \A i \in DataIn(fs, k) : i > a => fs[i].op = "cont"
          /\ \A i \in Nat : (\E j \in 1 .. Len(t) : t[j] = i) <=> i \in DataIn(fs, k) /\ i >= a

\* d are the messages that are whole among the first n frames.
LastOf(t) == t[Len(t)]
DeliveredIn(fs, d, n) ==
    /\ d \in Seq(Seq(Nat))
    /\ \A m \in 1 .. Len(d) : /\ IsMessage(fs, d[m], LastOf(d[m]))
                              /\ LastOf(d[m]) \in DataIn(fs, n) /\ fs[LastOf(d[m])].fin
    /\ \A m \in 2 .. Len(d) : LastOf(d[m - 1]) < LastOf(d[m])
    /\ \A k \in DataIn(fs, n) : fs[k].fin => \E m \in 1 .. Len(d) : LastOf(d[m]) = k

\* The fragments g that are kept after n frames: those of a message that is begun.
KeptIn(fs, g, n) ==
    IF g = Web!NoMessage THEN ~BegunBefore(fs, n)
    ELSE /\ g.op \in {"text", "binary"}
         /\ \E k \in DataIn(fs, n) : LastIn(fs, n, k) /\ ~fs[k].fin /\ IsMessage(fs, g.tags, k)

\* The first n frames are legal, and d was delivered of them.
WholeIn(fs, n, d) == (\A i \in 1 .. n : LegalIn(fs, i)) /\ DeliveredIn(fs, d, n)
\* Before the n-th, there was one that is not.
LostIn(fs, n, d) == \E m \in 0 .. n - 1 : WholeIn(fs, m, d) /\ ~LegalIn(fs, m + 1)
\* A connection that goes on has met no other frame, or keeps what it will not deliver.
NoText == {"garbled", "unknown"}
Says(fs, n, d, g, dead) ==
    \/ WholeIn(fs, n, d) /\ (dead \/ KeptIn(fs, g, n))
    \/ LostIn(fs, n, d) /\ (dead \/ g.op \in NoText)

LEMMA DataMore ==
    ASSUME NEW fs, NEW n \in Nat
    PROVE  DataIn(fs, n + 1) = IF IsData(fs[n + 1]) THEN DataIn(fs, n) \cup {n + 1} ELSE DataIn(fs, n)
<1>1. 1 .. n + 1 = (1 .. n) \cup {n + 1}
  OBVIOUS
<1> QED
  BY <1>1 DEF DataIn

LEMMA DataBound ==
    ASSUME NEW fs, NEW n \in Nat
    PROVE  DataIn(fs, n) \subseteq 1 .. n
BY DEF DataIn

LEMMA DataUpTo ==
    ASSUME NEW fs, NEW n \in Nat, NEW k, LastIn(fs, n, k)
    PROVE  DataIn(fs, k) = DataIn(fs, n)
<1>1. k \in 1 .. n /\ \A i \in 1 .. n : IsData(fs[i]) => i <= k
  BY DEF LastIn, DataIn
<1> QED
  BY <1>1 DEF DataIn

\* The next frame: one of data is then the last of them.
LEMMA LastMore ==
    ASSUME NEW fs, NEW n \in Nat, IsData(fs[n + 1])
    PROVE  \A k : LastIn(fs, n + 1, k) <=> k = n + 1
<1>1. DataIn(fs, n + 1) = DataIn(fs, n) \cup {n + 1}
  BY DataMore
<1>2. \A i \in DataIn(fs, n) : i \in Nat /\ i <= n
  BY DataBound
<1> QED
  BY <1>1, <1>2 DEF LastIn

LEMMA BegunMore ==
    ASSUME NEW fs, NEW n \in Nat
    PROVE  BegunBefore(fs, n + 1) <=> IF IsData(fs[n + 1]) THEN ~fs[n + 1].fin
                                      ELSE BegunBefore(fs, n)
<1>1. CASE IsData(fs[n + 1])
  <2>1. n + 1 \in DataIn(fs, n + 1)
    BY <1>1, DataMore
  <2> QED
    BY <1>1, <2>1, LastMore DEF BegunBefore
<1>2. CASE ~IsData(fs[n + 1])
  BY <1>2, DataMore DEF BegunBefore, LastIn
<1> QED
  BY <1>1, <1>2

LEMMA MessageOne ==
    ASSUME NEW fs, NEW n \in Nat, IsData(fs[n + 1]), fs[n + 1].op # "cont"
    PROVE  IsMessage(fs, <<n + 1>>, n + 1)
<1> DEFINE k == n + 1
           t == <<k>>
<1>1. t \in Seq(Nat) /\ t # <<>> /\ Len(t) = 1 /\ t[1] = k
  OBVIOUS
<1>2. k \in DataIn(fs, k) /\ \A i \in DataIn(fs, k) : i \in Nat /\ i <= k
  <2>1. k \in DataIn(fs, k)
    BY DataMore
  <2>2. DataIn(fs, k) \subseteq 1 .. k
    BY DEF DataIn
  <2> QED
    BY <2>1, <2>2
<1>3. \A i \in DataIn(fs, k) : i >= k <=> i = k
  BY <1>2
<1>4. \A i \in Nat : (\E j \in 1 .. Len(t) : t[j] = i) <=> i = k
  BY <1>1
<1>5. \A i \in Nat : (\E j \in 1 .. Len(t) : t[j] = i) <=> i \in DataIn(fs, k) /\ i >= k
  BY <1>2, <1>3, <1>4
<1>6. \A i \in 2 .. Len(t) : t[i - 1] < t[i]
  BY <1>1
<1>7. \A i \in DataIn(fs, k) : ~(i > k)
  BY <1>2
<1>8. t[Len(t)] = k /\ fs[k].op # "cont"
  BY <1>1
<1> HIDE DEF t, k
<1> QED
  BY <1>1, <1>2, <1>5, <1>6, <1>7, <1>8 DEF IsMessage, t, k

LEMMA MessageMore ==
    ASSUME NEW fs, NEW n \in Nat, NEW k, LastIn(fs, n, k), NEW t, IsMessage(fs, t, k),
           IsData(fs[n + 1]), fs[n + 1].op = "cont"
    PROVE  IsMessage(fs, Append(t, n + 1), n + 1)
<1> DEFINE j == n + 1
           u == Append(t, j)
<1>1. DataIn(fs, j) = DataIn(fs, k) \cup {j}
  BY DataMore, DataUpTo
<1>2. \A i \in DataIn(fs, k) : i \in Nat /\ i <= n
  <2>1. DataIn(fs, k) \subseteq 1 .. n
    BY DataUpTo, DataBound
  <2> QED
    BY <2>1
<1>3. PICK a \in DataIn(fs, k) :
          /\ fs[a].op # "cont" /\ \A i \in DataIn(fs, k) : i > a => fs[i].op = "cont"
          /\ \A i \in Nat : (\E x \in 1 .. Len(t) : t[x] = i) <=> i \in DataIn(fs, k) /\ i >= a
  BY DEF IsMessage
<1>4. /\ t \in Seq(Nat) /\ Len(t) \in Nat /\ Len(t) >= 1 /\ t[Len(t)] = k
      /\ \A i \in 2 .. Len(t) : t[i - 1] < t[i]
  BY DEF IsMessage
<1>5. j \in Nat /\ k \in Nat /\ k < j /\ a \in Nat /\ j > a
  BY <1>2, <1>3 DEF LastIn, DataIn
<1>6. /\ u \in Seq(Nat) /\ u # <<>> /\ Len(u) = Len(t) + 1 /\ u[Len(u)] = j
      /\ \A i \in 1 .. Len(t) : u[i] = t[i]
  BY <1>4, <1>5
<1> HIDE DEF u
<1>7. \A i \in 2 .. Len(u) : u[i - 1] < u[i]
  <2> SUFFICES ASSUME NEW i \in 2 .. Len(u) PROVE u[i - 1] < u[i]
    OBVIOUS
  <2>1. CASE i \in 2 .. Len(t)
    <3>1. i \in 1 .. Len(t) /\ i - 1 \in 1 .. Len(t)
      BY <1>4, <2>1
    <3> QED
      BY <1>4, <1>6, <2>1, <3>1
  <2>2. CASE i = Len(t) + 1
    <3>1. i - 1 = Len(t) /\ i - 1 \in 1 .. Len(t)
      BY <1>4, <2>2
    <3> QED
      BY <1>4, <1>5, <1>6, <2>2, <3>1
  <2> QED
    BY <1>4, <1>6, <2>1, <2>2
<1>8. \A i \in Nat : (\E x \in 1 .. Len(u) : u[x] = i) <=> (\E x \in 1 .. Len(t) : t[x] = i) \/ i = j
  <2> SUFFICES ASSUME NEW i \in Nat
               PROVE  (\E x \in 1 .. Len(u) : u[x] = i) <=> (\E x \in 1 .. Len(t) : t[x] = i) \/ i = j
    OBVIOUS
  <2>1. 1 .. Len(u) = (1 .. Len(t)) \cup {Len(u)}
    BY <1>4, <1>6
  <2> QED
    BY <1>6, <2>1
<1>9. \A i \in Nat : (\E x \in 1 .. Len(u) : u[x] = i) <=> i \in DataIn(fs, j) /\ i >= a
  <2>1. j >= a
    BY <1>5
  <2> QED
    BY <1>1, <1>3, <1>8, <2>1
<1>10. a \in DataIn(fs, j) /\ \A i \in DataIn(fs, j) : i > a => fs[i].op = "cont"
  BY <1>1, <1>3
<1> HIDE DEF j
<1>11. IsMessage(fs, u, j)
  BY <1>3, <1>6, <1>7, <1>9, <1>10 DEF IsMessage
<1> QED
  BY <1>11 DEF u, j

LEMMA DeliveredSame ==
    ASSUME NEW fs, NEW n \in Nat, NEW d, DeliveredIn(fs, d, n),
           IsData(fs[n + 1]) => ~fs[n + 1].fin
    PROVE  DeliveredIn(fs, d, n + 1)
<1>1. DataIn(fs, n) \subseteq DataIn(fs, n + 1)
  BY DataMore
<1>2. \A k \in DataIn(fs, n + 1) : fs[k].fin => k \in DataIn(fs, n)
  BY DataMore
<1> QED
  BY <1>1, <1>2 DEF DeliveredIn

LEMMA DeliveredMore ==
    ASSUME NEW fs, NEW n \in Nat, NEW d, DeliveredIn(fs, d, n),
           IsData(fs[n + 1]), fs[n + 1].fin, NEW t, IsMessage(fs, t, n + 1)
    PROVE  DeliveredIn(fs, Append(d, t), n + 1)
<1> DEFINE k == n + 1
           e == Append(d, t)
           N == Seq(Nat)
<1>0. t \in N /\ LastOf(t) = k /\ IsMessage(fs, t, k)
  BY DEF IsMessage, LastOf
<1>1. DataIn(fs, k) = DataIn(fs, n) \cup {k}
  BY DataMore
<1>2. \A i \in DataIn(fs, n) : i \in Nat /\ i < k
  <2>1. DataIn(fs, n) \subseteq 1 .. n
    BY DataBound
  <2> QED
    BY <2>1
<1>3. /\ d \in Seq(N) /\ Len(d) \in Nat
      /\ \A m \in 1 .. Len(d) : /\ IsMessage(fs, d[m], LastOf(d[m]))
                                /\ LastOf(d[m]) \in DataIn(fs, n) /\ fs[LastOf(d[m])].fin
      /\ \A m \in 2 .. Len(d) : LastOf(d[m - 1]) < LastOf(d[m])
      /\ \A i \in DataIn(fs, n) : fs[i].fin => \E m \in 1 .. Len(d) : LastOf(d[m]) = i
  BY DEF DeliveredIn
<1> HIDE DEF N
<1>4. /\ e \in Seq(N) /\ Len(e) = Len(d) + 1 /\ e[Len(e)] = t
      /\ \A m \in 1 .. Len(d) : e[m] = d[m]
  BY <1>0, <1>3
<1>5. 1 .. Len(e) = (1 .. Len(d)) \cup {Len(e)}
  BY <1>3, <1>4
<1>6. fs[k].fin
  OBVIOUS
<1> HIDE DEF e, k
<1>7. \A m \in 1 .. Len(e) : /\ IsMessage(fs, e[m], LastOf(e[m]))
                             /\ LastOf(e[m]) \in DataIn(fs, k) /\ fs[LastOf(e[m])].fin
  BY <1>0, <1>1, <1>3, <1>4, <1>5, <1>6
<1>8. \A m \in 2 .. Len(e) : LastOf(e[m - 1]) < LastOf(e[m])
  <2> SUFFICES ASSUME NEW m \in 2 .. Len(e) PROVE LastOf(e[m - 1]) < LastOf(e[m])
    OBVIOUS
  <2>1. m - 1 \in 1 .. Len(d) /\ (m \in 2 .. Len(d) \/ m = Len(e))
    BY <1>3, <1>4
  <2>2. CASE m \in 2 .. Len(d)
    <3>1. m \in 1 .. Len(d)
      BY <2>2
    <3> QED
      BY <1>3, <1>4, <2>1, <2>2, <3>1
  <2>3. CASE m = Len(e)
    <3>1. LastOf(d[m - 1]) < k
      BY <1>2, <1>3, <2>1
    <3>2. e[m - 1] = d[m - 1]
      BY <1>4, <2>1
    <3> QED
      BY <1>0, <1>4, <2>3, <3>1, <3>2
  <2> QED
    BY <2>1, <2>2, <2>3
<1>9. \A i \in DataIn(fs, k) : fs[i].fin => \E m \in 1 .. Len(e) : LastOf(e[m]) = i
  BY <1>0, <1>1, <1>3, <1>4, <1>5
<1>10. DeliveredIn(fs, e, k)
  BY <1>4, <1>7, <1>8, <1>9 DEF DeliveredIn, N
<1> QED
  BY <1>10 DEF e, k

\* The frames that two sequences share say the same of both.
Agree(fs, gs, n) == \A i \in 1 .. n : fs[i] = gs[i]
LEMMA AgreeMessage ==
    ASSUME NEW fs, NEW gs, NEW n \in Nat, Agree(fs, gs, n), NEW k \in Nat, k <= n
    PROVE  /\ DataIn(fs, k) = DataIn(gs, k)
           /\ \A i : LastIn(fs, k, i) <=> LastIn(gs, k, i)
           /\ BegunBefore(fs, k) <=> BegunBefore(gs, k)
           /\ \A t : IsMessage(fs, t, k) => IsMessage(gs, t, k)
<1>1. \A i \in 1 .. k : fs[i] = gs[i]
  BY DEF Agree
<1>2. DataIn(fs, k) = DataIn(gs, k)
  BY <1>1 DEF DataIn
<1>3. DataIn(gs, k) \subseteq 1 .. k
  BY DEF DataIn
<1>4. \A i \in DataIn(gs, k) : fs[i] = gs[i]
  BY <1>1, <1>3
<1>5. \A i : LastIn(fs, k, i) <=> LastIn(gs, k, i)
  BY <1>2 DEF LastIn
<1>6. BegunBefore(fs, k) <=> BegunBefore(gs, k)
  BY <1>2, <1>4, <1>5 DEF BegunBefore
<1>7. \A t : IsMessage(fs, t, k) => IsMessage(gs, t, k)
  BY <1>2, <1>4 DEF IsMessage
<1> QED
  BY <1>2, <1>5, <1>6, <1>7

LEMMA AgreeLegal ==
    ASSUME NEW fs, NEW gs, NEW n \in Nat, Agree(fs, gs, n), NEW i \in 1 .. n
    PROVE  LegalIn(fs, i) <=> LegalIn(gs, i)
<1>1. i - 1 \in Nat /\ i - 1 <= n
  OBVIOUS
<1>2. BegunBefore(fs, i - 1) <=> BegunBefore(gs, i - 1)
  BY <1>1, AgreeMessage
<1>3. fs[i] = gs[i]
  BY DEF Agree
<1> QED
  BY <1>2, <1>3 DEF LegalIn

LEMMA AgreeWhole ==
    ASSUME NEW fs, NEW gs, NEW n \in Nat, Agree(fs, gs, n), NEW m \in 0 .. n,
           NEW d, WholeIn(fs, m, d)
    PROVE  WholeIn(gs, m, d)
<1>1. \A i \in 1 .. m : LegalIn(gs, i)
  <2>1. \A i \in 1 .. m : i \in 1 .. n
    OBVIOUS
  <2> QED
    BY <2>1, AgreeLegal DEF WholeIn
<1>2. DataIn(fs, m) = DataIn(gs, m)
  BY AgreeMessage
<1>3. DataIn(gs, m) \subseteq 1 .. n
  BY DEF DataIn
<1>4. \A k \in DataIn(gs, m) : fs[k] = gs[k] /\ k \in Nat /\ k <= n
  BY <1>3 DEF Agree
<1>5. \A k \in DataIn(gs, m) : \A t : IsMessage(fs, t, k) => IsMessage(gs, t, k)
  BY <1>4, AgreeMessage
<1>6. DeliveredIn(gs, d, m)
  BY <1>2, <1>4, <1>5 DEF WholeIn, DeliveredIn
<1> QED
  BY <1>1, <1>6 DEF WholeIn

LEMMA AgreeSays ==
    ASSUME NEW fs, NEW gs, NEW n \in Nat, Agree(fs, gs, n),
           NEW d, NEW g, NEW dead, Says(fs, n, d, g, dead)
    PROVE  Says(gs, n, d, g, dead)
<1>1. CASE WholeIn(fs, n, d) /\ (dead \/ KeptIn(fs, g, n))
  <2>1. WholeIn(gs, n, d)
    BY <1>1, AgreeWhole
  <2>2. KeptIn(fs, g, n) => KeptIn(gs, g, n)
    <3>1. /\ DataIn(fs, n) = DataIn(gs, n)
          /\ \A i : LastIn(fs, n, i) <=> LastIn(gs, n, i)
          /\ BegunBefore(fs, n) <=> BegunBefore(gs, n)
      BY AgreeMessage
    <3>2. DataIn(gs, n) \subseteq 1 .. n
      BY DEF DataIn
    <3>3. \A k \in DataIn(gs, n) : fs[k] = gs[k] /\ k \in Nat /\ k <= n
      BY <3>2 DEF Agree
    <3>4. \A k \in DataIn(gs, n) : \A t : IsMessage(fs, t, k) => IsMessage(gs, t, k)
      BY <3>3, AgreeMessage
    <3> QED
      BY <3>1, <3>3, <3>4 DEF KeptIn
  <2> QED
    BY <1>1, <2>1, <2>2 DEF Says
<1>2. CASE LostIn(fs, n, d) /\ (dead \/ g.op \in NoText)
  <2>1. PICK m \in 0 .. n - 1 : WholeIn(fs, m, d) /\ ~LegalIn(fs, m + 1)
    BY <1>2 DEF LostIn
  <2>2. m \in 0 .. n /\ m + 1 \in 1 .. n
    OBVIOUS
  <2>3. WholeIn(gs, m, d) /\ ~LegalIn(gs, m + 1)
    BY <2>1, <2>2, AgreeWhole, AgreeLegal
  <2> QED
    BY <1>2, <2>3 DEF Says, LostIn
<1> QED
  BY <1>1, <1>2 DEF Says

-----------------------------------------------------------------------------
(* One frame more.                                                         *)

LEMMA KeptIsNoText ==
    ASSUME NEW fs, NEW g, NEW n, KeptIn(fs, g, n)
    PROVE  g.op \notin NoText
BY DEF KeptIn, NoText, Web!NoMessage

LEMMA LegalSoFar ==
    ASSUME NEW fs, NEW n, NEW d, NEW g, NEW dead, Says(fs, n, d, g, dead), ~dead, g.op \notin NoText
    PROVE  WholeIn(fs, n, d) /\ KeptIn(fs, g, n)
BY DEF Says

LEMMA LostNow ==
    ASSUME NEW fs, NEW n \in Nat, NEW d, NEW g, NEW dead, Says(fs, n, d, g, dead), ~dead,
           g.op \in NoText \/ ~LegalIn(fs, n + 1)
    PROVE  LostIn(fs, n + 1, d)
<1>1. CASE LostIn(fs, n, d)
  <2>1. \A m \in 0 .. n - 1 : m \in 0 .. (n + 1) - 1
    OBVIOUS
  <2> QED
    BY <1>1, <2>1 DEF LostIn
<1>2. CASE ~LostIn(fs, n, d)
  <2>1. WholeIn(fs, n, d) /\ KeptIn(fs, g, n)
    BY <1>2 DEF Says
  <2>2. ~LegalIn(fs, n + 1)
    BY <2>1, KeptIsNoText
  <2>3. n \in 0 .. (n + 1) - 1
    OBVIOUS
  <2> QED
    BY <2>1, <2>2, <2>3 DEF LostIn
<1> QED
  BY <1>1, <1>2

LEMMA WholeMore ==
    ASSUME NEW fs, NEW n \in Nat, NEW d, WholeIn(fs, n, d), LegalIn(fs, n + 1),
           NEW e, DeliveredIn(fs, e, n + 1)
    PROVE  WholeIn(fs, n + 1, e)
<1>1. 1 .. n + 1 = (1 .. n) \cup {n + 1}
  OBVIOUS
<1> QED
  BY <1>1 DEF WholeIn

\* A control frame between the parts changes nothing.
LEMMA ControlSays ==
    ASSUME NEW fs, NEW n \in Nat, NEW d, NEW g, NEW dead, Says(fs, n, d, g, dead), ~dead,
           fs[n + 1].op \in {"ping", "pong"}, fs[n + 1].fin, ~fs[n + 1].broken
    PROVE  Says(fs, n + 1, d, g, dead)
<1>0. ~IsData(fs[n + 1])
  BY DEF IsData, Web!Control
<1>1. CASE g.op \in NoText
  BY <1>1, LostNow DEF Says
<1>2. CASE g.op \notin NoText
  <2>1. WholeIn(fs, n, d) /\ KeptIn(fs, g, n)
    BY <1>2, LegalSoFar
  <2>2. LegalIn(fs, n + 1)
    BY <1>0 DEF LegalIn
  <2>3. DeliveredIn(fs, d, n + 1)
    BY <1>0, <2>1, DeliveredSame DEF WholeIn
  <2>4. WholeIn(fs, n + 1, d)
    BY <2>1, <2>2, <2>3, WholeMore
  <2>5. DataIn(fs, n + 1) = DataIn(fs, n) /\ (BegunBefore(fs, n + 1) <=> BegunBefore(fs, n))
    BY <1>0, DataMore, BegunMore
  <2>6. KeptIn(fs, g, n + 1)
    BY <2>1, <2>5 DEF KeptIn, LastIn
  <2> QED
    BY <2>4, <2>6 DEF Says
<1> QED
  BY <1>1, <1>2

\* A message in one frame.
LEMMA WholeSays ==
    ASSUME NEW fs, NEW n \in Nat, NEW d, NEW g, NEW dead, Says(fs, n, d, g, dead), ~dead,
           g = Web!NoMessage, fs[n + 1].op \in {"text", "binary"}, fs[n + 1].fin, ~fs[n + 1].broken
    PROVE  Says(fs, n + 1, Append(d, <<n + 1>>), g, dead)
<1>0. IsData(fs[n + 1]) /\ fs[n + 1].op # "cont" /\ g.op \notin NoText
  BY DEF IsData, Web!Control, Web!NoMessage, NoText
<1>1. WholeIn(fs, n, d) /\ ~BegunBefore(fs, n)
  BY <1>0, LegalSoFar DEF KeptIn
<1>2. LegalIn(fs, n + 1)
  <2>1. (n + 1) - 1 = n
    OBVIOUS
  <2> QED
    BY <1>0, <1>1, <2>1 DEF LegalIn
<1>3. DeliveredIn(fs, Append(d, <<n + 1>>), n + 1)
  BY <1>0, <1>1, MessageOne, DeliveredMore DEF WholeIn
<1>4. WholeIn(fs, n + 1, Append(d, <<n + 1>>))
  BY <1>1, <1>2, <1>3, WholeMore
<1>5. ~BegunBefore(fs, n + 1)
  BY <1>0, BegunMore
<1> QED
  BY <1>4, <1>5 DEF Says, KeptIn

\* The first frame of a message, and of one that is no text.
LEMMA FirstSays ==
    ASSUME NEW fs, NEW n \in Nat, NEW d, NEW g, NEW dead, Says(fs, n, d, g, dead), ~dead,
           g = Web!NoMessage, fs[n + 1].op \in {"text", "binary"} \cup NoText,
           ~fs[n + 1].fin, ~fs[n + 1].broken,
           NEW h, h.op = fs[n + 1].op, h.tags = <<n + 1>>
    PROVE  Says(fs, n + 1, d, h, dead)
<1>0. IsData(fs[n + 1]) /\ fs[n + 1].op # "cont" /\ g.op \notin NoText
  BY DEF IsData, Web!Control, Web!NoMessage, NoText
<1>1. CASE fs[n + 1].op \in NoText
  <2>1. ~LegalIn(fs, n + 1)
    BY <1>1 DEF LegalIn, NoText
  <2> QED
    BY <1>1, <2>1, LostNow DEF Says
<1>2. CASE fs[n + 1].op \notin NoText
  <2>1. WholeIn(fs, n, d) /\ ~BegunBefore(fs, n)
    BY <1>0, LegalSoFar DEF KeptIn
  <2>2. LegalIn(fs, n + 1)
    <3>1. (n + 1) - 1 = n
      OBVIOUS
    <3> QED
      BY <1>0, <1>2, <2>1, <3>1 DEF LegalIn, NoText
  <2>3. DeliveredIn(fs, d, n + 1)
    BY <2>1, DeliveredSame DEF WholeIn
  <2>4. WholeIn(fs, n + 1, d)
    BY <2>1, <2>2, <2>3, WholeMore
  <2>5. h # Web!NoMessage /\ h.op \in {"text", "binary"}
    BY <1>2 DEF Web!NoMessage, NoText
  <2>6. LastIn(fs, n + 1, n + 1) /\ n + 1 \in DataIn(fs, n + 1)
    BY <1>0, LastMore DEF LastIn
  <2>7. IsMessage(fs, h.tags, n + 1)
    BY <1>0, MessageOne
  <2>8. KeptIn(fs, h, n + 1)
    BY <2>5, <2>6, <2>7 DEF KeptIn
  <2> QED
    BY <2>4, <2>8 DEF Says
<1> QED
  BY <1>1, <1>2

\* A frame more of a message: one more is to come, or it is the last.
LEMMA NextFragment ==
    ASSUME NEW fs, NEW n \in Nat, NEW d, NEW g, NEW dead, Says(fs, n, d, g, dead), ~dead,
           g # Web!NoMessage, g.op \notin NoText,
           fs[n + 1].op = "cont", ~fs[n + 1].broken
    PROVE  /\ WholeIn(fs, n, d) /\ LegalIn(fs, n + 1) /\ g.op \in {"text", "binary"}
           /\ IsMessage(fs, Append(g.tags, n + 1), n + 1)
           /\ LastIn(fs, n + 1, n + 1) /\ n + 1 \in DataIn(fs, n + 1) /\ IsData(fs[n + 1])
<1>0. IsData(fs[n + 1])
  BY DEF IsData, Web!Control
<1>1. WholeIn(fs, n, d) /\ KeptIn(fs, g, n)
  BY LegalSoFar
<1>2. PICK k \in DataIn(fs, n) : LastIn(fs, n, k) /\ ~fs[k].fin /\ IsMessage(fs, g.tags, k)
  BY <1>1 DEF KeptIn
<1>3. BegunBefore(fs, n)
  BY <1>2 DEF BegunBefore
<1>4. LegalIn(fs, n + 1)
  <2>1. (n + 1) - 1 = n
    OBVIOUS
  <2> QED
    BY <1>0, <1>3, <2>1 DEF LegalIn
<1>5. IsMessage(fs, Append(g.tags, n + 1), n + 1)
  BY <1>0, <1>2, MessageMore
<1>6. LastIn(fs, n + 1, n + 1) /\ n + 1 \in DataIn(fs, n + 1)
  BY <1>0, LastMore DEF LastIn
<1>7. g.op \in {"text", "binary"}
  BY <1>1 DEF KeptIn
<1> QED
  BY <1>0, <1>1, <1>4, <1>5, <1>6, <1>7

LEMMA FragmentSays ==
    ASSUME NEW fs, NEW n \in Nat, NEW d, NEW g, NEW dead, Says(fs, n, d, g, dead), ~dead,
           g # Web!NoMessage, fs[n + 1].op = "cont", ~fs[n + 1].fin, ~fs[n + 1].broken,
           NEW h, h.op = g.op, h.tags = Append(g.tags, n + 1)
    PROVE  Says(fs, n + 1, d, h, dead)
<1>1. CASE g.op \in NoText
  BY <1>1, LostNow DEF Says
<1>2. CASE g.op \notin NoText
  <2>1. /\ WholeIn(fs, n, d) /\ LegalIn(fs, n + 1) /\ g.op \in {"text", "binary"}
        /\ IsMessage(fs, h.tags, n + 1)
        /\ LastIn(fs, n + 1, n + 1) /\ n + 1 \in DataIn(fs, n + 1)
    BY <1>2, NextFragment
  <2>2. WholeIn(fs, n + 1, d)
    BY <2>1, DeliveredSame, WholeMore DEF WholeIn
  <2>3. h # Web!NoMessage
    BY <2>1 DEF Web!NoMessage
  <2>4. KeptIn(fs, h, n + 1)
    BY <2>1, <2>3 DEF KeptIn
  <2> QED
    BY <2>2, <2>4 DEF Says
<1> QED
  BY <1>1, <1>2

LEMMA LastSays ==
    ASSUME NEW fs, NEW n \in Nat, NEW d, NEW g, NEW dead, Says(fs, n, d, g, dead), ~dead,
           g # Web!NoMessage, g.op \notin NoText,
           fs[n + 1].op = "cont", fs[n + 1].fin, ~fs[n + 1].broken
    PROVE  /\ g.op \in {"text", "binary"}
           /\ Says(fs, n + 1, Append(d, Append(g.tags, n + 1)), Web!NoMessage, dead)
<1> DEFINE t == Append(g.tags, n + 1)
<1>1. /\ WholeIn(fs, n, d) /\ LegalIn(fs, n + 1) /\ g.op \in {"text", "binary"}
      /\ IsMessage(fs, t, n + 1) /\ IsData(fs[n + 1])
  BY NextFragment
<1> HIDE DEF t
<1>2. DeliveredIn(fs, Append(d, t), n + 1)
  BY <1>1, DeliveredMore DEF WholeIn
<1>3. WholeIn(fs, n + 1, Append(d, t))
  BY <1>1, <1>2, WholeMore
<1>4. ~BegunBefore(fs, n + 1)
  BY <1>1, BegunMore
<1>5. Says(fs, n + 1, Append(d, t), Web!NoMessage, dead)
  BY <1>3, <1>4 DEF Says, KeptIn
<1> QED
  BY <1>1, <1>5 DEF t

\* A frame that is out of place, or is none.
OutOfPlace(f, g) ==
    \/ g.op \in NoText \/ f.op \in NoText \cup {"close"} \/ f.broken
    \/ ~IsData(f) /\ ~f.fin
    \/ IsData(f) /\ (f.op = "cont" <=> g = Web!NoMessage)
LEMMA LostSays ==
    ASSUME NEW fs, NEW n \in Nat, NEW d, NEW g, NEW dead, Says(fs, n, d, g, dead), ~dead,
           OutOfPlace(fs[n + 1], g)
    PROVE  LostIn(fs, n + 1, d)
<1>1. CASE g.op \in NoText
  BY <1>1, LostNow DEF Says
<1>2. CASE g.op \notin NoText
  <2>1. KeptIn(fs, g, n)
    BY <1>2, LegalSoFar
  <2>2. BegunBefore(fs, n) <=> g # Web!NoMessage
    BY <2>1 DEF KeptIn, BegunBefore
  <2>3. ~LegalIn(fs, n + 1)
    <3>1. (n + 1) - 1 = n
      OBVIOUS
    <3> QED
      BY <1>2, <2>2, <3>1 DEF LegalIn, OutOfPlace, NoText
  <2> QED
    BY <2>3, LostNow
<1> QED
  BY <1>1, <1>2

LEMMA SaysDead ==
    ASSUME NEW fs, NEW n, NEW d, NEW g, NEW dead, Says(fs, n, d, g, dead), NEW h, NEW e,
           e \/ ((dead => e) /\ h = g)
    PROVE  Says(fs, n, d, h, e)
BY DEF Says

-----------------------------------------------------------------------------
(* What the methods leave of the frames as it is.                          *)

\* Nothing is read from w to v.
Moved(v, w) ==
    /\ WsRecord(v) /\ v.protocol = w.protocol /\ v.input = w.input /\ v.used = w.used
    /\ v.reading = w.reading /\ (w.clientTerminated => v.clientTerminated)
    /\ v.queue = w.queue \/ (w.queue = <<>> /\ v.queue = <<ClosedPiece>>)
\* And nothing is delivered or kept.
Later(v, w) ==
    /\ Moved(v, w)
    /\ v.read = w.read /\ v.delivered = w.delivered /\ v.fragmented = w.fragmented

LEMMA MovedOn ==
    ASSUME NEW u, NEW v, NEW w, Moved(u, v), Moved(v, w)
    PROVE  Moved(u, w)
<1>1. <<ClosedPiece>> # <<>>
  OBVIOUS
<1> QED
  BY <1>1 DEF Moved

LEMMA LaterOn ==
    ASSUME NEW u, NEW v, NEW w, Later(u, v), Later(v, w)
    PROVE  Later(u, w)
BY MovedOn DEF Later

LEMMA LaterSame ==
    ASSUME NEW w, WsRecord(w)
    PROVE  Later(w, w)
BY DEF Later, Moved

\* The fields that say who closed what.
LEMMA LaterFields ==
    ASSUME NEW w, WsRecord(w)
    PROVE  /\ \A x : Later([w EXCEPT !.open = x], w)
           /\ \A x : Later([w EXCEPT !.ok = x], w)
           /\ \A x : Later([w EXCEPT !.serverTerminated = x], w)
           /\ \A x : Later([w EXCEPT !.waiting = x], w)
           /\ \A x, y : Later([w EXCEPT !.serverTerminated = x, !.closeFrames = y], w)
           /\ \A x, y : Later([w EXCEPT !.attached = x, !.onClose = y], w)
           /\ \A x : Later([w EXCEPT !.due = x], w)
<1>1. \A x : Later([w EXCEPT !.open = x], w)
  BY DEF Later, Moved, WsRecord, WsFields
<1>2. \A x : Later([w EXCEPT !.ok = x], w)
  BY DEF Later, Moved, WsRecord, WsFields
<1>3. \A x : Later([w EXCEPT !.serverTerminated = x], w)
  BY DEF Later, Moved, WsRecord, WsFields
<1>4. \A x : Later([w EXCEPT !.waiting = x], w)
  BY DEF Later, Moved, WsRecord, WsFields
<1>5. ASSUME NEW x, NEW y PROVE Later([w EXCEPT !.serverTerminated = x, !.closeFrames = y], w)
  <2> DEFINE v == [w EXCEPT !.serverTerminated = x, !.closeFrames = y]
  <2>1. /\ WsRecord(v) /\ v.protocol = w.protocol /\ v.input = w.input /\ v.used = w.used
        /\ v.reading = w.reading /\ v.clientTerminated = w.clientTerminated /\ v.queue = w.queue
        /\ v.read = w.read /\ v.delivered = w.delivered /\ v.fragmented = w.fragmented
    BY DEF WsRecord, WsFields
  <2> HIDE DEF v
  <2>2. Later(v, w)
    BY <2>1 DEF Later, Moved
  <2> QED
    BY <2>2 DEF v
<1>6. ASSUME NEW x, NEW y PROVE Later([w EXCEPT !.attached = x, !.onClose = y], w)
  <2> DEFINE v == [w EXCEPT !.attached = x, !.onClose = y]
  <2>1. /\ WsRecord(v) /\ v.protocol = w.protocol /\ v.input = w.input /\ v.used = w.used
        /\ v.reading = w.reading /\ v.clientTerminated = w.clientTerminated /\ v.queue = w.queue
        /\ v.read = w.read /\ v.delivered = w.delivered /\ v.fragmented = w.fragmented
    BY DEF WsRecord, WsFields
  <2> HIDE DEF v
  <2>2. Later(v, w)
    BY <2>1 DEF Later, Moved
  <2> QED
    BY <2>2 DEF v
<1>7. \A x : Later([w EXCEPT !.due = x], w)
  BY DEF Later, Moved, WsRecord, WsFields
<1> QED
  BY <1>1, <1>2, <1>3, <1>4, <1>5, <1>6, <1>7

LEMMA MaybeLater ==
    ASSUME NEW w, WsRecord(w)
    PROVE  Later(Web!MaybeRunClose(w), w)
<1>1. CASE ~w.open /\ w.closeCb /\ w.queue = <<>>
  <2> DEFINE v == [w EXCEPT !.closeCb = FALSE, !.queue = <<ClosedPiece>>]
  <2>1. Web!MaybeRunClose(w) = v
    BY <1>1 DEF Web!MaybeRunClose, ClosedPiece
  <2>2. /\ WsRecord(v) /\ v.protocol = w.protocol /\ v.input = w.input /\ v.used = w.used
        /\ v.reading = w.reading /\ v.clientTerminated = w.clientTerminated
        /\ v.queue = <<ClosedPiece>>
        /\ v.read = w.read /\ v.delivered = w.delivered /\ v.fragmented = w.fragmented
    BY DEF WsRecord, WsFields
  <2> HIDE DEF v
  <2> QED
    BY <1>1, <2>1, <2>2 DEF Later, Moved
<1>2. CASE ~(~w.open /\ w.closeCb /\ w.queue = <<>>)
  <2>1. Web!MaybeRunClose(w) = w
    BY <1>2 DEF Web!MaybeRunClose
  <2> QED
    BY <2>1, LaterSame
<1> QED
  BY <1>1, <1>2

LEMMA StreamLater ==
    ASSUME NEW w, WsRecord(w)
    PROVE  Later(Web!CloseStream(w), w)
<1> DEFINE no == FALSE
           u == [w EXCEPT !.open = no]
<1>1. Web!CloseStream(w) = Web!MaybeRunClose(u)
  BY DEF Web!CloseStream
<1> HIDE DEF no
<1>2. Later(u, w)
  BY LaterFields
<1> HIDE DEF u
<1>3. Later(Web!MaybeRunClose(u), u)
  BY <1>2, MaybeLater DEF Later, Moved
<1> QED
  BY <1>1, <1>2, <1>3, LaterOn

LEMMA WriteLater ==
    ASSUME NEW w, NEW lost, WsRecord(w)
    PROVE  Later(Web!WriteFrame(w, lost), w)
<1> DEFINE no == FALSE
           u == [w EXCEPT !.ok = no]
<1>1. Web!WriteFrame(w, lost) \in {u, Web!CloseStream(w), w}
  BY DEF Web!WriteFrame
<1> HIDE DEF no
<1>2. Later(u, w)
  BY LaterFields
<1> HIDE DEF u
<1> QED
  BY <1>1, <1>2, StreamLater, LaterSame

LEMMA CloseLater ==
    ASSUME NEW w, NEW lost, WsRecord(w)
    PROVE  Later(Web!Close(w, lost), w)
<1> DEFINE yes == TRUE
           no == FALSE
           x == Web!WriteFrame(w, lost)
           a == [x EXCEPT !.serverTerminated = yes, !.closeFrames = x.closeFrames + 1]
           b == [w EXCEPT !.serverTerminated = yes]
           u == IF ~Web!OncePerSide(w) THEN w ELSE IF w.open THEN a ELSE b
           c == [u EXCEPT !.waiting = no]
           d == [u EXCEPT !.waiting = yes]
<1>1. Web!Close(w, lost) = IF u.clientTerminated THEN Web!CloseStream(c) ELSE d
  BY DEF Web!Close
<1> HIDE DEF yes, no
<1>2. Later(x, w)
  BY WriteLater
<1> HIDE DEF x
<1>3. Later(a, x)
  <2>1. WsRecord(x)
    BY <1>2 DEF Later, Moved
  <2> DEFINE n == x.closeFrames + 1
  <2> HIDE DEF n
  <2>2. Later([x EXCEPT !.serverTerminated = yes, !.closeFrames = n], x)
    BY <2>1, LaterFields
  <2> QED
    BY <2>2 DEF n
<1>4. Later(b, w)
  BY LaterFields
<1>5. Later(a, w)
  BY <1>2, <1>3, LaterOn
<1> HIDE DEF a, b
<1>6. Later(u, w)
  BY <1>4, <1>5, LaterSame
<1> HIDE DEF u
<1>7. Later(c, u) /\ Later(d, u)
  <2>1. WsRecord(u)
    BY <1>6 DEF Later, Moved
  <2> QED
    BY <2>1, LaterFields
<1> HIDE DEF c, d
<1>8. Later(c, w) /\ Later(d, w)
  BY <1>6, <1>7, LaterOn
<1>9. Later(Web!CloseStream(c), c)
  BY <1>8, StreamLater DEF Later, Moved
<1>10. Later(Web!CloseStream(c), w)
  BY <1>8, <1>9, LaterOn
<1> QED
  BY <1>1, <1>8, <1>10

\* The client has closed, or might as well have.
LEMMA AbortLater ==
    ASSUME NEW w, WsRecord(w)
    PROVE  Later(Web!Abort(w), w) /\ Web!Abort(w).clientTerminated
<1> DEFINE no == FALSE
           u == [w EXCEPT !.clientTerminated = TRUE, !.serverTerminated = TRUE]
           x == Web!CloseStream(u)
           y == Web!Close(x, no)
<1>1. Web!Abort(w) = y
  BY DEF Web!Abort
<1>2. Later(u, w) /\ u.clientTerminated = TRUE
  BY DEF Later, Moved, WsRecord, WsFields
<1> HIDE DEF no, u
<1>3. Later(x, u)
  BY <1>2, StreamLater DEF Later, Moved
<1> HIDE DEF x
<1>4. Later(y, x)
  BY <1>3, CloseLater DEF Later, Moved
<1> HIDE DEF y
<1>5. Later(y, u)
  BY <1>3, <1>4, LaterOn
<1>6. y.clientTerminated
  BY <1>2, <1>5 DEF Later, Moved
<1> QED
  BY <1>1, <1>2, <1>5, <1>6, LaterOn

LEMMA ClientClosedLater ==
    ASSUME NEW w, NEW lost, WsRecord(w)
    PROVE  LET v == Web!Close([w EXCEPT !.clientTerminated = TRUE], lost)
           IN  Later(v, w) /\ v.clientTerminated
<1> DEFINE u == [w EXCEPT !.clientTerminated = TRUE]
           v == Web!Close(u, lost)
<1>1. Later(u, w) /\ u.clientTerminated = TRUE
  BY DEF Later, Moved, WsRecord, WsFields
<1> HIDE DEF u
<1>2. Later(v, u)
  BY <1>1, CloseLater DEF Later, Moved
<1> HIDE DEF v
<1>3. Later(v, w) /\ v.clientTerminated
  BY <1>1, <1>2, LaterOn DEF Later, Moved
<1> QED
  BY <1>3 DEF v, u

LEMMA ConnectionLater ==
    ASSUME NEW w, WsRecord(w)
    PROVE  Later(Web!ConnectionClosed(w), w)
<1> DEFINE no == FALSE
           x == Web!Abort(w)
           y == [x EXCEPT !.attached = no, !.onClose = x.onClose + 1]
<1>1. Web!ConnectionClosed(w) = IF w.attached THEN y ELSE w
  BY DEF Web!ConnectionClosed
<1> HIDE DEF no
<1>2. Later(x, w)
  BY AbortLater
<1> HIDE DEF x
<1>3. Later(y, x)
  <2>1. WsRecord(x)
    BY <1>2 DEF Later, Moved
  <2> DEFINE n == x.onClose + 1
  <2> HIDE DEF n
  <2>2. Later([x EXCEPT !.attached = no, !.onClose = n], x)
    BY <2>1, LaterFields
  <2> QED
    BY <2>2 DEF n
<1> HIDE DEF y
<1> QED
  BY <1>1, <1>2, <1>3, LaterOn, LaterSame

LEMMA ReactLater ==
    ASSUME NEW w, NEW reaction \in Web!Reactions, NEW lost, WsRecord(w)
    PROVE  Later(Web!React(w, reaction, lost), w)
<1> DEFINE yes == TRUE
           v == Web!WriteFrame(w, lost)
           x == [v EXCEPT !.ok = yes]
<1>1. Web!React(w, reaction, lost) \in {w, v, Web!Abort(x), Web!Close(w, lost), Web!Abort(w)}
  BY DEF Web!React, Web!Reactions
<1> HIDE DEF yes
<1>2. Later(v, w)
  BY WriteLater
<1> HIDE DEF v
<1>3. Later(x, v)
  BY <1>2, LaterFields DEF Later, Moved
<1> HIDE DEF x
<1>4. Later(Web!Abort(x), x)
  BY <1>3, AbortLater DEF Later, Moved
<1>5. Later(Web!Abort(x), w)
  BY <1>2, <1>3, <1>4, LaterOn
<1>6. Later(Web!Abort(w), w) /\ Later(Web!Close(w, lost), w) /\ Later(w, w)
  BY AbortLater, CloseLater, LaterSame
<1> QED
  BY <1>1, <1>2, <1>5, <1>6

-----------------------------------------------------------------------------
(* A frame is taken.                                                       *)

IsBuffer(g) == g = [op |-> g.op, tags |-> g.tags]
\* v has read n frames more than those w began with, and says so.
ReadTo(v, w, fs, n) ==
    /\ Moved(v, w) /\ v.read = n /\ IsBuffer(v.fragmented)
    /\ Says(fs, n, v.delivered, v.fragmented, v.clientTerminated)

LEMMA LaterReads ==
    ASSUME NEW u, NEW v, NEW w, NEW fs, NEW n, Later(v, u), ReadTo(u, w, fs, n)
    PROVE  ReadTo(v, w, fs, n)
<1>1. Moved(v, w) /\ v.read = n /\ IsBuffer(v.fragmented)
  BY MovedOn DEF Later, ReadTo
<1>2. /\ Says(fs, n, u.delivered, u.fragmented, u.clientTerminated)
      /\ v.delivered = u.delivered /\ v.fragmented = u.fragmented
      /\ u.clientTerminated => v.clientTerminated
  BY DEF Later, Moved, ReadTo
<1>3. Says(fs, n, v.delivered, v.fragmented, v.clientTerminated)
  BY <1>2, SaysDead
<1> QED
  BY <1>1, <1>3 DEF ReadTo

\* A connection that ends says nothing more.
LEMMA EndReads ==
    ASSUME NEW u, NEW v, NEW w, NEW fs, NEW n, Later(v, u), v.clientTerminated, Moved(u, w),
           u.read = n, IsBuffer(u.fragmented), LostIn(fs, n, u.delivered)
    PROVE  ReadTo(v, w, fs, n)
<1>1. Moved(v, w) /\ v.read = n /\ IsBuffer(v.fragmented) /\ v.delivered = u.delivered
  BY MovedOn DEF Later
<1>2. Says(fs, n, v.delivered, v.fragmented, v.clientTerminated)
  BY <1>1 DEF Says
<1> QED
  BY <1>1, <1>2 DEF ReadTo

LEMMA MessageReads ==
    ASSUME NEW u, NEW w, NEW fs, NEW n, Moved(u, w), u.read = n, IsBuffer(u.fragmented),
           NEW tags, Says(fs, n, Append(u.delivered, tags), u.fragmented, u.clientTerminated),
           NEW reaction \in Web!Reactions, NEW lost
    PROVE  LET v == Web!OnMessage(u, tags, reaction, lost)
           IN  ReadTo(v, w, fs, n) /\ v.fragmented = u.fragmented
<1> DEFINE e == Append(u.delivered, tags)
           x == [u EXCEPT !.delivered = e]
           v == Web!React(x, reaction, lost)
<1>1. Web!OnMessage(u, tags, reaction, lost) = v
  BY DEF Web!OnMessage
<1>2. Says(fs, n, e, u.fragmented, u.clientTerminated) /\ WsRecord(u)
  BY DEF Moved
<1> HIDE DEF e
<1>3. /\ WsRecord(x) /\ x.protocol = u.protocol /\ x.input = u.input /\ x.used = u.used
      /\ x.reading = u.reading /\ x.clientTerminated = u.clientTerminated /\ x.queue = u.queue
      /\ x.read = n /\ x.delivered = e /\ x.fragmented = u.fragmented
  BY <1>2 DEF WsRecord, WsFields
<1> HIDE DEF x
<1>4. ReadTo(x, w, fs, n)
  <2>1. Moved(x, u)
    BY <1>3 DEF Moved
  <2>2. Moved(x, w)
    BY <2>1, MovedOn
  <2> QED
    BY <1>2, <1>3, <2>2 DEF ReadTo
<1>5. Later(v, x)
  BY <1>3, ReactLater
<1> HIDE DEF v
<1>6. v.fragmented = u.fragmented
  BY <1>3, <1>5 DEF Later
<1> QED
  BY <1>1, <1>4, <1>5, <1>6, LaterReads

\* The fragments alone change.
LEMMA FragmentedMoved ==
    ASSUME NEW w, WsRecord(w), NEW g
    PROVE  LET v == [w EXCEPT !.fragmented = g]
           IN  /\ Moved(v, w) /\ v.read = w.read /\ v.delivered = w.delivered
               /\ v.fragmented = g /\ v.clientTerminated = w.clientTerminated
BY DEF Moved, WsRecord, WsFields

LEMMA FrameReads ==
    ASSUME NEW c, NEW fs, NEW n \in Nat, NEW f, f = fs[n + 1], f \in Web!FrameType, ~f.broken,
           WsRecord(c), c.read = n + 1, IsBuffer(c.fragmented), ~c.clientTerminated,
           Says(fs, n, c.delivered, c.fragmented, c.clientTerminated),
           NEW reaction \in Web!Reactions, NEW lost
    PROVE  ReadTo(Web!FrameData(c, f, n + 1, reaction, lost), c, fs, n + 1)
<1> DEFINE k == n + 1
           g == c.fragmented
           v == Web!FrameData(c, f, k, reaction, lost)
           whole == Web!HandleMessage(c, f.op, <<k>>, reaction, lost)
<1>0. Moved(c, c) /\ Later(Web!Abort(c), c) /\ Web!Abort(c).clientTerminated
  BY LaterSame, AbortLater DEF Later
<1>1. ASSUME OutOfPlace(f, g) PROVE LostIn(fs, k, c.delivered)
  <2> DEFINE d == c.delivered
             dead == c.clientTerminated
  <2>1. Says(fs, n, d, g, dead) /\ ~dead /\ OutOfPlace(fs[n + 1], g) /\ n \in Nat
    BY <1>1
  <2> HIDE DEF d, dead, g
  <2>2. LostIn(fs, n + 1, d)
    BY ONLY <2>1, LostSays
  <2> QED
    BY <2>2 DEF d
<1>2. ASSUME OutOfPlace(f, g) PROVE ReadTo(Web!Abort(c), c, fs, k)
  <2>1. LostIn(fs, k, c.delivered)
    BY <1>1, <1>2
  <2> HIDE DEF k
  <2>2. c.read = k
    BY DEF k
  <2> QED
    BY <1>0, <2>1, <2>2, EndReads
<1>3. ASSUME g = Web!NoMessage, f.op \in {"text", "binary"}, f.fin
      PROVE  ReadTo(whole, c, fs, k)
  <2>1. whole = Web!OnMessage(c, <<k>>, reaction, lost)
    BY <1>3 DEF Web!HandleMessage
  <2>2. Says(fs, k, Append(c.delivered, <<k>>), g, c.clientTerminated)
    BY <1>3, WholeSays
  <2> HIDE DEF k, whole
  <2>3. c.read = k
    BY DEF k
  <2> QED
    BY <1>0, <2>1, <2>2, <2>3, MessageReads
<1>4. CASE f.op \in Web!Control
  <2>1. v = IF f.fin THEN whole ELSE Web!Abort(c)
    BY <1>4 DEF Web!FrameData, Web!Control
  <2>2. CASE ~f.fin
    <3>1. OutOfPlace(f, g)
      BY <1>4, <2>2 DEF OutOfPlace, IsData
    <3> QED
      BY <1>2, <2>1, <2>2, <3>1
  <2>3. CASE f.fin /\ f.op = "close"
    <3> DEFINE x == Web!Close([c EXCEPT !.clientTerminated = TRUE], lost)
    <3>1. v = x
      BY <2>1, <2>3 DEF Web!HandleMessage
    <3>2. Later(x, c) /\ x.clientTerminated
      BY ClientClosedLater
    <3>3. LostIn(fs, k, c.delivered)
      BY <1>1, <2>3 DEF OutOfPlace
    <3> HIDE DEF x, k, v
    <3>4. c.read = k
      BY DEF k
    <3> QED
      BY <1>0, <3>1, <3>2, <3>3, <3>4, EndReads DEF v, k
  <2>4. CASE f.fin /\ f.op # "close"
    <3>1. f.op \in {"ping", "pong"}
      BY <1>4, <2>4 DEF Web!Control
    <3>2. v \in {Web!WriteFrame(c, lost), c}
      BY <2>1, <2>4, <3>1 DEF Web!HandleMessage
    <3>3. Later(v, c)
      BY <3>2, WriteLater, LaterSame
    <3>4. Says(fs, k, c.delivered, g, c.clientTerminated)
      BY <2>4, <3>1, ControlSays
    <3> HIDE DEF k, v
    <3>5. ReadTo(c, c, fs, k)
      BY <1>0, <3>4 DEF ReadTo, k
    <3>6. ReadTo(v, c, fs, k)
      BY <3>3, <3>5, LaterReads
    <3> QED
      BY <3>6 DEF v, k
  <2> QED
    BY <2>2, <2>3, <2>4
<1>5. CASE f.op = "cont"
  <2> DEFINE tags == Append(g.tags, k)
             h == [g EXCEPT !.tags = tags]
             x == [c EXCEPT !.fragmented = h]
             u == Web!Cleared(c)
             m == Web!HandleMessage(u, g.op, tags, reaction, lost)
  <2>1. v = IF g = Web!NoMessage THEN Web!Abort(c) ELSE IF f.fin THEN m ELSE x
    BY <1>5 DEF Web!FrameData, Web!Control, Web!Finished
  <2>2. h.op = g.op /\ h.tags = tags /\ IsBuffer(h)
    <3> HIDE DEF tags
    <3>1. g = [op |-> g.op, tags |-> g.tags]
      BY DEF IsBuffer
    <3> HIDE DEF g
    <3>2. h = [op |-> g.op, tags |-> tags]
      BY <3>1
    <3> HIDE DEF h
    <3> QED
      BY <3>2 DEF IsBuffer
  <2>3. IsData(f)
    BY <1>5 DEF IsData, Web!Control
  <2>4. CASE g = Web!NoMessage
    <3>1. OutOfPlace(f, g)
      BY <1>5, <2>3, <2>4 DEF OutOfPlace
    <3> QED
      BY <1>2, <2>1, <2>4, <3>1
  <2>5. CASE g # Web!NoMessage /\ ~f.fin
    <3>1. Says(fs, k, c.delivered, h, c.clientTerminated)
      BY <1>5, <2>2, <2>5, FragmentSays
    <3> HIDE DEF k, h
    <3>2. /\ Moved(x, c) /\ x.read = c.read /\ x.delivered = c.delivered
          /\ x.fragmented = h /\ x.clientTerminated = c.clientTerminated
      BY FragmentedMoved
    <3> HIDE DEF x
    <3>3. ReadTo(x, c, fs, k)
      BY <2>2, <3>1, <3>2 DEF ReadTo, k
    <3>4. v = x
      BY <2>1, <2>5
    <3> QED
      BY <3>3, <3>4 DEF k
  <2>6. CASE g # Web!NoMessage /\ f.fin
    <3>1. v = m
      BY <2>1, <2>6
    <3>2. u = [c EXCEPT !.fragmented = Web!NoMessage]
      BY DEF Web!Cleared
    <3>3. /\ Moved(u, c) /\ u.read = c.read /\ u.delivered = c.delivered
          /\ u.fragmented = Web!NoMessage /\ u.clientTerminated = c.clientTerminated
      BY <3>2, FragmentedMoved
    <3>4. WsRecord(u) /\ IsBuffer(u.fragmented)
      BY <3>3 DEF Moved, IsBuffer, Web!NoMessage
    <3>5. CASE g.op \in NoText
      <4>1. m = Web!Abort(u)
        BY <3>3, <3>5 DEF Web!HandleMessage, NoText
      <4>2. LostIn(fs, k, u.delivered)
        BY <1>1, <3>3, <3>5 DEF OutOfPlace
      <4> HIDE DEF u, k, m, tags
      <4>3. Later(Web!Abort(u), u) /\ Web!Abort(u).clientTerminated /\ u.read = k
        BY <3>3, <3>4, AbortLater DEF k
      <4>4. ReadTo(m, c, fs, k)
        BY <3>3, <3>4, <4>1, <4>2, <4>3, EndReads
      <4> QED
        BY <3>1, <4>4 DEF k
    <3>6. CASE g.op \notin NoText
      <4>1. /\ g.op \in {"text", "binary"}
            /\ Says(fs, k, Append(c.delivered, tags), Web!NoMessage, c.clientTerminated)
        BY <1>5, <2>6, <3>6, LastSays
      <4>2. m = Web!OnMessage(u, tags, reaction, lost)
        BY <3>3, <4>1 DEF Web!HandleMessage
      <4> HIDE DEF u, k, m, tags
      <4>3. Says(fs, k, Append(u.delivered, tags), u.fragmented, u.clientTerminated) /\ u.read = k
        BY <3>3, <4>1 DEF k
      <4>4. ReadTo(m, c, fs, k)
        BY <3>3, <3>4, <4>2, <4>3, MessageReads
      <4> QED
        BY <3>1, <4>4 DEF k
    <3> QED
      BY <3>5, <3>6
  <2> QED
    BY <2>4, <2>5, <2>6
<1>6. CASE f.op \notin Web!Control \cup {"cont"}
  <2> DEFINE h == [op |-> f.op, tags |-> <<k>>]
             x == [c EXCEPT !.fragmented = h]
  <2>1. v = IF g # Web!NoMessage THEN Web!Abort(c) ELSE IF f.fin THEN whole ELSE x
    BY <1>6 DEF Web!FrameData, Web!Finished
  <2>2. IsData(f) /\ f.op \in {"text", "binary"} \cup NoText
    <3>1. f.op \in {"text", "garbled", "binary", "cont", "unknown"} \cup Web!Control
      BY DEF Web!FrameType
    <3> QED
      BY <1>6, <3>1 DEF IsData, NoText
  <2>3. CASE g # Web!NoMessage
    <3>1. OutOfPlace(f, g)
      BY <1>6, <2>2, <2>3 DEF OutOfPlace
    <3> QED
      BY <1>2, <2>1, <2>3, <3>1
  <2>4. CASE g = Web!NoMessage /\ f.fin
    <3>1. CASE f.op \in {"text", "binary"}
      BY <1>3, <2>1, <2>4, <3>1
    <3>2. CASE f.op \in NoText
      <4>1. whole = Web!Abort(c)
        BY <3>2 DEF Web!HandleMessage, NoText
      <4>2. OutOfPlace(f, g)
        BY <3>2 DEF OutOfPlace
      <4> QED
        BY <1>2, <2>1, <2>4, <4>1, <4>2
    <3> QED
      BY <2>2, <3>1, <3>2
  <2>5. CASE g = Web!NoMessage /\ ~f.fin
    <3>1. h.op = f.op /\ h.tags = <<k>> /\ IsBuffer(h)
      BY DEF IsBuffer
    <3> HIDE DEF h
    <3>2. Says(fs, k, c.delivered, h, c.clientTerminated)
      BY <2>2, <2>5, <3>1, FirstSays
    <3> HIDE DEF k
    <3>3. /\ Moved(x, c) /\ x.read = c.read /\ x.delivered = c.delivered
          /\ x.fragmented = h /\ x.clientTerminated = c.clientTerminated
      BY FragmentedMoved
    <3>4. v = x
      BY <2>1, <2>5
    <3> HIDE DEF x
    <3>5. ReadTo(x, c, fs, k)
      BY <3>1, <3>2, <3>3 DEF ReadTo, k
    <3> QED
      BY <3>4, <3>5 DEF k
  <2> QED
    BY <2>3, <2>4, <2>5
<1> QED
  BY <1>4, <1>5, <1>6

\* Once the client has closed, frames are dropped.
LEMMA FrameDropped ==
    ASSUME NEW w, NEW fs, NEW f, NEW n, WsRecord(w), w.clientTerminated, IsBuffer(w.fragmented),
           Says(fs, w.read, w.delivered, w.fragmented, w.clientTerminated),
           NEW reaction, NEW lost
    PROVE  ReadTo(Web!FrameData(w, f, n, reaction, lost), w, fs, w.read)
<1> DEFINE g == w.fragmented
           v == Web!FrameData(w, f, n, reaction, lost)
           tags == Append(g.tags, n)
           h == [g EXCEPT !.tags = tags]
           i == [op |-> f.op, tags |-> <<n>>]
<1>0. IsBuffer(h) /\ IsBuffer(i) /\ IsBuffer(Web!NoMessage)
  <2> HIDE DEF tags
  <2>1. g = [op |-> g.op, tags |-> g.tags]
    BY DEF IsBuffer
  <2> HIDE DEF g
  <2>2. h = [op |-> g.op, tags |-> tags]
    BY <2>1
  <2> HIDE DEF h
  <2>3. IsBuffer(h)
    BY <2>2 DEF IsBuffer
  <2> QED
    BY <2>3 DEF IsBuffer, Web!NoMessage
<1>1. ReadTo(w, w, fs, w.read)
  BY LaterSame DEF Later, ReadTo
<1>2. ReadTo(Web!Abort(w), w, fs, w.read)
  BY <1>1, AbortLater, LaterReads
<1>3. \A j : IsBuffer(j) => ReadTo([w EXCEPT !.fragmented = j], w, fs, w.read)
  <2> SUFFICES ASSUME NEW j, IsBuffer(j) PROVE ReadTo([w EXCEPT !.fragmented = j], w, fs, w.read)
    OBVIOUS
  <2> DEFINE x == [w EXCEPT !.fragmented = j]
  <2>1. /\ Moved(x, w) /\ x.read = w.read /\ x.delivered = w.delivered
        /\ x.fragmented = j /\ x.clientTerminated = w.clientTerminated
    BY FragmentedMoved
  <2> HIDE DEF x
  <2>2. Says(fs, w.read, w.delivered, j, x.clientTerminated)
    BY <2>1 DEF Says
  <2>3. ReadTo(x, w, fs, w.read)
    BY <2>1, <2>2 DEF ReadTo
  <2> QED
    BY <2>3 DEF x
<1>4. v \in {w, Web!Abort(w), [w EXCEPT !.fragmented = Web!NoMessage], [w EXCEPT !.fragmented = h],
             [w EXCEPT !.fragmented = i]}
  <2>1. \A op, t : Web!HandleMessage(w, op, t, reaction, lost) = w
    BY DEF Web!HandleMessage
  <2> DEFINE u == Web!Cleared(w)
  <2>2. u = [w EXCEPT !.fragmented = Web!NoMessage]
    BY DEF Web!Cleared
  <2>3. u.clientTerminated
    BY <2>2 DEF WsRecord, WsFields
  <2>4. \A op, t : Web!HandleMessage(u, op, t, reaction, lost) = u
    BY <2>3 DEF Web!HandleMessage
  <2>5. CASE f.op \in Web!Control
    BY <2>1, <2>5 DEF Web!FrameData, Web!Control
  <2>6. CASE f.op \notin Web!Control /\ f.op = "cont"
    <3>1. v \in {Web!Abort(w), Web!HandleMessage(u, g.op, tags, reaction, lost),
                 [w EXCEPT !.fragmented = h]}
      BY <2>6 DEF Web!FrameData
    <3> QED
      BY <2>2, <2>4, <3>1
  <2>7. CASE f.op \notin Web!Control /\ f.op # "cont"
    BY <2>1, <2>7 DEF Web!FrameData
  <2> QED
    BY <2>5, <2>6, <2>7
<1> HIDE DEF h, i, v
<1>5. ReadTo(v, w, fs, w.read)
  BY <1>0, <1>1, <1>2, <1>3, <1>4
<1> QED
  BY <1>5 DEF v

-----------------------------------------------------------------------------
(* Where the connection is in what the client sent.                        *)

\* The first and the last piece of a frame, and how pieces follow.
Firsts == {"start", "type"}
Lasts == {"challenge", "data", "payload", "indicator"}
Adjacent(a, b) ==
    /\ b.what \in Firsts <=> a.what \in Lasts
    /\ b.what # "challenge"
    /\ b.frame = IF a.what \in Lasts THEN a.frame + 1 ELSE a.frame
PieceIn(p, fs) ==
    /\ p.frame <= Len(fs) /\ (p.frame = 0 <=> p.what = "challenge")
    /\ p.what = "payload" => fs[p.frame].op # "close"
    /\ p.what = "indicator" => fs[p.frame].op = "close"
Chained(s, fs) ==
    /\ \A i \in 2 .. Len(s) : Adjacent(s[i - 1], s[i])
    /\ s # <<>> => \/ s[1].what = "start" /\ s[1].frame = 1
                   \/ s[1].what = "challenge" /\ s[1].frame = 0
    /\ \A i \in 1 .. Len(s) : PieceIn(s[i], fs)
\* The frames are complete, but that the last one may be torn.
WholeSent(s, fs) == s # <<>> => s[Len(s)].what \in Lasts /\ s[Len(s)].frame = Len(fs)
SentIn(s, fs, l) == Chained(s, fs) /\ (s = <<>> => fs = <<>>) /\ (l = "up" => WholeSent(s, fs))
\* What draft 76 knows of frames.
Drafted(fs) ==
    \A i \in 1 .. Len(fs) : /\ fs[i].op \in {"text", "close", "unknown"} /\ fs[i].fin
                            /\ fs[i].broken => fs[i].op = "close"

\* One piece at a time is read: it is asked for, or its callback is in the queue.
NoPiece(q) == \A i \in 1 .. Len(q) : q[i] = ClosedPiece
HasPiece(q, p) ==
    \E i \in 1 .. Len(q) : q[i] = p /\ \A j \in 1 .. Len(q) : j # i => q[j] = ClosedPiece
Handled(w, h) ==
    \/ h = w.used /\ NoPiece(w.queue)
    \/ h + 1 = w.used /\ w.reading = "none" /\ HasPiece(w.queue, w.input[w.used])
\* The frames that the first h pieces complete; what is begun is what may be.
FramesIn(s, h) ==
    IF h = 0 THEN 0 ELSE IF s[h].what \in Lasts THEN s[h].frame ELSE s[h].frame - 1
Begun(s, fs, h) ==
    h # 0 => /\ s[h].what \in {"start", "length", "mask"} => ~fs[s[h].frame].broken
             /\ s[h].what = "type" => fs[s[h].frame].op # "unknown"
Counts(w, fs, h) == w.clientTerminated \/ (w.read = FramesIn(w.input, h) /\ Begun(w.input, fs, h))

\* What the client sent is not touched here.
Told(w, fs) ==
    /\ w.input = ws.input /\ w.protocol = ws.protocol
    /\ w.read \in 0 .. Len(fs) /\ IsBuffer(w.fragmented)
    /\ w.protocol = 76 => w.fragmented = Web!NoMessage
    /\ Says(fs, w.read, w.delivered, w.fragmented, w.clientTerminated)
MsgMid(w, fs) == Told(w, fs) /\ \E h \in 0 .. w.used : Handled(w, h) /\ Counts(w, fs, h)
\* No read is under way.
MsgBetween(w, fs) == Told(w, fs) /\ NoPiece(w.queue) /\ Counts(w, fs, w.used)

MsgInv ==
    /\ SentIn(ws.input, frames, link)
    /\ ws.protocol = 76 => Drafted(frames)
    /\ MsgMid(ws, frames)

LEMMA PieceFollows ==
    ASSUME NEW fs, NEW protocol \in {13, 76}, NEW s \in Seq(WsPieces(protocol)), Chained(s, fs),
           Len(fs) \in Nat, NEW h \in 1 .. Len(s)
    PROVE  LET p == s[h]
           IN  /\ p \in WsPieces(protocol) /\ PieceIn(p, fs)
               /\ IF p.what = "challenge" THEN FramesIn(s, h) = FramesIn(s, h - 1)
                  ELSE p.frame \in 1 .. Len(fs) /\ FramesIn(s, h - 1) = p.frame - 1
               /\ p.what \notin {"start", "type", "challenge"} /\ Begun(s, fs, h - 1) =>
                     IF protocol = 13 THEN ~fs[p.frame].broken ELSE fs[p.frame].op # "unknown"
<1> DEFINE p == s[h]
           a == s[h - 1]
<1>1. p \in WsPieces(protocol) /\ p.frame \in Nat /\ PieceIn(p, fs)
  <2>1. p \in WsPieces(protocol) /\ PieceIn(p, fs)
    BY DEF Chained
  <2> QED
    BY <2>1 DEF WsPieces
<1>2. p.what # "challenge" => p.frame \in 1 .. Len(fs)
  BY <1>1 DEF PieceIn
<1>3. CASE h = 1
  <2>1. \/ p.what = "start" /\ p.frame = 1
        \/ p.what = "challenge" /\ p.frame = 0
    <3>1. s # <<>>
      BY <1>3
    <3> QED
      BY <1>3, <3>1 DEF Chained
  <2> HIDE DEF p
  <2>2. FramesIn(s, h - 1) = 0
    BY <1>3 DEF FramesIn
  <2>3. p.what = "challenge" => FramesIn(s, h) = 0
    BY <1>3, <2>1 DEF FramesIn, Lasts, p
  <2> QED
    BY <1>1, <1>2, <2>1, <2>2, <2>3 DEF p
<1>4. CASE h # 1
  <2>1. h \in 2 .. Len(s) /\ h - 1 \in 1 .. Len(s)
    BY <1>4
  <2>2. Adjacent(a, p) /\ a \in WsPieces(protocol) /\ PieceIn(a, fs)
    BY <2>1 DEF Chained
  <2>3. a.frame \in Nat /\ (protocol = 13 => a.what \in {"challenge", "start", "length", "mask", "data"})
        /\ (protocol = 76 => a.what \in {"challenge", "type", "payload", "indicator"})
    BY <2>2 DEF WsPieces
  <2>4. FramesIn(s, h - 1) = IF a.what \in Lasts THEN a.frame ELSE a.frame - 1
    BY <2>1 DEF FramesIn
  <2>5. Begun(s, fs, h - 1) => /\ a.what \in {"start", "length", "mask"} => ~fs[a.frame].broken
                               /\ a.what = "type" => fs[a.frame].op # "unknown"
    BY <2>1 DEF Begun
  <2> HIDE DEF p, a
  <2>6. p.what # "challenge" /\ p.frame = IF a.what \in Lasts THEN a.frame + 1 ELSE a.frame
    BY <2>2 DEF Adjacent
  <2>7. FramesIn(s, h - 1) = p.frame - 1
    BY <2>3, <2>4, <2>6
  <2>8. p.what \notin {"start", "type", "challenge"} => a.what \notin Lasts /\ a.frame = p.frame
    BY <2>2, <2>6 DEF Adjacent, Firsts
  <2>9. p.what \notin {"start", "type", "challenge"} /\ Begun(s, fs, h - 1) =>
          IF protocol = 13 THEN ~fs[p.frame].broken ELSE fs[p.frame].op # "unknown"
    BY <2>3, <2>5, <2>8 DEF Lasts
  <2> QED
    BY <1>1, <1>2, <2>6, <2>7, <2>9 DEF p
<1> QED
  BY <1>3, <1>4

\* What is done without reading leaves the place where it is.
LEMMA LaterTold ==
    ASSUME NEW v, NEW w, NEW fs, Later(v, w), Told(w, fs)
    PROVE  Told(v, fs)
<1>1. /\ Says(fs, w.read, w.delivered, w.fragmented, w.clientTerminated)
      /\ w.clientTerminated => v.clientTerminated
  BY DEF Told, Later, Moved
<1>2. Says(fs, w.read, w.delivered, w.fragmented, v.clientTerminated)
  BY <1>1 DEF Says
<1> QED
  BY <1>2 DEF Told, Later, Moved

LEMMA QueueLater ==
    ASSUME NEW v, NEW w, Moved(v, w)
    PROVE  /\ NoPiece(w.queue) => NoPiece(v.queue)
           /\ \A p : HasPiece(w.queue, p) => HasPiece(v.queue, p)
<1>1. NoPiece(<<ClosedPiece>>) /\ \A p : ~HasPiece(<<>>, p)
  BY DEF NoPiece, HasPiece
<1> QED
  BY <1>1 DEF Moved

LEMMA LaterMid ==
    ASSUME NEW v, NEW w, NEW fs, Later(v, w), MsgMid(w, fs)
    PROVE  MsgMid(v, fs)
<1>1. PICK h \in 0 .. w.used : Handled(w, h) /\ Counts(w, fs, h)
  BY DEF MsgMid
<1>2. /\ v.used = w.used /\ v.reading = w.reading /\ v.input = w.input /\ v.read = w.read
      /\ w.clientTerminated => v.clientTerminated
      /\ NoPiece(w.queue) => NoPiece(v.queue)
      /\ \A p : HasPiece(w.queue, p) => HasPiece(v.queue, p)
  BY QueueLater DEF Later, Moved
<1>3. Handled(v, h)
  BY <1>1, <1>2 DEF Handled
<1>4. Counts(v, fs, h)
  BY <1>1, <1>2 DEF Counts
<1> QED
  BY <1>1, <1>2, <1>3, <1>4, LaterTold DEF MsgMid

LEMMA BetweenMid ==
    ASSUME NEW w, NEW fs, MsgBetween(w, fs), w.used \in Nat
    PROVE  MsgMid(w, fs)
BY DEF MsgBetween, MsgMid, Handled

\* Nothing is read any more.
LEMMA EndMid ==
    ASSUME NEW v, NEW w, NEW fs, Later(v, w), v.clientTerminated, Told(w, fs), NoPiece(w.queue)
    PROVE  MsgBetween(v, fs)
BY LaterTold, QueueLater DEF MsgBetween, Counts, Later

\* After a frame, the connection is between two.
LEMMA ReadBetween ==
    ASSUME NEW v, NEW w, NEW fs, NEW n \in 0 .. Len(fs), ReadTo(v, w, fs, n),
           Told(w, fs), NoPiece(w.queue),
           v.protocol = 76 => v.fragmented = Web!NoMessage,
           v.clientTerminated \/ (n = FramesIn(w.input, w.used) /\ Begun(w.input, fs, w.used))
    PROVE  MsgBetween(v, fs)
<1>1. Moved(v, w) /\ v.read = n /\ v.input = w.input /\ v.used = w.used
  BY DEF ReadTo, Moved
<1>2. NoPiece(v.queue)
  BY <1>1, QueueLater
<1>3. Told(v, fs)
  BY DEF ReadTo, Told, Moved
<1> QED
  BY <1>1, <1>2, <1>3 DEF MsgBetween, Counts

\* A piece is handed over, when there is one that is asked for.
LEMMA DeliverMid ==
    ASSUME NEW w, NEW fs, WsMid(w), MsgMid(w, fs)
    PROVE  MsgMid(Web!Deliver(w), fs)
<1>1. CASE w.reading = "none" \/ w.got = w.used
  BY <1>1 DEF Web!Deliver
<1>2. CASE ~(w.reading = "none" \/ w.got = w.used)
  <2> DEFINE p == w.input[w.used + 1]
             v == [w EXCEPT !.reading = "none", !.used = @ + 1, !.queue = Append(@, p)]
  <2>1. Web!Deliver(w) = v
    BY <1>2 DEF Web!Deliver
  <2>2. WsRecord(w) /\ w.used \in Nat /\ w.queue \in Seq(WsPieces(w.protocol) \cup {ClosedPiece})
    BY DEF WsMid, WsBase, WsTypes
  <2>3. NoPiece(w.queue) /\ Counts(w, fs, w.used) /\ Told(w, fs)
    BY <1>2 DEF MsgMid, Handled
  <2> HIDE DEF p
  <2>4. /\ WsRecord(v) /\ v.reading = "none" /\ v.used = w.used + 1 /\ v.queue = Append(w.queue, p)
        /\ v.protocol = w.protocol /\ v.input = w.input /\ v.clientTerminated = w.clientTerminated
        /\ v.read = w.read /\ v.delivered = w.delivered /\ v.fragmented = w.fragmented
    BY <2>2 DEF WsRecord, WsFields
  <2>5. p = v.input[v.used]
    BY <2>4 DEF p
  <2> HIDE DEF v
  <2>6. HasPiece(v.queue, p)
    <3>1. /\ Len(v.queue) = Len(w.queue) + 1 /\ v.queue[Len(w.queue) + 1] = p /\ Len(w.queue) \in Nat
          /\ \A i \in 1 .. Len(w.queue) : v.queue[i] = w.queue[i]
      BY <2>2, <2>4
    <3>2. \A j \in 1 .. Len(w.queue) + 1 : j # Len(w.queue) + 1 => j \in 1 .. Len(w.queue)
      BY <3>1
    <3>3. Len(w.queue) + 1 \in 1 .. Len(v.queue)
      BY <3>1
    <3> QED
      BY <2>3, <3>1, <3>2, <3>3 DEF HasPiece, NoPiece
  <2>7. Handled(v, w.used) /\ w.used \in 0 .. v.used
    <3>1. w.used + 1 = v.used /\ w.used \in 0 .. v.used
      BY <2>2, <2>4
    <3> QED
      BY <2>4, <2>5, <2>6, <3>1 DEF Handled
  <2>8. Counts(v, fs, w.used) /\ Told(v, fs)
    BY <2>3, <2>4 DEF Counts, Told
  <2> QED
    BY <2>1, <2>7, <2>8 DEF MsgMid
<1> QED
  BY <1>1, <1>2

\* What was sent is there, and the end of it may show.
LEMMA FillLater ==
    ASSUME NEW w, NEW b, WsRecord(w)
    PROVE  Later([Web!Fill(w) EXCEPT !.open = b], w)
<1> DEFINE v == [Web!Fill(w) EXCEPT !.open = b]
<1>1. /\ WsRecord(v) /\ v.protocol = w.protocol /\ v.input = w.input /\ v.used = w.used
      /\ v.reading = w.reading /\ v.clientTerminated = w.clientTerminated /\ v.queue = w.queue
      /\ v.read = w.read /\ v.delivered = w.delivered /\ v.fragmented = w.fragmented
  BY DEF WsRecord, WsFields, Web!Fill
<1> HIDE DEF v
<1>2. Later(v, w)
  BY <1>1 DEF Later, Moved
<1> QED
  BY <1>2 DEF v

LEMMA StartMid ==
    ASSUME NEW w, NEW what, NEW fs, WsMid(w), MsgBetween(w, fs)
    PROVE  MsgMid(Web!StartRead(w, what), fs)
<1> DEFINE v == [w EXCEPT !.reading = what]
<1>0. WsRecord(w) /\ w.used \in Nat
  BY DEF WsMid, WsBase, WsTypes
<1>1. WsMid(v)
  BY WsOther
<1>2. /\ WsRecord(v) /\ v.used = w.used /\ v.queue = w.queue
      /\ v.protocol = w.protocol /\ v.input = w.input /\ v.clientTerminated = w.clientTerminated
      /\ v.read = w.read /\ v.delivered = w.delivered /\ v.fragmented = w.fragmented
      /\ v.open = w.open /\ v.got = w.got
  BY <1>0 DEF WsRecord, WsFields
<1>3. Web!StartRead(w, what) =
        IF w.got > w.used THEN Web!Deliver(v)
        ELSE IF ~w.open \/ link = "reset" THEN [v EXCEPT !.open = FALSE, !.ok = FALSE]
        ELSE Web!Deliver([Web!Fill(v) EXCEPT !.open = link = "up"])
  BY DEF Web!StartRead
<1> HIDE DEF v
<1>4. MsgMid(v, fs)
  <2>1. MsgBetween(v, fs)
    BY <1>2 DEF MsgBetween, Told, Counts
  <2> QED
    BY <1>0, <1>2, <2>1, BetweenMid
<1>5. CASE w.got > w.used
  BY <1>1, <1>3, <1>4, <1>5, DeliverMid
<1>6. CASE ~(w.got > w.used) /\ (~w.open \/ link = "reset")
  <2> DEFINE no == FALSE
             u == [v EXCEPT !.open = no]
             x == [u EXCEPT !.ok = no]
  <2>1. Web!StartRead(w, what) = x
    BY <1>3, <1>6
  <2> HIDE DEF no
  <2>2. Later(u, v)
    BY <1>2, LaterFields
  <2> HIDE DEF u
  <2>3. Later(x, u)
    BY <2>2, LaterFields DEF Later, Moved
  <2> HIDE DEF x
  <2> QED
    BY <1>4, <2>1, <2>2, <2>3, LaterMid
<1>7. CASE ~(w.got > w.used) /\ ~(~w.open \/ link = "reset")
  <2> DEFINE b == link = "up"
             x == [Web!Fill(v) EXCEPT !.open = b]
  <2>1. b \in BOOLEAN
    OBVIOUS
  <2>2. Web!StartRead(w, what) = Web!Deliver(x)
    BY <1>3, <1>7
  <2> HIDE DEF b
  <2>3. WsMid(x)
    BY <1>1, <1>2, <1>7, <2>1, FillKeeps
  <2>4. Later(x, v)
    BY <1>2, FillLater
  <2> HIDE DEF x
  <2>5. MsgMid(x, fs)
    BY <1>4, <2>4, LaterMid
  <2> QED
    BY <2>2, <2>3, <2>5, DeliverMid
<1> QED
  BY <1>5, <1>6, <1>7

-----------------------------------------------------------------------------
(* A piece is handled.                                                     *)

\* w is about to handle the last piece that was handed over.
Handling(w, fs) ==
    /\ WsMid(w) /\ NoPiece(w.queue) /\ Told(w, fs)
    /\ w.used \in 1 .. Len(w.input) /\ Counts(w, fs, w.used - 1)
    /\ Chained(w.input, fs) /\ fs \in Seq(Frames)
    /\ w.protocol = 76 => Drafted(fs)

LEMMA HandlingTypes ==
    ASSUME NEW w, NEW fs, Handling(w, fs)
    PROVE  /\ WsRecord(w) /\ w.protocol \in {13, 76} /\ w.input \in Seq(WsPieces(w.protocol))
           /\ w.used \in Nat /\ w.used # 0 /\ Len(fs) \in Nat /\ w.read \in Nat
           /\ \A i \in 1 .. Len(fs) : fs[i] \in Web!FrameType
<1>1. WsRecord(w) /\ w.protocol \in {13, 76} /\ w.input \in Seq(WsPieces(w.protocol))
      /\ w.used \in Nat
  BY DEF Handling, WsMid, WsBase, WsTypes
<1>2. w.used # 0 /\ fs \in Seq(Frames)
  BY DEF Handling
<1>3. Len(fs) \in Nat /\ \A i \in 1 .. Len(fs) : fs[i] \in Frames
  BY <1>2
<1>4. w.read \in Nat
  <2>1. w.read \in 0 .. Len(fs)
    BY DEF Handling, Told
  <2> QED
    BY <1>3, <2>1
<1> QED
  BY <1>1, <1>2, <1>3, <1>4, InputsAssumption

\* A piece that is not the last of its frame: the next one is awaited.
LEMMA NextPieceMid ==
    ASSUME NEW w, NEW fs, Handling(w, fs), NEW what,
           Counts(w, fs, w.used)
    PROVE  MsgMid(Web!StartRead(w, what), fs)
<1>1. WsMid(w) /\ MsgBetween(w, fs)
  BY DEF Handling, MsgBetween
<1> QED
  BY <1>1, StartMid

LEMMA AbortMid ==
    ASSUME NEW w, NEW fs, Handling(w, fs)
    PROVE  MsgMid(Web!Abort(w), fs)
<1> DEFINE v == Web!Abort(w)
<1>1. Later(v, w) /\ v.clientTerminated
  BY HandlingTypes, AbortLater
<1> HIDE DEF v
<1>2. MsgBetween(v, fs) /\ v.used \in Nat
  BY <1>1, HandlingTypes, EndMid DEF Handling, Later, Moved
<1> QED
  BY <1>2, BetweenMid DEF v

LEMMA Run13Mid ==
    ASSUME NEW w, NEW fs, Handling(w, fs), w.protocol = 13,
           NEW reaction \in Web!Reactions, NEW lost, w.input[w.used].what # "challenge"
    PROVE  LET p == w.input[w.used]
           IN  MsgMid(Web!Run13(w, p.what, fs[p.frame], p.frame, reaction, lost), fs)
<1> DEFINE s == w.input
           h == w.used
           p == s[h]
           n == p.frame
           f == fs[n]
           v == Web!Run13(w, p.what, f, n, reaction, lost)
<1>0. /\ WsRecord(w) /\ s \in Seq(WsPieces(13)) /\ h \in 1 .. Len(s) /\ h # 0 /\ Len(fs) \in Nat
      /\ Chained(s, fs) /\ w.read \in Nat /\ h \in Nat
      /\ \A i \in 1 .. Len(fs) : fs[i] \in Web!FrameType
  BY HandlingTypes DEF Handling
<1>1. /\ p \in WsPieces(13)
      /\ p.what # "challenge" => n \in 1 .. Len(fs) /\ FramesIn(s, h - 1) = n - 1
      /\ p.what \notin {"start", "type", "challenge"} /\ Begun(s, fs, h - 1) => ~f.broken
  <2> HIDE DEF s, h
  <2>1. 13 \in {13, 76}
    OBVIOUS
  <2> QED
    BY <1>0, <2>1, PieceFollows
<1>2. p.what \in {"start", "length", "mask", "data"}
  BY <1>1 DEF WsPieces
<1>3. n \in 1 .. Len(fs) /\ FramesIn(s, h - 1) = n - 1 /\ f \in Web!FrameType
  BY <1>0, <1>1, <1>2
<1>4. w.clientTerminated \/ (w.read = n - 1 /\ Begun(s, fs, h - 1))
  BY <1>3 DEF Handling, Counts
<1>5. FramesIn(s, h) = IF p.what = "data" THEN n ELSE n - 1
  BY <1>0, <1>2 DEF FramesIn, Lasts
<1>6. Begun(s, fs, h) <=> (p.what \in {"start", "length", "mask"} => ~f.broken)
  BY <1>0, <1>2 DEF Begun
<1> HIDE DEF s, h, p, n, f
<1>7. CASE p.what # "data"
  <2>1. ASSUME ~f.broken \/ p.what # "start" PROVE Counts(w, fs, w.used)
    <3>1. CASE w.clientTerminated
      BY <3>1 DEF Counts
    <3>2. CASE ~w.clientTerminated
      <4>1. ~f.broken
        BY <1>1, <1>2, <1>4, <2>1, <3>2
      <4> QED
        BY <1>4, <1>5, <1>6, <1>7, <3>2, <4>1 DEF Counts, s, h
    <3> QED
      BY <3>1, <3>2
  <2>2. CASE p.what = "start"
    <3>1. v = IF f.broken THEN Web!Abort(w)
              ELSE Web!StartRead(w, IF f.long THEN "length" ELSE "mask")
      BY <2>2 DEF Web!Run13
    <3>2. CASE f.broken
      BY <3>1, <3>2, AbortMid DEF s, h, p, n, f
    <3>3. CASE ~f.broken
      <4> DEFINE what == IF f.long THEN "length" ELSE "mask"
      <4>1. v = Web!StartRead(w, what)
        BY <3>1, <3>3
      <4> HIDE DEF what, v
      <4>2. MsgMid(v, fs)
        BY <2>1, <3>3, <4>1, NextPieceMid
      <4> QED
        BY <4>2 DEF v, s, h, p, n, f
    <3> QED
      BY <3>2, <3>3
  <2>3. CASE p.what # "start"
    <3> DEFINE what == IF p.what = "length" THEN "mask" ELSE "data"
    <3>1. v = Web!StartRead(w, what)
      BY <1>2, <1>7, <2>3 DEF Web!Run13
    <3> HIDE DEF what, v
    <3>2. MsgMid(v, fs)
      BY <2>1, <2>3, <3>1, NextPieceMid
    <3> QED
      BY <3>2 DEF v, s, h, p, n, f
  <2> QED
    BY <2>2, <2>3
<1>8. CASE p.what = "data"
  <2> DEFINE c == Web!Counted(w)
             d == Web!FrameData(c, f, n, reaction, lost)
  <2>1. v = Web!ThenRead(d, "start")
    BY <1>8 DEF Web!Run13
  <2>2. WsMid(d)
    <3>1. WsMid(c)
      BY CountedKeeps DEF Handling
    <3> HIDE DEF c
    <3> QED
      BY <3>1, FrameDataKeeps
  <2>3. NoPiece(w.queue) /\ Told(w, fs) /\ IsBuffer(w.fragmented) /\ w.read \in 0 .. Len(fs)
        /\ Says(fs, w.read, w.delivered, w.fragmented, w.clientTerminated)
    BY DEF Handling, Told
  <2>4. MsgBetween(d, fs)
    <3>1. CASE w.clientTerminated
      <4>1. c = w
        BY <3>1 DEF Web!Counted
      <4>2. ReadTo(d, w, fs, w.read)
        BY <1>0, <2>3, <3>1, <4>1, FrameDropped
      <4> HIDE DEF d
      <4>3. d.clientTerminated /\ d.protocol = 13
        BY <3>1, <4>2 DEF ReadTo, Moved
      <4> QED
        BY <2>3, <4>2, <4>3, ReadBetween
    <3>2. CASE ~w.clientTerminated
      <4> DEFINE k == w.read + 1
      <4>1. k = n /\ ~f.broken
        BY <1>0, <1>1, <1>3, <1>4, <1>8, <3>2
      <4>2. c = [w EXCEPT !.read = k]
        BY <3>2 DEF Web!Counted
      <4> HIDE DEF k
      <4>3. /\ Moved(c, w) /\ WsRecord(c) /\ c.read = k /\ c.delivered = w.delivered
            /\ c.fragmented = w.fragmented /\ c.clientTerminated = w.clientTerminated
            /\ c.queue = w.queue
        <5>1. /\ WsRecord(c) /\ c.protocol = w.protocol /\ c.input = w.input /\ c.used = w.used
              /\ c.reading = w.reading /\ c.read = k /\ c.delivered = w.delivered
              /\ c.fragmented = w.fragmented /\ c.clientTerminated = w.clientTerminated
              /\ c.queue = w.queue
          BY <1>0, <4>2 DEF WsRecord, WsFields
        <5> HIDE DEF c
        <5> QED
          BY <5>1 DEF Moved
      <4> HIDE DEF c
      <4>4. ReadTo(d, c, fs, k)
        <5> DEFINE r == w.read
        <5>1. r \in Nat /\ k = r + 1 /\ f = fs[r + 1]
          BY <1>0, <4>1 DEF k, f
        <5>2. Says(fs, r, c.delivered, c.fragmented, c.clientTerminated)
          BY <2>3, <4>3
        <5> HIDE DEF r
        <5>3. ReadTo(Web!FrameData(c, f, r + 1, reaction, lost), c, fs, r + 1)
          BY <1>3, <2>3, <3>2, <4>1, <4>3, <5>1, <5>2, FrameReads
        <5> QED
          BY <4>1, <5>1, <5>3
      <4> HIDE DEF d
      <4>5. ReadTo(d, w, fs, k) /\ d.protocol = 13
        BY <4>3, <4>4, MovedOn DEF ReadTo, Moved
      <4>6. k = FramesIn(w.input, w.used) /\ Begun(w.input, fs, w.used)
        BY <1>5, <1>6, <1>8, <4>1 DEF s, h
      <4>7. k \in 0 .. Len(fs)
        BY <1>0, <1>3, <4>1
      <4> QED
        BY <2>3, <4>5, <4>6, <4>7, ReadBetween
    <3> QED
      BY <3>1, <3>2
  <2>5. d.used \in Nat
    BY <2>2 DEF WsMid, WsBase, WsTypes
  <2> HIDE DEF d
  <2>6. MsgMid(d, fs) /\ MsgMid(Web!StartRead(d, "start"), fs)
    BY <2>2, <2>4, <2>5, BetweenMid, StartMid
  <2>7. MsgMid(v, fs)
    BY <2>1, <2>6 DEF Web!ThenRead
  <2> QED
    BY <2>7 DEF s, h, p, n, f
<1> QED
  BY <1>7, <1>8 DEF s, h, p, n, f

\* Draft 76 has texts of one frame only.
LEMMA Run76Mid ==
    ASSUME NEW w, NEW fs, Handling(w, fs), w.protocol = 76,
           NEW reaction \in Web!Reactions, NEW lost, w.input[w.used].what # "challenge"
    PROVE  LET p == w.input[w.used]
           IN  MsgMid(Web!Run76(w, p.what, fs[p.frame], p.frame, reaction, lost), fs)
<1> DEFINE s == w.input
           h == w.used
           p == s[h]
           n == p.frame
           f == fs[n]
           k == w.read + 1
           c == [w EXCEPT !.read = k]
           v == Web!Run76(w, p.what, f, n, reaction, lost)
<1>0. /\ WsRecord(w) /\ s \in Seq(WsPieces(76)) /\ h \in 1 .. Len(s) /\ h # 0 /\ Len(fs) \in Nat
      /\ Chained(s, fs) /\ w.read \in Nat /\ h \in Nat
      /\ \A i \in 1 .. Len(fs) : fs[i] \in Web!FrameType
  BY HandlingTypes DEF Handling
<1>1. /\ p \in WsPieces(76) /\ PieceIn(p, fs) /\ n \in 1 .. Len(fs) /\ FramesIn(s, h - 1) = n - 1
      /\ p.what \notin {"start", "type", "challenge"} /\ Begun(s, fs, h - 1) => f.op # "unknown"
  <2> HIDE DEF s, h
  <2>1. /\ s \in Seq(WsPieces(76)) /\ h \in 1 .. Len(s) /\ Chained(s, fs) /\ Len(fs) \in Nat
        /\ 76 \in {13, 76} /\ 76 # 13
    BY <1>0
  <2>2. /\ s[h] \in WsPieces(76) /\ PieceIn(s[h], fs)
        /\ s[h].what = "challenge" \/ (s[h].frame \in 1 .. Len(fs) /\ FramesIn(s, h - 1) = s[h].frame - 1)
        /\ s[h].what \notin {"start", "type", "challenge"} /\ Begun(s, fs, h - 1) =>
              fs[s[h].frame].op # "unknown"
    BY ONLY <2>1, PieceFollows
  <2>3. s[h].what # "challenge"
    BY DEF s, h
  <2> QED
    BY <2>2, <2>3
<1>2. p.what \in {"type", "payload", "indicator"}
  BY <1>1 DEF WsPieces
<1>3. w.clientTerminated \/ (w.read = n - 1 /\ Begun(s, fs, h - 1))
  BY <1>1 DEF Handling, Counts
<1>4. FramesIn(s, h) = IF p.what = "type" THEN n - 1 ELSE n
  BY <1>0, <1>2 DEF FramesIn, Lasts
<1>5. Begun(s, fs, h) <=> (p.what = "type" => f.op # "unknown")
  BY <1>0, <1>2 DEF Begun
<1>6. NoPiece(w.queue) /\ Told(w, fs) /\ WsMid(w) /\ IsBuffer(w.fragmented)
      /\ w.fragmented = Web!NoMessage
      /\ Says(fs, w.read, w.delivered, w.fragmented, w.clientTerminated)
  BY DEF Handling, Told
<1>7. /\ f.op \in {"text", "close", "unknown"} /\ f.fin /\ (f.broken => f.op = "close")
      /\ p.what = "payload" => f.op # "close"
      /\ p.what = "indicator" => f.op = "close"
  BY <1>1 DEF Handling, Drafted, PieceIn
<1> HIDE DEF k
<1>8. /\ WsRecord(c) /\ Moved(c, w) /\ c.read = k /\ c.delivered = w.delivered
      /\ c.fragmented = w.fragmented /\ c.clientTerminated = w.clientTerminated
      /\ c.queue = w.queue /\ c.protocol = 76
  BY <1>0 DEF Moved, WsRecord, WsFields
<1>9. Web!Counted(w) = IF w.clientTerminated THEN w ELSE c
  BY DEF Web!Counted, k
<1>10. WsMid(c)
  BY <1>6, WsOther
<1> HIDE DEF s, h, p, n, f, c
<1>11. ~w.clientTerminated => k = n /\ k \in 0 .. Len(fs) /\ f = fs[w.read + 1]
  BY <1>0, <1>1, <1>3 DEF f, k
<1>12. CASE p.what = "type"
  <2>1. v = IF f.op = "unknown" THEN Web!Abort(w)
            ELSE Web!StartRead(w, IF f.op = "close" THEN "indicator" ELSE "payload")
    BY <1>12 DEF Web!Run76
  <2>2. CASE f.op = "unknown"
    BY <2>1, <2>2, AbortMid DEF s, h, p, n, f
  <2>3. CASE f.op # "unknown"
    <3> DEFINE what == IF f.op = "close" THEN "indicator" ELSE "payload"
    <3>1. v = Web!StartRead(w, what)
      BY <2>1, <2>3
    <3>2. Counts(w, fs, w.used)
      BY <1>1, <1>3, <1>4, <1>5, <1>12, <2>3 DEF Counts, s, h
    <3> HIDE DEF what, v
    <3>3. MsgMid(v, fs)
      BY <3>1, <3>2, NextPieceMid
    <3> QED
      BY <3>3 DEF v, s, h, p, n, f
  <2> QED
    BY <2>2, <2>3
<1>13. CASE p.what = "payload"
  <2> DEFINE m == Web!OnMessage(c, <<n>>, reaction, lost)
             d == IF w.clientTerminated THEN w ELSE m
  <2>1. v = Web!ThenRead(d, "type")
    BY <1>9, <1>13 DEF Web!Run76
  <2>2. WsMid(d)
    BY <1>6, <1>10, OnMessageKeeps
  <2>3. MsgBetween(d, fs)
    <3>1. CASE w.clientTerminated
      BY <1>6, <3>1 DEF MsgBetween, Counts
    <3>2. CASE ~w.clientTerminated
      <4>1. f.op = "text" /\ f.fin /\ ~f.broken
        BY <1>1, <1>3, <1>7, <1>13, <3>2
      <4>2. Says(fs, k, Append(c.delivered, <<n>>), c.fragmented, c.clientTerminated)
        <5> DEFINE r == w.read
        <5>1. r \in Nat /\ k = r + 1 /\ n = r + 1 /\ f = fs[r + 1]
          BY <1>0, <1>11, <3>2 DEF k
        <5>2. Says(fs, r, c.delivered, c.fragmented, c.clientTerminated) /\ c.fragmented = Web!NoMessage
          BY <1>6, <1>8
        <5> HIDE DEF r
        <5>3. Says(fs, r + 1, Append(c.delivered, <<r + 1>>), c.fragmented, c.clientTerminated)
          BY <1>8, <3>2, <4>1, <5>1, <5>2, WholeSays
        <5> QED
          BY <5>1, <5>3
      <4>3. IsBuffer(c.fragmented)
        BY <1>6, <1>8
      <4>4. ReadTo(m, w, fs, k) /\ m.fragmented = c.fragmented
        <5> DEFINE tags == <<n>>
        <5>1. /\ Moved(c, w) /\ c.read = k /\ IsBuffer(c.fragmented)
              /\ Says(fs, k, Append(c.delivered, tags), c.fragmented, c.clientTerminated)
              /\ reaction \in Web!Reactions
          BY <1>8, <4>2, <4>3
        <5> HIDE DEF tags
        <5>2. LET y == Web!OnMessage(c, tags, reaction, lost)
              IN  ReadTo(y, w, fs, k) /\ y.fragmented = c.fragmented
          BY ONLY <5>1, MessageReads
        <5> QED
          BY <5>2 DEF tags
      <4> HIDE DEF m
      <4>5. k = FramesIn(w.input, w.used) /\ Begun(w.input, fs, w.used)
        BY <1>4, <1>5, <1>11, <1>13, <3>2 DEF s, h
      <4>6. MsgBetween(m, fs)
        BY <1>6, <1>8, <1>11, <3>2, <4>4, <4>5, ReadBetween
      <4> QED
        BY <3>2, <4>6
    <3> QED
      BY <3>1, <3>2
  <2>4. d.used \in Nat
    BY <2>2 DEF WsMid, WsBase, WsTypes
  <2> HIDE DEF d
  <2>5. MsgMid(d, fs) /\ MsgMid(Web!StartRead(d, "type"), fs)
    BY <2>2, <2>3, <2>4, BetweenMid, StartMid
  <2>6. MsgMid(v, fs)
    BY <2>1, <2>5 DEF Web!ThenRead
  <2> QED
    BY <2>6 DEF s, h, p, n, f
<1>14. CASE p.what = "indicator"
  <2> DEFINE b == Web!Counted(w)
             x == Web!Close([b EXCEPT !.clientTerminated = TRUE], lost)
  <2>1. v = IF f.broken THEN Web!Abort(w) ELSE x
    BY <1>14 DEF Web!Run76
  <2>2. MsgBetween(x, fs) /\ x.used \in Nat
    <3>0. WsRecord(b)
      BY <1>0, <1>8, <1>9
    <3>1. Later(x, b) /\ x.clientTerminated
      BY <3>0, ClientClosedLater
    <3>2. CASE w.clientTerminated
      <4>1. b = w
        BY <1>9, <3>2
      <4> HIDE DEF x, b
      <4>2. Later(x, w)
        BY <3>1, <4>1
      <4> QED
        BY <1>0, <1>6, <3>1, <4>2, EndMid DEF Later, Moved, h
    <3>3. CASE ~w.clientTerminated
      <4>1. b = c
        BY <1>9, <3>3
      <4>2. LostIn(fs, k, c.delivered)
        <5> DEFINE r == w.read
        <5>1. r \in Nat /\ k = r + 1 /\ f = fs[r + 1]
          BY <1>0, <1>11, <3>3 DEF k
        <5>2. Says(fs, r, c.delivered, c.fragmented, c.clientTerminated)
          BY <1>6, <1>8
        <5>3. OutOfPlace(f, c.fragmented)
          BY <1>7, <1>14 DEF OutOfPlace
        <5> HIDE DEF r
        <5>4. LostIn(fs, r + 1, c.delivered)
          BY <1>8, <3>3, <5>1, <5>2, <5>3, LostSays
        <5> QED
          BY <5>1, <5>4
      <4> HIDE DEF x, b
      <4>3. Later(x, c) /\ IsBuffer(c.fragmented)
        BY <1>6, <1>8, <3>1, <4>1
      <4>4. ReadTo(x, w, fs, k)
        BY <1>8, <3>1, <4>2, <4>3, EndReads
      <4>5. x.fragmented = Web!NoMessage /\ x.used = w.used
        BY <1>6, <1>8, <4>3, <4>4 DEF Later, ReadTo, Moved
      <4>6. MsgBetween(x, fs)
        BY <1>6, <1>11, <3>1, <3>3, <4>4, <4>5, ReadBetween
      <4> QED
        BY <1>0, <4>5, <4>6 DEF h
    <3> QED
      BY <3>2, <3>3
  <2> HIDE DEF x
  <2>3. MsgMid(x, fs) /\ MsgMid(Web!Abort(w), fs)
    BY <2>2, BetweenMid, AbortMid
  <2>4. MsgMid(v, fs)
    BY <2>1, <2>3
  <2> QED
    BY <2>4 DEF s, h, p, n, f
<1> QED
  BY <1>2, <1>12, <1>13, <1>14 DEF s, h, p, n, f

\* What reads nothing leaves the connection between two frames.
LEMMA LaterBetween ==
    ASSUME NEW v, NEW w, NEW fs, Later(v, w), MsgBetween(w, fs)
    PROVE  MsgBetween(v, fs)
<1>1. Told(v, fs) /\ NoPiece(v.queue)
  BY LaterTold, QueueLater DEF MsgBetween, Later
<1>2. Counts(v, fs, v.used)
  BY DEF MsgBetween, Counts, Later, Moved
<1> QED
  BY <1>1, <1>2 DEF MsgBetween

LEMMA ChallengedMid ==
    ASSUME NEW w, NEW fs, Handling(w, fs), NEW valid, NEW reaction \in Web!Reactions, NEW lost,
           w.input[w.used].what = "challenge"
    PROVE  MsgMid(Web!Challenged(w, valid, reaction, lost), fs)
<1> DEFINE x == Web!WriteFrame(w, lost)
           y == Web!React(x, reaction, lost)
           first == IF w.protocol = 13 THEN "start" ELSE "type"
           s == w.input
           h == w.used
<1>0. /\ WsRecord(w) /\ WsMid(w) /\ s \in Seq(WsPieces(w.protocol)) /\ h \in 1 .. Len(s)
      /\ h # 0 /\ Len(fs) \in Nat /\ w.protocol \in {13, 76} /\ Chained(s, fs) /\ h \in Nat
  BY HandlingTypes DEF Handling
<1>1. Web!Challenged(w, valid, reaction, lost) =
        IF ~valid THEN Web!Abort(w) ELSE IF ~x.ok THEN x ELSE Web!StartRead(y, first)
  BY DEF Web!Challenged
<1>2. Later(x, w) /\ WsMid(x)
  BY <1>0, WriteLater, WriteMid
<1> HIDE DEF x, first
<1>7. Later(y, x) /\ WsMid(y)
  BY <1>2, ReactLater, ReactKeeps DEF Later, Moved
<1> HIDE DEF y
<1>3. Counts(w, fs, w.used)
  <2>1. FramesIn(s, h) = FramesIn(s, h - 1) /\ s[h].what = "challenge"
    <3> HIDE DEF s, h
    <3>1. s[h].what = "challenge"
      BY DEF s, h
    <3> QED
      BY <1>0, <3>1, PieceFollows
  <2>2. Begun(s, fs, h)
    BY <2>1 DEF Begun
  <2> QED
    BY <2>1, <2>2 DEF Handling, Counts
<1>4. MsgBetween(w, fs)
  BY <1>3 DEF Handling, MsgBetween
<1>5. MsgBetween(x, fs)
  BY <1>2, <1>4, LaterBetween
<1>8. MsgBetween(y, fs)
  BY <1>5, <1>7, LaterBetween
<1>6. MsgMid(x, fs) /\ MsgMid(Web!StartRead(y, first), fs)
  <2>1. x.used \in Nat
    BY <1>2 DEF WsMid, WsBase, WsTypes
  <2> QED
    BY <1>2, <1>5, <1>7, <1>8, <2>1, BetweenMid, StartMid
<1> QED
  BY <1>1, <1>6, AbortMid

\* Which piece is handled is told by the queue.
LEMMA HeadHandled ==
    ASSUME WsInv, MsgMid(ws, frames), ws.due > 0
    PROVE  LET w == Popped(ws)
               p == Head(ws.queue)
           IN  IF p = ClosedPiece THEN MsgMid(w, frames)
               ELSE /\ p = ws.input[ws.used] /\ ws.used \in 1 .. Len(ws.input)
                    /\ Told(w, frames) /\ NoPiece(w.queue) /\ Counts(w, frames, w.used - 1)
<1> DEFINE q == ws.queue
           w == Popped(ws)
           t == w.queue
           p == Head(q)
<1>0. /\ WsRecord(ws) /\ ws.used \in Nat /\ ws.got \in Nat /\ ws.used <= ws.got
      /\ ws.got <= Len(ws.input) /\ ws.input \in Seq(WsPieces(ws.protocol))
      /\ q \in Seq(WsPieces(ws.protocol) \cup {ClosedPiece})
  BY DEF WsInv, WsMid, WsBase, WsTypes
<1>1. /\ WsTypes(w) /\ WsRecord(w) /\ w.input = ws.input /\ w.used = ws.used
      /\ w.clientTerminated = ws.clientTerminated /\ w.protocol = ws.protocol
      /\ p = q[1] /\ 1 \in DOMAIN q
      /\ \A i \in DOMAIN t : i + 1 \in DOMAIN q /\ i + 1 # 1 /\ t[i] = q[i + 1]
  BY PoppedKeeps
<1>2. w.reading = ws.reading /\ w.read = ws.read /\ w.delivered = ws.delivered
      /\ w.fragmented = ws.fragmented
  BY <1>0 DEF Popped, WsRecord, WsFields
<1>3. t = Tail(q)
  BY <1>0 DEF Popped, WsRecord, WsFields
<1>4. /\ DOMAIN q = 1 .. Len(q) /\ DOMAIN t = 1 .. Len(t) /\ Len(t) = Len(q) - 1
      /\ Len(q) \in Nat /\ Len(t) \in Nat
  <2> DEFINE P == WsPieces(ws.protocol) \cup {ClosedPiece}
  <2>1. q # <<>> /\ q \in Seq(P)
    BY <1>0, <1>1
  <2> HIDE DEF P, q, t
  <2> QED
    BY <1>3, <2>1
<1>5. PICK h \in 0 .. ws.used : Handled(ws, h) /\ Counts(ws, frames, h)
  BY DEF MsgMid
<1>6. Told(w, frames)
  BY <1>1, <1>2 DEF MsgMid, Told
<1> HIDE DEF w, q, t, p
<1>7. CASE p = ClosedPiece
  <2>1. NoPiece(q) => NoPiece(t)
    BY <1>1, <1>4 DEF NoPiece
  <2>2. ws.used >= 1 => ws.input[ws.used] # ClosedPiece
    <3> SUFFICES ASSUME ws.used >= 1 PROVE ws.input[ws.used] # ClosedPiece
      OBVIOUS
    <3>1. ws.used \in 1 .. Len(ws.input)
      BY <1>0
    <3>2. ws.input[ws.used] \in WsPieces(ws.protocol)
      BY <1>0, <3>1
    <3> QED
      BY <3>2, ClosedIsNoPiece
  <2>3. \A x : x # ClosedPiece /\ HasPiece(q, x) => HasPiece(t, x)
    <3> SUFFICES ASSUME NEW x, x # ClosedPiece, HasPiece(q, x) PROVE HasPiece(t, x)
      OBVIOUS
    <3>1. PICK i \in 1 .. Len(q) : q[i] = x /\ \A j \in 1 .. Len(q) : j # i => q[j] = ClosedPiece
      BY DEF HasPiece
    <3>2. i # 1
      BY <1>1, <1>7, <3>1
    <3> DEFINE k == i - 1
    <3>3. k \in 1 .. Len(t) /\ k + 1 = i
      BY <1>4, <3>2
    <3> HIDE DEF k
    <3>4. t[k] = x
      BY <1>1, <1>4, <3>1, <3>3
    <3>5. \A j \in 1 .. Len(t) : j # k => t[j] = ClosedPiece
      <4> SUFFICES ASSUME NEW j \in 1 .. Len(t), j # k PROVE t[j] = ClosedPiece
        OBVIOUS
      <4>1. j + 1 \in 1 .. Len(q) /\ j + 1 # i
        BY <1>4, <3>3
      <4>2. t[j] = q[j + 1]
        BY <1>1, <1>4
      <4> QED
        BY <3>1, <4>1, <4>2
    <3> QED
      BY <3>3, <3>4, <3>5 DEF HasPiece
  <2>4. Handled(w, h)
    <3>1. CASE h = ws.used /\ NoPiece(q)
      BY <1>1, <2>1, <3>1 DEF Handled, q, t
    <3>2. CASE h + 1 = ws.used /\ ws.reading = "none" /\ HasPiece(q, ws.input[ws.used])
      <4>1. ws.used >= 1
        BY <1>0, <3>2
      <4>2. HasPiece(t, ws.input[ws.used])
        BY <2>2, <2>3, <3>2, <4>1
      <4> QED
        BY <1>1, <1>2, <3>2, <4>2 DEF Handled, t
    <3> QED
      BY <1>5, <3>1, <3>2 DEF Handled, q
  <2>5. Counts(w, frames, h)
    BY <1>1, <1>2, <1>5 DEF Counts
  <2>6. MsgMid(w, frames)
    BY <1>1, <1>5, <1>6, <2>4, <2>5 DEF MsgMid
  <2> QED
    BY <1>7, <2>6 DEF w, p, q
<1>8. CASE p # ClosedPiece
  <2>1. ~NoPiece(q)
    BY <1>1, <1>4, <1>8 DEF NoPiece
  <2>2. h + 1 = ws.used /\ HasPiece(q, ws.input[ws.used])
    BY <1>5, <2>1 DEF Handled, q
  <2>3. PICK i \in 1 .. Len(q) :
          q[i] = ws.input[ws.used] /\ \A j \in 1 .. Len(q) : j # i => q[j] = ClosedPiece
    BY <2>2 DEF HasPiece
  <2>4. i = 1
    BY <1>1, <1>4, <1>8, <2>3
  <2>5. p = ws.input[ws.used]
    BY <1>1, <2>3, <2>4
  <2>6. NoPiece(t)
    <3> SUFFICES ASSUME NEW j \in 1 .. Len(t) PROVE t[j] = ClosedPiece
      BY DEF NoPiece
    <3>1. j + 1 \in 1 .. Len(q) /\ j + 1 # 1
      BY <1>4
    <3>2. t[j] = q[j + 1]
      BY <1>1, <1>4
    <3> QED
      BY <2>3, <2>4, <3>1, <3>2
  <2>7. ws.used \in 1 .. Len(ws.input) /\ w.used - 1 = h
    BY <1>0, <1>1, <1>5, <2>2
  <2>8. Counts(w, frames, w.used - 1)
    BY <1>1, <1>2, <1>5, <2>7 DEF Counts
  <2> QED
    BY <1>6, <1>8, <2>5, <2>6, <2>7, <2>8 DEF w, p, q, t
<1> QED
  BY <1>7, <1>8

LEMMA CallbackMid ==
    ASSUME WsInv, MsgInv, Web!StreamCallback
    PROVE  MsgMid(ws', frames)
<1>0. ws.due > 0 /\ WsTypes(ws) /\ frames \in Seq(Frames) /\ MsgMid(ws, frames)
  BY DEF WsInv, WsMid, WsBase, Web!StreamCallback, MsgInv
<1> DEFINE w == Popped(ws)
           p == Head(ws.queue)
<1>1. PICK reaction \in Web!Reactions, lost \in Web!Losses, valid \in BOOLEAN :
        LET f == IF p.frame = 0 THEN [op |-> "none"] ELSE frames[p.frame]
            v == CASE p.what = "closed" -> Web!ConnectionClosed(w)
                   [] p.what = "challenge" -> Web!Challenged(w, valid, reaction, lost)
                   [] p.what \in {"start", "length", "mask", "data"} ->
                         Web!Run13(w, p.what, f, p.frame, reaction, lost)
                   [] p.what \in {"type", "payload", "indicator"} ->
                         Web!Run76(w, p.what, f, p.frame, reaction, lost)
        IN  ws' = [IF v.ok THEN Web!MaybeRunClose(v) ELSE Web!CloseStream(v) EXCEPT !.ok = TRUE]
  BY DEF Web!StreamCallback, Popped
<1> DEFINE f == IF p.frame = 0 THEN [op |-> "none"] ELSE frames[p.frame]
           v == CASE p.what = "closed" -> Web!ConnectionClosed(w)
                  [] p.what = "challenge" -> Web!Challenged(w, valid, reaction, lost)
                  [] p.what \in {"start", "length", "mask", "data"} ->
                        Web!Run13(w, p.what, f, p.frame, reaction, lost)
                  [] p.what \in {"type", "payload", "indicator"} ->
                        Web!Run76(w, p.what, f, p.frame, reaction, lost)
           x == IF v.ok THEN Web!MaybeRunClose(v) ELSE Web!CloseStream(v)
           yes == TRUE
<1>2. ws' = [x EXCEPT !.ok = yes]
  BY <1>1
<1> HIDE DEF yes
<1>3. /\ WsRecord(w) /\ w.protocol = ws.protocol /\ w.input = ws.input /\ w.used = ws.used
      /\ p \in WsPieces(ws.protocol) \cup {ClosedPiece} /\ ws.protocol \in {13, 76}
      /\ p # ClosedPiece => WsMid(w)
  BY <1>0, PoppedKeeps DEF WsTypes
<1>4. IF p = ClosedPiece THEN MsgMid(w, frames)
      ELSE /\ p = ws.input[ws.used] /\ ws.used \in 1 .. Len(ws.input)
           /\ Told(w, frames) /\ NoPiece(w.queue) /\ Counts(w, frames, w.used - 1)
  BY <1>0, HeadHandled
<1> HIDE DEF w
<1>5. MsgMid(v, frames) /\ WsRecord(v)
  <2>1. CASE p = ClosedPiece
    <3>1. v = Web!ConnectionClosed(w)
      BY <2>1 DEF ClosedPiece, Web!Piece
    <3> HIDE DEF v
    <3>2. Later(v, w)
      BY <1>3, <3>1, ConnectionLater
    <3> QED
      BY <1>4, <2>1, <3>2, LaterMid DEF Later, Moved
  <2>2. CASE p # ClosedPiece
    <3>1. p \in WsPieces(ws.protocol) /\ WsMid(w)
      BY <1>3, <2>2
    <3>2. p = w.input[w.used] /\ Handling(w, frames)
      BY <1>0, <1>3, <1>4, <2>2 DEF Handling, MsgInv, SentIn
    <3>3. p.what \in {"challenge"} \cup
            IF ws.protocol = 13 THEN {"start", "length", "mask", "data"}
            ELSE {"type", "payload", "indicator"}
      BY <3>1 DEF WsPieces
    <3>4. p.what # "challenge" => p.frame # 0
      <4>1. Chained(ws.input, frames)
        BY DEF MsgInv, SentIn
      <4>2. PieceIn(p, frames)
        BY <1>3, <1>4, <2>2, <4>1 DEF Chained
      <4> QED
        BY <4>2 DEF PieceIn
    <3> HIDE DEF p, f
    <3>5. CASE p.what = "challenge"
      <4>1. v = Web!Challenged(w, valid, reaction, lost)
        BY <3>5
      <4>2. w.input[w.used].what = "challenge"
        BY <3>2, <3>5
      <4> HIDE DEF v
      <4>3. MsgMid(v, frames) /\ WsMid(v)
        BY <3>1, <3>2, <4>1, <4>2, ChallengedMid, ChallengedKeeps
      <4> QED
        BY <4>3 DEF WsMid, WsBase, WsTypes
    <3>6. CASE p.what # "challenge" /\ ws.protocol = 13
      <4>1. v = Web!Run13(w, p.what, f, p.frame, reaction, lost)
        BY <3>3, <3>6
      <4>2. p.what \in {"start", "length", "mask", "data"}
        BY <3>3, <3>6
      <4>3. f = frames[p.frame]
        BY <3>4, <3>6 DEF f
      <4> HIDE DEF v
      <4>4. WsMid(v)
        BY <3>1, <4>1, <4>2, Run13Keeps
      <4>5. MsgMid(v, frames)
        BY <1>3, <3>2, <3>6, <4>1, <4>3, Run13Mid
      <4> QED
        BY <4>4, <4>5 DEF WsMid, WsBase, WsTypes
    <3>7. CASE p.what # "challenge" /\ ws.protocol # 13
      <4>1. v = Web!Run76(w, p.what, f, p.frame, reaction, lost)
        BY <3>3, <3>7
      <4>2. p.what \in {"type", "payload", "indicator"}
        BY <3>3, <3>7
      <4>3. f = frames[p.frame]
        BY <3>4, <3>7 DEF f
      <4> HIDE DEF v
      <4>4. WsMid(v)
        BY <3>1, <4>1, <4>2, Run76Keeps
      <4>5. w.protocol = 76 /\ w.input[w.used].what # "challenge"
        BY <1>3, <3>2, <3>7
      <4>6. MsgMid(v, frames)
        BY <3>2, <4>1, <4>3, <4>5, Run76Mid
      <4> QED
        BY <4>4, <4>6 DEF WsMid, WsBase, WsTypes
    <3> QED
      BY <3>5, <3>6, <3>7
  <2> QED
    BY <2>1, <2>2
<1> HIDE DEF v
<1>6. Later(x, v)
  BY <1>5, MaybeLater, StreamLater
<1> HIDE DEF x
<1>7. Later(ws', x)
  <2>1. WsRecord(x)
    BY <1>6 DEF Later, Moved
  <2>2. Later([x EXCEPT !.ok = yes], x)
    BY <2>1, LaterFields
  <2> QED
    BY <1>2, <2>2
<1> QED
  BY <1>5, <1>6, <1>7, LaterMid

LEMMA PollMid ==
    ASSUME WsInv, MsgInv, Web!PollRead
    PROVE  MsgMid(ws', frames)
<1>0. WsMid(ws) /\ WsRecord(ws) /\ ws.open /\ MsgMid(ws, frames)
  BY DEF WsInv, WsMid, WsBase, WsTypes, Web!PollRead, MsgInv
<1>1. CASE link = "reset"
  <2>1. ws' = Web!CloseStream(ws)
    BY <1>1 DEF Web!PollRead
  <2> QED
    BY <1>0, <2>1, StreamLater, LaterMid
<1>2. CASE link # "reset"
  <2> DEFINE b == link = "up"
             u == [Web!Fill(ws) EXCEPT !.open = b]
             x == Web!Deliver(u)
  <2>1. ws' = Web!MaybeRunClose(x)
    BY <1>2 DEF Web!PollRead
  <2>2. b \in BOOLEAN
    OBVIOUS
  <2> HIDE DEF b
  <2>3. WsMid(u) /\ Later(u, ws)
    BY <1>0, <2>2, FillKeeps, FillLater
  <2> HIDE DEF u
  <2>4. MsgMid(u, frames)
    BY <1>0, <2>3, LaterMid
  <2>5. WsMid(x) /\ MsgMid(x, frames)
    <3>1. u.got <= Len(u.input)
      BY <2>3 DEF WsMid, WsBase, WsTypes
    <3> QED
      BY <2>3, <2>4, <3>1, DeliverKeeps, DeliverMid
  <2> HIDE DEF x
  <2>6. Later(ws', x)
    BY <2>1, <2>5, MaybeLater DEF WsMid, WsBase, WsTypes
  <2> QED
    BY <2>5, <2>6, LaterMid
<1> QED
  BY <1>1, <1>2

-----------------------------------------------------------------------------
(* The client.                                                             *)

LEMMA OnePieceMore ==
    ASSUME NEW S, NEW s \in Seq(S), NEW fs, Chained(s, fs), NEW p \in S, PieceIn(p, fs),
           IF s = <<>> THEN p.what = "start" /\ p.frame = 1 ELSE Adjacent(s[Len(s)], p)
    PROVE  Chained(Append(s, p), fs)
<1> DEFINE t == Append(s, p)
<1>1. /\ t \in Seq(S) /\ Len(t) = Len(s) + 1 /\ t[Len(t)] = p /\ Len(s) \in Nat
      /\ \A i \in 1 .. Len(s) : t[i] = s[i]
  OBVIOUS
<1>2. s = <<>> <=> Len(s) = 0
  OBVIOUS
<1> HIDE DEF t
<1>3. \A i \in 2 .. Len(t) : Adjacent(t[i - 1], t[i])
  <2> SUFFICES ASSUME NEW i \in 2 .. Len(t) PROVE Adjacent(t[i - 1], t[i])
    OBVIOUS
  <2>1. CASE i \in 2 .. Len(s)
    <3>1. i \in 1 .. Len(s) /\ i - 1 \in 1 .. Len(s)
      BY <1>1, <2>1
    <3>2. Adjacent(s[i - 1], s[i])
      BY <2>1 DEF Chained
    <3> QED
      BY <1>1, <3>1, <3>2
  <2>2. CASE i = Len(t)
    <3>1. i - 1 = Len(s) /\ Len(s) \in 1 .. Len(s) /\ s # <<>>
      BY <1>1, <1>2, <2>2
    <3> QED
      BY <1>1, <2>2, <3>1
  <2> QED
    BY <1>1, <2>1, <2>2
<1>4. \/ t[1].what = "start" /\ t[1].frame = 1
      \/ t[1].what = "challenge" /\ t[1].frame = 0
  <2>1. CASE s = <<>>
    BY <1>1, <1>2, <2>1
  <2>2. CASE s # <<>>
    <3>1. 1 \in 1 .. Len(s)
      BY <1>1, <1>2, <2>2
    <3> QED
      BY <1>1, <2>2, <3>1 DEF Chained
  <2> QED
    BY <2>1, <2>2
<1>5. \A i \in 1 .. Len(t) : PieceIn(t[i], fs)
  <2>1. \A i \in 1 .. Len(t) : i \in 1 .. Len(s) \/ i = Len(t)
    BY <1>1
  <2> QED
    BY <1>1, <2>1 DEF Chained
<1>6. Chained(t, fs)
  BY <1>3, <1>4, <1>5 DEF Chained
<1> QED
  BY <1>6 DEF t

LEMMA AppendedPieces ==
    ASSUME NEW S, NEW s \in Seq(S), NEW a \in S, NEW b \in S, NEW c \in S, NEW d \in S
    PROVE  /\ s \o <<a>> = Append(s, a)
           /\ s \o <<a, b>> = Append(Append(s, a), b)
           /\ s \o <<a, b, c>> = Append(Append(Append(s, a), b), c)
           /\ s \o <<a, b, c, d>> = Append(Append(Append(Append(s, a), b), c), d)
<1>1. s \o <<a>> = Append(s, a)
  OBVIOUS
<1>2. s \o <<a, b>> = Append(Append(s, a), b)
  OBVIOUS
<1>3. s \o <<a, b, c>> = Append(Append(Append(s, a), b), c)
  OBVIOUS
<1>4. s \o <<a, b, c, d>> = Append(Append(Append(Append(s, a), b), c), d)
  OBVIOUS
<1> QED
  BY <1>1, <1>2, <1>3, <1>4

LEMMA LastAppended ==
    ASSUME NEW S, NEW s \in Seq(S), NEW p \in S
    PROVE  /\ Append(s, p) \in Seq(S) /\ Append(s, p) # <<>>
           /\ Append(s, p)[Len(Append(s, p))] = p
<1> DEFINE u == Append(s, p)
<1>1. u \in Seq(S) /\ Len(u) = Len(s) + 1 /\ Len(s) \in Nat
  OBVIOUS
<1>2. u[Len(u)] = p
  OBVIOUS
<1> HIDE DEF u
<1>3. u # <<>>
  BY <1>1
<1> QED
  BY <1>1, <1>2, <1>3 DEF u

LEMMA HeadPiece ==
    ASSUME NEW S, NEW q \in Seq(S), Len(q) >= 1, NEW a \in S, q[1] = a
    PROVE  SubSeq(q, 1, 1) = <<a>>
<1> DEFINE r == SubSeq(q, 1, 1)
           t == <<a>>
<1>1. Len(r) = 1 /\ r[1] = a /\ r \in Seq(S)
  OBVIOUS
<1>2. Len(t) = 1 /\ t[1] = a /\ t \in Seq(S)
  OBVIOUS
<1> HIDE DEF r, t
<1>3. r = t
  BY <1>1, <1>2
<1> QED
  BY <1>3 DEF r, t

\* What was sent stays as it is when a frame more is sent.
LEMMA SentStays ==
    ASSUME NEW S, NEW fs \in Seq(S), NEW f \in S, NEW protocol,
           NEW s \in Seq(WsPieces(protocol)), Chained(s, fs)
    PROVE  Chained(s, Append(fs, f))
<1> DEFINE gs == Append(fs, f)
<1>1. Len(gs) = Len(fs) + 1 /\ Len(fs) \in Nat /\ \A i \in 1 .. Len(fs) : gs[i] = fs[i]
  OBVIOUS
<1> HIDE DEF gs
<1>2. \A p \in WsPieces(protocol) : PieceIn(p, fs) => PieceIn(p, gs)
  <2> SUFFICES ASSUME NEW p \in WsPieces(protocol), PieceIn(p, fs) PROVE PieceIn(p, gs)
    OBVIOUS
  <2>1. p.frame \in Nat
    BY DEF WsPieces
  <2>2. p.frame <= Len(gs)
    BY <1>1, <2>1 DEF PieceIn
  <2>3. p.what \in {"payload", "indicator"} => p.frame \in 1 .. Len(fs)
    BY <1>1, <2>1 DEF PieceIn
  <2> QED
    BY <1>1, <2>2, <2>3 DEF PieceIn
<1>3. \A i \in 1 .. Len(s) : s[i] \in WsPieces(protocol)
  OBVIOUS
<1>4. Chained(s, gs)
  BY <1>2, <1>3 DEF Chained
<1> QED
  BY <1>4 DEF gs

\* The pieces of a frame follow those that were sent.
LEMMA SentPieces ==
    ASSUME NEW w, NEW protocol \in {13, 76}, w.protocol = protocol,
           NEW s \in Seq(WsPieces(protocol)),
           NEW gs, NEW n \in Nat, n = Len(gs), n # 0, Chained(s, gs),
           IF s = <<>> THEN protocol = 13 /\ n = 1
           ELSE s[Len(s)].what \in Lasts /\ s[Len(s)].frame = n - 1
    PROVE  LET all == Web!PiecesOf(w, gs[n], n)
           IN  /\ Chained(s \o all, gs) /\ WholeSent(s \o all, gs) /\ s \o all # <<>>
               /\ Chained(s \o SubSeq(all, 1, 1), gs) /\ s \o SubSeq(all, 1, 1) # <<>>
<1> DEFINE P == WsPieces(protocol)
           f == gs[n]
           all == Web!PiecesOf(w, f, n)
<1>1. ASSUME NEW t \in Seq(P), Chained(t, gs), NEW p \in P, PieceIn(p, gs),
             IF t = <<>> THEN p.what = "start" /\ p.frame = 1 ELSE Adjacent(t[Len(t)], p)
      PROVE  LET u == Append(t, p)
             IN  u \in Seq(P) /\ Chained(u, gs) /\ u # <<>> /\ u[Len(u)] = p
  <2>1. Chained(Append(t, p), gs)
    BY <1>1, OnePieceMore
  <2> HIDE DEF P
  <2>2. t \in Seq(P) /\ p \in P
    BY <1>1
  <2>3. LET u == Append(t, p)
        IN  u \in Seq(P) /\ u # <<>> /\ u[Len(u)] = p
    BY ONLY <2>2, LastAppended
  <2> QED
    BY <2>1, <2>3
<1>2. ASSUME NEW u \in Seq(P), Chained(u, gs), u # <<>>,
             u[Len(u)].what \in Lasts, u[Len(u)].frame = n
      PROVE  Chained(u, gs) /\ WholeSent(u, gs) /\ u # <<>>
  BY <1>2 DEF WholeSent
<1>3. CASE protocol = 76
  <2> DEFINE a == Web!Piece("type", n)
             b == Web!Piece(IF f.op = "close" THEN "indicator" ELSE "payload", n)
             u == Append(s, a)
             v == Append(u, b)
  <2>1. all = <<a, b>>
    BY <1>3 DEF Web!PiecesOf
  <2>2. a \in P /\ b \in P
    BY <1>3 DEF WsPieces, Web!Piece
  <2>3. /\ a.what = "type" /\ a.frame = n /\ b.frame = n /\ b.what \in Lasts
        /\ b.what \notin Firsts \cup {"challenge"}
        /\ b.what = "payload" => f.op # "close"
        /\ b.what = "indicator" => f.op = "close"
    BY DEF Web!Piece, Lasts, Firsts
  <2> HIDE DEF a, b
  <2>4. PieceIn(a, gs) /\ PieceIn(b, gs)
    BY <2>3 DEF PieceIn, Lasts
  <2>5. s # <<>> /\ Adjacent(s[Len(s)], a)
    BY <1>3, <2>3 DEF Adjacent, Firsts
  <2>6. Adjacent(a, b)
    BY <2>3 DEF Adjacent, Firsts, Lasts
  <2>7. u \in Seq(P) /\ Chained(u, gs) /\ u # <<>> /\ u[Len(u)] = a
    BY <1>1, <2>2, <2>4, <2>5
  <2> HIDE DEF u
  <2>8. v \in Seq(P) /\ Chained(v, gs) /\ v # <<>> /\ v[Len(v)] = b
    BY <1>1, <2>2, <2>4, <2>6, <2>7
  <2>9. s \o all = v /\ SubSeq(all, 1, 1) = <<a>> /\ s \o <<a>> = u
    <3>1. s \o <<a, b>> = v /\ s \o <<a>> = u
      BY <2>2, AppendedPieces DEF u
    <3> HIDE DEF P
    <3>2. SubSeq(<<a, b>>, 1, 1) = <<a>>
      <4> DEFINE two == <<a, b>>
      <4>1. two \in Seq(P) /\ Len(two) >= 1 /\ two[1] = a /\ a \in P
        BY <2>2
      <4> HIDE DEF two
      <4>2. SubSeq(two, 1, 1) = <<a>>
        BY ONLY <4>1, HeadPiece
      <4> QED
        BY <4>2 DEF two
    <3> QED
      BY <2>1, <3>1, <3>2
  <2> HIDE DEF v
  <2>10. Chained(v, gs) /\ WholeSent(v, gs) /\ v # <<>>
    BY <1>2, <2>3, <2>8
  <2> QED
    BY <2>7, <2>9, <2>10
<1>4. CASE protocol = 13
  <2> DEFINE a == Web!Piece("start", n)
             l == Web!Piece("length", n)
             k == Web!Piece("mask", n)
             d == Web!Piece("data", n)
             mid == IF f.long THEN <<l>> ELSE <<>>
             rest == <<k, d>>
             u == Append(s, a)
             m == IF f.long THEN Append(u, l) ELSE u
             x == Append(m, k)
             v == Append(x, d)
  <2>1. all = <<a>> \o mid \o rest
    BY <1>4 DEF Web!PiecesOf
  <2>2. a \in P /\ l \in P /\ k \in P /\ d \in P
    BY <1>4 DEF WsPieces, Web!Piece
  <2>3. /\ a.what = "start" /\ l.what = "length" /\ k.what = "mask" /\ d.what = "data"
        /\ a.frame = n /\ l.frame = n /\ k.frame = n /\ d.frame = n
    BY DEF Web!Piece
  <2> HIDE DEF a, l, k, d
  <2>4. PieceIn(a, gs) /\ PieceIn(l, gs) /\ PieceIn(k, gs) /\ PieceIn(d, gs)
    BY <2>3 DEF PieceIn
  <2>5. IF s = <<>> THEN a.what = "start" /\ a.frame = 1 ELSE Adjacent(s[Len(s)], a)
    BY <1>4, <2>3 DEF Adjacent, Firsts
  <2>6. Adjacent(a, l) /\ Adjacent(a, k) /\ Adjacent(l, k) /\ Adjacent(k, d)
    BY <2>3 DEF Adjacent, Firsts, Lasts
  <2>7. u \in Seq(P) /\ Chained(u, gs) /\ u # <<>> /\ u[Len(u)] = a
    BY <1>1, <2>2, <2>4, <2>5
  <2> HIDE DEF u
  <2>8. m \in Seq(P) /\ Chained(m, gs) /\ m # <<>> /\ m[Len(m)] \in {a, l}
    <3>1. LET y == Append(u, l)
          IN  y \in Seq(P) /\ Chained(y, gs) /\ y # <<>> /\ y[Len(y)] = l
      BY <1>1, <2>2, <2>4, <2>6, <2>7
    <3> QED
      BY <2>7, <3>1
  <2> HIDE DEF m
  <2>9. Adjacent(m[Len(m)], k)
    BY <2>6, <2>8
  <2>10. x \in Seq(P) /\ Chained(x, gs) /\ x # <<>> /\ x[Len(x)] = k
    BY <1>1, <2>2, <2>4, <2>8, <2>9
  <2> HIDE DEF x
  <2>11. v \in Seq(P) /\ Chained(v, gs) /\ v # <<>> /\ v[Len(v)] = d
    BY <1>1, <2>2, <2>4, <2>6, <2>10
  <2>12. s \o all = v
    <3> HIDE DEF P
    <3>1. <<a>> \in Seq(P) /\ mid \in Seq(P) /\ rest \in Seq(P)
      BY <2>2
    <3> HIDE DEF mid, rest
    <3> DEFINE one == <<a>>
    <3>2. s \o (one \o mid \o rest) = ((s \o one) \o mid) \o rest
      <4> DEFINE both == one \o mid
                 up == s \o both
                 down == (s \o one) \o mid
      <4>1. s \in Seq(P) /\ one \in Seq(P) /\ mid \in Seq(P) /\ rest \in Seq(P)
        BY <3>1 DEF P
      <4> HIDE DEF one
      <4>2. up = down
        BY ONLY <4>1
      <4>3. s \o (both \o rest) = up \o rest
        <5>1. both \in Seq(P)
          BY ONLY <4>1
        <5> HIDE DEF both
        <5> QED
          BY ONLY SMTT(30), <4>1, <5>1
      <4> QED
        BY <4>2, <4>3
    <3>3. s \o <<a>> = u
      BY <2>2, AppendedPieces DEF u
    <3>4. u \o mid = m
      <4>1. u \o <<l>> = Append(u, l) /\ u \o <<>> = u
        BY <2>2, <2>7, AppendedPieces
      <4> QED
        BY <4>1 DEF mid, m
    <3>5. m \o rest = v
      BY <2>2, <2>8, AppendedPieces DEF rest, x
    <3> QED
      BY <2>1, <3>2, <3>3, <3>4, <3>5
  <2>13. s \o SubSeq(all, 1, 1) = u
    <3> HIDE DEF P
    <3>1. <<a>> \in Seq(P) /\ mid \in Seq(P) /\ rest \in Seq(P)
      BY <2>2
    <3> HIDE DEF mid, rest
    <3>2. <<a>> \o mid \in Seq(P) /\ Len(<<a>> \o mid) >= 1 /\ (<<a>> \o mid)[1] = a
      BY <3>1
    <3> DEFINE y == <<a>> \o mid
    <3> HIDE DEF y
    <3>3. all = y \o rest
      BY <2>1 DEF y
    <3>4. all \in Seq(P) /\ Len(all) >= 1 /\ all[1] = a
      <4>1. y \in Seq(P) /\ Len(y) >= 1 /\ y[1] = a
        BY <3>2 DEF y
      <4> HIDE DEF all
      <4> QED
        BY <3>1, <3>3, <4>1
    <3> HIDE DEF all
    <3>5. SubSeq(all, 1, 1) = <<a>>
      BY ONLY <2>2, <3>4, HeadPiece
    <3>6. s \o <<a>> = u
      BY <2>2, AppendedPieces DEF u
    <3> QED
      BY <3>5, <3>6
  <2> HIDE DEF v
  <2>14. Chained(v, gs) /\ WholeSent(v, gs) /\ v # <<>>
    BY <1>2, <2>3, <2>11 DEF Lasts
  <2> QED
    BY <2>7, <2>12, <2>13, <2>14
<1> QED
  BY <1>3, <1>4

\* What is read of what was sent says the same when more is sent.
LEMMA MoreMid ==
    ASSUME NEW v, NEW w, NEW fs, NEW gs, MsgMid(w, fs), w.used \in Nat,
           v.used = w.used, v.queue = w.queue, v.reading = w.reading, v.read = w.read,
           v.delivered = w.delivered, v.fragmented = w.fragmented, v.protocol = w.protocol,
           v.clientTerminated = w.clientTerminated,
           \A i \in 1 .. w.used : /\ v.input[i] = w.input[i] /\ w.input[i].frame \in Nat
                                  /\ PieceIn(w.input[i], fs),
           Len(fs) \in Nat, Len(gs) \in Nat, Len(fs) <= Len(gs), Agree(fs, gs, Len(fs))
    PROVE  /\ \E h \in 0 .. v.used : Handled(v, h) /\ Counts(v, gs, h)
           /\ v.read \in 0 .. Len(gs) /\ IsBuffer(v.fragmented)
           /\ v.protocol = 76 => v.fragmented = Web!NoMessage
           /\ Says(gs, v.read, v.delivered, v.fragmented, v.clientTerminated)
<1>1. PICK h \in 0 .. w.used : Handled(w, h) /\ Counts(w, fs, h)
  BY DEF MsgMid
<1>2. Handled(v, h)
  <2>1. w.used # 0 => w.used \in 1 .. w.used
    OBVIOUS
  <2>2. h + 1 = w.used => w.used # 0
    OBVIOUS
  <2> QED
    BY <1>1, <2>1, <2>2 DEF Handled
<1>3. Counts(v, gs, h)
  <2>1. CASE h = 0
    BY <1>1, <2>1 DEF Counts, FramesIn, Begun
  <2>2. CASE h # 0
    <3> DEFINE a == w.input[h]
    <3>1. h \in 1 .. w.used
      BY <2>2
    <3>2. v.input[h] = a /\ a.frame \in Nat /\ PieceIn(a, fs)
      BY <3>1
    <3> HIDE DEF a
    <3>3. FramesIn(v.input, h) = FramesIn(w.input, h)
      BY <3>2 DEF FramesIn, a
    <3>4. a.what \in {"start", "length", "mask", "type"} => fs[a.frame] = gs[a.frame]
      <4>1. a.what \in {"start", "length", "mask", "type"} => a.frame \in 1 .. Len(fs)
        BY <3>2 DEF PieceIn
      <4> QED
        BY <4>1 DEF Agree
    <3>5. Begun(w.input, fs, h) => Begun(v.input, gs, h)
      BY <3>2, <3>4 DEF Begun, a
    <3> QED
      BY <1>1, <3>3, <3>5 DEF Counts
  <2> QED
    BY <2>1, <2>2
<1>4. Says(gs, w.read, w.delivered, w.fragmented, w.clientTerminated) /\ w.read \in 0 .. Len(fs)
  <2>1. w.read \in 0 .. Len(fs) /\ w.read \in Nat
        /\ Says(fs, w.read, w.delivered, w.fragmented, w.clientTerminated)
    <3>1. w.read \in 0 .. Len(fs)
          /\ Says(fs, w.read, w.delivered, w.fragmented, w.clientTerminated)
      BY DEF MsgMid, Told
    <3> QED
      BY <3>1
  <2>2. Agree(fs, gs, w.read)
    BY <2>1 DEF Agree
  <2> QED
    BY <2>1, <2>2, AgreeSays
<1>5. w.read \in 0 .. Len(gs)
  BY <1>4
<1>6. IsBuffer(w.fragmented) /\ (w.protocol = 76 => w.fragmented = Web!NoMessage)
  BY DEF MsgMid, Told
<1> QED
  BY <1>1, <1>2, <1>3, <1>4, <1>5, <1>6

LEMMA SentMid ==
    ASSUME WsInv, MsgInv, NEW f \in Frames, Web!ClientSends(f), ws.input # <<>>
    PROVE  MsgInv'
<1> DEFINE s == ws.input
           n == Len(frames) + 1
           gs == Append(frames, f)
           all == Web!PiecesOf(ws, f, n)
<1>0. /\ WsRecord(ws) /\ ws.protocol \in {13, 76} /\ s \in Seq(WsPieces(ws.protocol))
      /\ frames \in Seq(Frames) /\ ws.used \in Nat /\ ws.used <= Len(s)
  <2>1. /\ WsRecord(ws) /\ ws.protocol \in {13, 76} /\ s \in Seq(WsPieces(ws.protocol))
        /\ frames \in Seq(Frames) /\ ws.got \in Nat /\ ws.used \in Nat
        /\ ws.used <= ws.got /\ ws.got <= Len(s)
    BY DEF WsInv, WsMid, WsBase, WsTypes
  <2>2. Len(s) \in Nat
    BY <2>1
  <2> QED
    BY <2>1, <2>2
<1>1. PICK torn \in BOOLEAN :
        /\ ws' = [ws EXCEPT !.input = @ \o IF torn THEN SubSeq(all, 1, 1) ELSE all]
        /\ link' = IF torn THEN "fin" ELSE link
  BY DEF Web!ClientSends
<1>2. /\ link = "up" /\ frames' = gs
      /\ ws.protocol = 76 => /\ f.op \in {"text", "close", "unknown"} /\ f.fin
                             /\ f.broken => f.op = "close"
  BY DEF Web!ClientSends
<1> DEFINE rest == IF torn THEN SubSeq(all, 1, 1) ELSE all
           j == s \o rest
<1>3. /\ ws'.input = j /\ WsRecord(ws')
      /\ ws'.used = ws.used /\ ws'.queue = ws.queue /\ ws'.reading = ws.reading
      /\ ws'.read = ws.read /\ ws'.delivered = ws.delivered /\ ws'.fragmented = ws.fragmented
      /\ ws'.protocol = ws.protocol /\ ws'.clientTerminated = ws.clientTerminated
  BY <1>0, <1>1 DEF WsRecord, WsFields
<1>4. /\ n \in Nat /\ n # 0 /\ Len(gs) = n /\ gs[n] = f /\ gs \in Seq(Frames)
      /\ Len(frames) \in Nat /\ Len(frames) <= Len(gs)
      /\ \A i \in 1 .. Len(frames) : gs[i] = frames[i]
  BY <1>0
<1> HIDE DEF gs
<1>5. Chained(s, frames) /\ (s = <<>> => frames = <<>>) /\ WholeSent(s, frames)
  BY <1>2 DEF MsgInv, SentIn
<1>6. Chained(s, gs)
  BY <1>0, <1>5, SentStays DEF gs
<1>7. IF s = <<>> THEN ws.protocol = 13 /\ n = 1
      ELSE s[Len(s)].what \in Lasts /\ s[Len(s)].frame = n - 1
  BY <1>0, <1>4, <1>5 DEF WholeSent
<1>8. /\ Chained(s \o all, gs) /\ WholeSent(s \o all, gs) /\ s \o all # <<>>
      /\ Chained(s \o SubSeq(all, 1, 1), gs) /\ s \o SubSeq(all, 1, 1) # <<>>
  <2> HIDE DEF n, s
  <2>1. LET e == Web!PiecesOf(ws, gs[n], n)
        IN  /\ Chained(s \o e, gs) /\ WholeSent(s \o e, gs) /\ s \o e # <<>>
            /\ Chained(s \o SubSeq(e, 1, 1), gs) /\ s \o SubSeq(e, 1, 1) # <<>>
    BY <1>0, <1>4, <1>6, <1>7, SentPieces
  <2> QED
    BY <1>4, <2>1
<1>9. SentIn(ws'.input, gs, link')
  <2>1. CASE torn
    <3>1. ws'.input = s \o SubSeq(all, 1, 1) /\ link' = "fin"
      BY <1>1, <1>3, <2>1
    <3> HIDE DEF all, s
    <3> QED
      BY <1>8, <3>1 DEF SentIn
  <2>2. CASE ~torn
    <3>1. ws'.input = s \o all
      BY <1>3, <2>2
    <3> HIDE DEF all, s
    <3> QED
      BY <1>8, <3>1 DEF SentIn
  <2> QED
    BY <2>1, <2>2
<1>10. \A i \in 1 .. ws.used : /\ ws'.input[i] = s[i] /\ s[i].frame \in Nat
                               /\ PieceIn(s[i], frames)
  <2> SUFFICES ASSUME NEW i \in 1 .. ws.used
               PROVE  ws'.input[i] = s[i] /\ s[i].frame \in Nat /\ PieceIn(s[i], frames)
    OBVIOUS
  <2>1. i \in 1 .. Len(s)
    BY <1>0
  <2>2. j[i] = s[i]
    <3>1. s \in Seq(WsPieces(ws.protocol)) /\ rest \in Seq(WsPieces(ws.protocol))
      <4> HIDE DEF n, s
      <4>1. all \in Seq(WsPieces(ws.protocol)) /\ SubSeq(all, 1, 1) \in Seq(WsPieces(ws.protocol))
        BY ONLY <1>0, <1>4, PiecesAre
      <4> HIDE DEF all
      <4> QED
        BY ONLY <1>0, <4>1
    <3> HIDE DEF s, rest
    <3> QED
      BY <2>1, <3>1
  <2>3. s[i] \in WsPieces(ws.protocol)
    BY <1>0, <2>1
  <2>4. s[i].frame \in Nat
    BY <2>3 DEF WsPieces
  <2> HIDE DEF j, s
  <2> QED
    BY <1>3, <1>5, <2>1, <2>2, <2>4 DEF Chained
<1>11. Agree(frames, gs, Len(frames))
  BY <1>4 DEF Agree
<1>12. MsgMid(ws, frames)
  BY DEF MsgInv
<1> HIDE DEF j, s
<1>13. MsgMid(ws, frames)'
  <2>1. /\ \E h \in 0 .. ws'.used : Handled(ws', h) /\ Counts(ws', gs, h)
        /\ ws'.read \in 0 .. Len(gs) /\ IsBuffer(ws'.fragmented)
        /\ ws'.protocol = 76 => ws'.fragmented = Web!NoMessage
        /\ Says(gs, ws'.read, ws'.delivered, ws'.fragmented, ws'.clientTerminated)
    BY <1>0, <1>3, <1>4, <1>10, <1>11, <1>12, MoreMid DEF s
  <2> QED
    BY <1>2, <2>1 DEF MsgMid, Told
<1>14. ws'.protocol = 76 => Drafted(gs)
  <2>1. ASSUME ws.protocol = 76, NEW i \in 1 .. Len(gs)
        PROVE  /\ gs[i].op \in {"text", "close", "unknown"} /\ gs[i].fin
               /\ gs[i].broken => gs[i].op = "close"
    <3>1. i \in 1 .. Len(frames) \/ i = n
      BY <1>4
    <3>2. Drafted(frames)
      BY <2>1 DEF MsgInv
    <3> QED
      BY <1>2, <1>4, <2>1, <3>1, <3>2 DEF Drafted
  <2> QED
    BY <1>3, <2>1 DEF Drafted
<1> QED
  BY <1>2, <1>9, <1>13, <1>14 DEF MsgInv

LEMMA ChallengeMid ==
    ASSUME WsInv, MsgInv, Web!ClientChallenges
    PROVE  MsgInv'
<1> DEFINE a == Web!Piece("challenge", 0)
           sent0 == <<a>>
<1>0. /\ WsRecord(ws) /\ frames = <<>> /\ frames' = frames /\ link' = link /\ ws.protocol = 76
      /\ ws' = [ws EXCEPT !.input = sent0]
  BY DEF WsInv, WsMid, WsBase, WsTypes, Web!ClientChallenges, Web!ChallengePiece, MsgInv, SentIn
<1>1. ws.used = 0
  <2>1. ws.used \in Nat /\ ws.got \in Nat /\ ws.used <= ws.got /\ ws.got <= Len(<<>>)
    BY DEF WsInv, WsMid, WsBase, WsTypes, Web!ClientChallenges
  <2> QED
    BY <2>1
<1>2. /\ ws'.input = sent0
      /\ ws'.used = ws.used /\ ws'.queue = ws.queue /\ ws'.reading = ws.reading
      /\ ws'.read = ws.read /\ ws'.delivered = ws.delivered /\ ws'.fragmented = ws.fragmented
      /\ ws'.protocol = ws.protocol /\ ws'.clientTerminated = ws.clientTerminated
  BY <1>0 DEF WsRecord, WsFields
<1>3. Len(sent0) = 1 /\ sent0[1] = a /\ a.what = "challenge" /\ a.frame = 0 /\ sent0 # <<>>
  BY DEF Web!Piece
<1> HIDE DEF a, sent0
<1>4. SentIn(sent0, frames, link)
  <2>1. PieceIn(a, frames) /\ Len(frames) = 0
    BY <1>0, <1>3 DEF PieceIn
  <2>2. Chained(sent0, frames)
    BY <1>3, <2>1 DEF Chained
  <2> QED
    BY <1>3, <2>1, <2>2 DEF SentIn, WholeSent, Lasts
<1>5. MsgMid(ws, frames)'
  <2>1. /\ \E h \in 0 .. ws'.used : Handled(ws', h) /\ Counts(ws', frames, h)
        /\ ws'.read \in 0 .. Len(frames) /\ IsBuffer(ws'.fragmented)
        /\ ws'.protocol = 76 => ws'.fragmented = Web!NoMessage
        /\ Says(frames, ws'.read, ws'.delivered, ws'.fragmented, ws'.clientTerminated)
    <3>1. MsgMid(ws, frames) /\ Len(frames) \in Nat /\ Len(frames) <= Len(frames)
          /\ Agree(frames, frames, Len(frames))
      BY <1>0 DEF MsgInv, Agree
    <3>2. ws.used \in Nat /\ \A i \in 1 .. ws.used : /\ ws'.input[i] = ws.input[i]
                                                     /\ ws.input[i].frame \in Nat
                                                     /\ PieceIn(ws.input[i], frames)
      BY <1>1
    <3> QED
      BY <1>2, <3>1, <3>2, MoreMid
  <2> QED
    BY <1>0, <2>1 DEF MsgMid, Told
<1> QED
  BY <1>0, <1>2, <1>4, <1>5 DEF MsgInv

\* A step that sends nothing.
LEMMA MidInv ==
    ASSUME MsgInv, MsgMid(ws', frames), frames' = frames, link' = link \/ link' # "up"
    PROVE  MsgInv'
<1>1. ws'.input = ws.input /\ ws'.protocol = ws.protocol
  BY DEF MsgMid, Told
<1>2. MsgMid(ws, frames)'
  BY DEF MsgMid, Told
<1>3. SentIn(ws.input, frames, link')
  BY DEF MsgInv, SentIn
<1> QED
  BY <1>1, <1>2, <1>3 DEF MsgInv

LEMMA MsgNextKeeps ==
    ASSUME WsInv, MsgInv, Web!WSNext
    PROVE  MsgInv'
<1>0. WsRecord(ws) /\ MsgMid(ws, frames)
  BY DEF WsInv, WsMid, WsBase, WsTypes, MsgInv
<1>1. ASSUME Web!Iterate PROVE MsgInv'
  <2> DEFINE n == Len(ws.queue)
             w == [ws EXCEPT !.due = n]
  <2>1. ws' = w /\ frames' = frames /\ link' = link
    BY <1>1 DEF Web!Iterate
  <2> HIDE DEF n
  <2>2. Later(w, ws)
    BY <1>0 DEF Later, Moved, WsRecord, WsFields
  <2> QED
    BY <1>0, <2>1, <2>2, LaterMid, MidInv
<1>2. ASSUME Web!StreamCallback PROVE MsgInv'
  <2>1. frames' = frames /\ link' = link
    BY <1>2 DEF Web!StreamCallback
  <2> QED
    BY <1>2, <2>1, CallbackMid, MidInv
<1>3. ASSUME Web!PollRead PROVE MsgInv'
  <2>1. frames' = frames /\ link' = link
    BY <1>3 DEF Web!PollRead
  <2> QED
    BY <1>3, <2>1, PollMid, MidInv
<1>4. ASSUME Web!Timeout PROVE MsgInv'
  <2>1. ws' = Web!Abort(ws) /\ frames' = frames /\ link' = link
    BY <1>4 DEF Web!Timeout
  <2> QED
    BY <1>0, <2>1, AbortLater, LaterMid, MidInv
<1>5. ASSUME Web!AppClose PROVE MsgInv'
  <2>1. PICK lost \in Web!Losses : ws' = Web!Close(ws, lost)
    BY <1>5 DEF Web!AppClose
  <2>2. frames' = frames /\ link' = link
    BY <1>5 DEF Web!AppClose
  <2> QED
    BY <1>0, <2>1, <2>2, CloseLater, LaterMid, MidInv
<1>6. ASSUME Web!AppWrite PROVE MsgInv'
  <2> DEFINE yes == TRUE
  <2>1. PICK lost \in Web!Losses : ws' = [Web!WriteFrame(ws, lost) EXCEPT !.ok = yes]
    BY <1>6 DEF Web!AppWrite
  <2>2. frames' = frames /\ link' = link
    BY <1>6 DEF Web!AppWrite
  <2> DEFINE x == Web!WriteFrame(ws, lost)
             y == [x EXCEPT !.ok = yes]
  <2> HIDE DEF yes
  <2>3. Later(x, ws)
    BY <1>0, WriteLater
  <2>4. ws' = y
    BY <2>1
  <2> HIDE DEF x
  <2>5. Later(y, x)
    BY <2>3, LaterFields DEF Later, Moved
  <2> HIDE DEF y
  <2> QED
    BY <1>0, <2>2, <2>3, <2>4, <2>5, LaterMid, MidInv
<1>7. ASSUME NEW f \in Frames, ws.input # <<>>, Web!ClientSends(f)
      PROVE  MsgInv'
  BY <1>7, SentMid
<1>8. ASSUME Web!ClientChallenges PROVE MsgInv'
  BY <1>8, ChallengeMid
<1>9. ASSUME Web!ClientGoes PROVE MsgInv'
  <2>1. ws' = ws /\ frames' = frames /\ link' # "up"
    BY <1>9 DEF Web!ClientGoes
  <2> QED
    BY <1>0, <2>1, MidInv
<1> QED
  BY <1>1, <1>2, <1>3, <1>4, <1>5, <1>6, <1>7, <1>8, <1>9 DEF Web!WSNext

LEMMA OpenedMsg ==
    ASSUME ws \in {Web!Opened(13), Web!Opened(76)}, frames = <<>>
    PROVE  MsgInv
<1> DEFINE a == Web!Piece("challenge", 0)
           opening == IF ws.protocol = 13 THEN <<a>> ELSE <<>>
           n == Len(opening)
<1>1. /\ ws.input = opening /\ ws.used = n /\ ws.queue = opening /\ ws.read = 0
      /\ ws.protocol \in {13, 76} /\ (ws.protocol = 13 => ws.reading = "none")
      /\ ws.delivered = <<>> /\ ws.fragmented = Web!NoMessage /\ ws.clientTerminated = FALSE
  <2>1. OpenedWith(ws, ws.protocol, opening) /\ ws.protocol \in {13, 76}
    <3>1. CASE ws = Web!Opened(13)
      <4>1. OpenedWith(ws, 13, <<a>>)
        BY <3>1, OpenedIs
      <4>2. ws.protocol = 13
        BY <4>1 DEF OpenedWith
      <4> QED
        BY <4>1, <4>2
    <3>2. CASE ws = Web!Opened(76)
      <4>1. OpenedWith(ws, 76, <<>>)
        BY <3>2, OpenedIs
      <4>2. ws.protocol = 76
        BY <4>1 DEF OpenedWith
      <4>3. opening = <<>>
        BY <4>2
      <4> QED
        BY <4>1, <4>2, <4>3
    <3> QED
      BY <3>1, <3>2
  <2> HIDE DEF opening
  <2> QED
    BY <2>1 DEF OpenedWith, n
<1>2. Len(<<>>) = 0 /\ IsBuffer(Web!NoMessage) /\ a.what = "challenge" /\ a.frame = 0
  BY DEF IsBuffer, Web!NoMessage, Web!Piece
<1> HIDE DEF a
<1>7. \/ opening = <<>> /\ n = 0 /\ ws.protocol = 76
      \/ opening = <<a>> /\ n = 1 /\ opening[1] = a /\ opening # <<>> /\ ws.protocol = 13
  <2>1. Len(<<a>>) = 1 /\ <<a>>[1] = a /\ <<a>> # <<>>
    OBVIOUS
  <2> QED
    BY <1>1, <1>2, <2>1
<1> HIDE DEF opening, n
<1>3. SentIn(ws.input, frames, link) /\ Drafted(frames)
  <2>0. Len(opening) = n /\ Drafted(frames)
    BY <1>2 DEF n, Drafted
  <2>1. PieceIn(a, frames) /\ Len(frames) = 0
    BY <1>2 DEF PieceIn
  <2>2. Chained(opening, frames)
    BY <1>2, <1>7, <2>0, <2>1 DEF Chained
  <2>3. WholeSent(opening, frames)
    BY <1>2, <1>7, <2>0, <2>1 DEF WholeSent, Lasts
  <2> QED
    BY <1>1, <2>0, <2>2, <2>3 DEF SentIn
<1>4. Says(frames, 0, <<>>, Web!NoMessage, FALSE)
  <2>1. DataIn(frames, 0) = {}
    BY DEF DataIn
  <2>2. WholeIn(frames, 0, <<>>)
    <3>1. <<>> \in Seq(Seq(Nat)) /\ Len(<<>>) = 0
      OBVIOUS
    <3> QED
      BY <2>1, <3>1 DEF WholeIn, DeliveredIn
  <2>3. KeptIn(frames, Web!NoMessage, 0)
    BY <2>1 DEF KeptIn, BegunBefore
  <2> QED
    BY <2>2, <2>3 DEF Says
<1>5. Told(ws, frames)
  <2>1. Says(frames, ws.read, ws.delivered, ws.fragmented, ws.clientTerminated)
    BY <1>1, <1>4
  <2>2. ws.read \in 0 .. Len(frames)
    BY <1>1, <1>2
  <2> QED
    BY <1>1, <1>2, <2>1, <2>2 DEF Told
<1>6. Handled(ws, 0) /\ Counts(ws, frames, 0) /\ 0 \in 0 .. ws.used
  <2>1. Counts(ws, frames, 0)
    BY <1>1 DEF Counts, FramesIn, Begun
  <2>2. CASE opening = <<>> /\ n = 0
    BY <1>1, <1>2, <2>1, <2>2 DEF Handled, NoPiece
  <2>3. CASE opening = <<a>> /\ n = 1 /\ opening[1] = a /\ ws.protocol = 13
    <3>1. HasPiece(ws.queue, ws.input[ws.used])
      <4>1. Len(ws.queue) = 1 /\ ws.queue[1] = a /\ ws.input[ws.used] = a
        BY <1>1, <2>3 DEF n
      <4> QED
        BY <4>1 DEF HasPiece
    <3> QED
      BY <1>1, <2>1, <2>3, <3>1 DEF Handled
  <2> QED
    BY <1>7, <2>2, <2>3
<1> QED
  BY <1>1, <1>3, <1>5, <1>6 DEF MsgInv, MsgMid

-----------------------------------------------------------------------------
(* What the application was given is what the frames say.                  *)

LEMMA LastData ==
    ASSUME NEW n \in Nat, NEW S \in SUBSET (1 .. n), S # {}
    PROVE  Web!Max(S) \in S /\ \A i \in S : i <= Web!Max(S)
<1>1. PICK k \in S : \A i \in S : k >= i
  BY HighestExists
<1>2. Web!Max(S) \in S /\ \A i \in S : Web!Max(S) >= i
  BY <1>1 DEF Web!Max
<1>3. \A i \in S : i \in Int
  OBVIOUS
<1> QED
  BY <1>2, <1>3

LEMMA LegalIs ==
    ASSUME NEW i \in Nat, i # 0
    PROVE  Web!Legal(i) <=> LegalIn(frames, i)
<1> DEFINE D == DataIn(frames, i - 1)
<1>1. \A n : Web!Data(n) = DataIn(frames, n)
  BY DEF Web!Data, DataIn, IsData
<1>2. BegunBefore(frames, i - 1) <=> D # {} /\ ~frames[Web!Max(D)].fin
  <2>0. i - 1 \in Nat /\ D \in SUBSET (1 .. i - 1)
    BY DEF DataIn
  <2>1. CASE D = {}
    BY <2>1 DEF BegunBefore
  <2>2. CASE D # {}
    <3>1. Web!Max(D) \in D /\ \A k \in D : k <= Web!Max(D)
      BY ONLY <2>0, <2>2, LastData
    <3>2. \A k \in D : k \in Int
      BY <2>0
    <3>3. \A k : LastIn(frames, i - 1, k) <=> k = Web!Max(D)
      BY <3>1, <3>2 DEF LastIn
    <3> QED
      BY <2>2, <3>1, <3>3 DEF BegunBefore
  <2> QED
    BY <2>1, <2>2
<1>3. Web!InSequence(i) <=> (IsData(frames[i]) => (frames[i].op = "cont" <=> BegunBefore(frames, i - 1)))
  BY <1>1, <1>2 DEF Web!InSequence, IsData
<1> QED
  BY <1>3 DEF Web!Legal, LegalIn, IsData

LEMMA LegalLengthIs ==
    ASSUME NEW m \in 0 .. ws.read, ws.read \in Nat, \A i \in 1 .. m : LegalIn(frames, i),
           m = ws.read \/ ~LegalIn(frames, m + 1)
    PROVE  Web!LegalLength = m
<1> DEFINE S == {n \in 0 .. ws.read : \A i \in 1 .. n : Web!Legal(i)}
<1>1. m \in S
  <2>1. \A i \in 1 .. m : i \in Nat /\ i # 0
    OBVIOUS
  <2> QED
    BY <2>1, LegalIs
<1>2. ASSUME NEW n \in S PROVE m >= n
  <2>1. CASE m = ws.read
    BY <2>1
  <2>2. CASE m # ws.read
    <3>1. m + 1 \in Nat /\ m + 1 # 0 /\ ~Web!Legal(m + 1)
      BY <2>2, LegalIs
    <3>2. n \in 0 .. ws.read /\ ~(m + 1 \in 1 .. n)
      BY <3>1
    <3> QED
      BY <3>2
  <2> QED
    BY <2>1, <2>2
<1>3. \A n \in S : n \in Int
  OBVIOUS
<1>4. Web!LegalLength = Web!Max(S)
  BY DEF Web!LegalLength
<1> HIDE DEF S
<1>5. Web!Max(S) \in S /\ \A n \in S : Web!Max(S) >= n
  BY <1>1, <1>2 DEF Web!Max
<1>6. m \in Int /\ Web!Max(S) \in Int /\ m >= Web!Max(S) /\ Web!Max(S) >= m
  BY <1>1, <1>2, <1>3, <1>5
<1>7. m = Web!Max(S)
  BY ONLY <1>6
<1> QED
  BY <1>4, <1>7

LEMMA MessageIs ==
    ASSUME NEW t, NEW k \in Nat, IsMessage(frames, t, k)
    PROVE  Web!Increasing(t) /\ Web!Range(t) = Web!PartsOf(k)
<1> DEFINE D == DataIn(frames, k)
           F == {i \in D : frames[i].op # "cont"}
<1>1. D = Web!Data(k) /\ D \in SUBSET (1 .. k)
  BY DEF Web!Data, DataIn, IsData
<1>2. PICK a \in D :
          /\ frames[a].op # "cont" /\ \A i \in D : i > a => frames[i].op = "cont"
          /\ \A i \in Nat : (\E j \in 1 .. Len(t) : t[j] = i) <=> i \in D /\ i >= a
  BY DEF IsMessage
<1>3. t \in Seq(Nat) /\ \A i \in 2 .. Len(t) : t[i - 1] < t[i]
  BY DEF IsMessage
<1>4. \A i \in D : i \in Nat
  BY <1>1
<1>5. Web!Max(F) = a
  <2>1. F \in SUBSET (1 .. k) /\ a \in F
    BY <1>1, <1>2
  <2>2. \A i \in F : ~(i > a) /\ i \in Nat
    BY <1>2, <1>4
  <2> HIDE DEF F
  <2>3. Web!Max(F) \in F /\ \A i \in F : i <= Web!Max(F)
    BY <2>1, LastData
  <2>4. Web!Max(F) \in Nat /\ a \in Nat /\ ~(Web!Max(F) > a) /\ a <= Web!Max(F)
    BY <2>1, <2>2, <2>3
  <2> QED
    BY ONLY <2>4
<1>6. Web!PartsOf(k) = {i \in D : i >= a}
  BY <1>1, <1>5 DEF Web!PartsOf
<1>7. Web!Range(t) = {i \in D : i >= a}
  <2>1. Web!Range(t) = {t[j] : j \in 1 .. Len(t)}
    BY <1>3 DEF Web!Range
  <2>2. \A j \in 1 .. Len(t) : t[j] \in Nat
    BY <1>3
  <2> QED
    BY <1>2, <1>4, <2>1, <2>2
<1>8. Web!Increasing(t)
  BY <1>3 DEF Web!Increasing
<1> QED
  BY <1>6, <1>7, <1>8

LEMMA WsReassembled == WsInv /\ MsgInv => MessagesReassembled
<1> SUFFICES ASSUME WsInv, MsgInv PROVE MessagesReassembled
  OBVIOUS
<1> DEFINE d == ws.delivered
           lasts == [m \in DOMAIN d |-> Web!Last(d[m])]
<1>1. ws.read \in Nat
      /\ Says(frames, ws.read, d, ws.fragmented, ws.clientTerminated)
  <2>1. ws.read \in 0 .. Len(frames) /\ frames \in Seq(Frames)
        /\ Says(frames, ws.read, d, ws.fragmented, ws.clientTerminated)
    BY DEF WsInv, MsgInv, MsgMid, Told
  <2> QED
    BY <2>1
<1>2. PICK n \in 0 .. ws.read : WholeIn(frames, n, d) /\ (n = ws.read \/ ~LegalIn(frames, n + 1))
  <2>1. CASE WholeIn(frames, ws.read, d)
    <3>1. ws.read \in 0 .. ws.read
      BY <1>1
    <3> QED
      BY <2>1, <3>1
  <2>2. CASE LostIn(frames, ws.read, d)
    <3>1. PICK n \in 0 .. ws.read - 1 : WholeIn(frames, n, d) /\ ~LegalIn(frames, n + 1)
      BY <2>2 DEF LostIn
    <3>2. n \in 0 .. ws.read
      BY <1>1
    <3> QED
      BY <3>1, <3>2
  <2> QED
    BY <1>1, <2>1, <2>2 DEF Says
<1>3. Web!LegalLength = n
  BY <1>1, <1>2, LegalLengthIs DEF WholeIn
<1>4. Web!Data(n) = DataIn(frames, n) /\ DataIn(frames, n) \subseteq Nat
  BY DEF Web!Data, DataIn, IsData
<1>5. /\ d \in Seq(Seq(Nat))
      /\ \A m \in 1 .. Len(d) : /\ IsMessage(frames, d[m], LastOf(d[m]))
                                /\ LastOf(d[m]) \in DataIn(frames, n) /\ frames[LastOf(d[m])].fin
      /\ \A m \in 2 .. Len(d) : LastOf(d[m - 1]) < LastOf(d[m])
      /\ \A k \in DataIn(frames, n) : frames[k].fin => \E m \in 1 .. Len(d) : LastOf(d[m]) = k
  BY <1>2 DEF WholeIn, DeliveredIn
<1>6. /\ DOMAIN d = 1 .. Len(d) /\ DOMAIN lasts = 1 .. Len(d) /\ Len(d) \in Nat
      /\ \A m \in 1 .. Len(d) : lasts[m] = LastOf(d[m])
  <2>1. d \in Seq(Seq(Nat))
    BY <1>5
  <2> HIDE DEF d
  <2>2. DOMAIN d = 1 .. Len(d) /\ Len(d) \in Nat
    BY <2>1
  <2> QED
    BY <2>2 DEF LastOf, Web!Last
<1>7. Len(lasts) = Len(d)
  BY <1>6
<1> HIDE DEF lasts
<1>8. Web!Increasing(lasts)
  <2>1. \A m \in 2 .. Len(d) : m - 1 \in 1 .. Len(d) /\ m \in 1 .. Len(d)
    BY <1>6
  <2>2. \A m \in 2 .. Len(d) : lasts[m - 1] < lasts[m]
    BY <1>5, <1>6, <2>1
  <2> QED
    BY <1>7, <2>2 DEF Web!Increasing
<1>9. Web!Range(lasts) = {i \in Web!Data(n) : frames[i].fin}
  <2>1. Web!Range(lasts) = {lasts[m] : m \in 1 .. Len(d)}
    BY <1>6 DEF Web!Range
  <2> QED
    BY <1>4, <1>5, <1>6, <2>1
<1>10. \A m \in DOMAIN lasts : Web!Increasing(d[m]) /\ Web!Range(d[m]) = Web!PartsOf(lasts[m])
  BY <1>4, <1>5, <1>6, MessageIs
<1> QED
  BY <1>3, <1>8, <1>9, <1>10 DEF lasts, MessagesReassembled, Web!MessagesReassembled

(* However the frames of messages and of control are mixed, and whenever   *)
(* either side closes, aborts or goes away, in both protocols: the         *)
(* application gets each message once, whole and in order, and nothing     *)
(* that follows the first frame that breaks the protocol.                  *)
THEOREM MessagesAlwaysReassembled == ServicesSpec => []MessagesReassembled
<1>1. ServicesInit => WsInv /\ MsgInv
  <2>1. ServicesInit => ws \in {Web!Opened(13), Web!Opened(76)} /\ frames = <<>>
    BY DEF ServicesInit, Web!Init
  <2>2. <<>> \in Seq(Frames)
    OBVIOUS
  <2> QED
    BY <2>1, <2>2, OpenedInv, OpenedMsg DEF WsInv
<1>2. WsInv /\ MsgInv /\ [ServicesNext]_servicesVars => (WsInv /\ MsgInv)'
  <2>1. ASSUME WsInv, MsgInv, UNCHANGED wsVars PROVE WsInv' /\ MsgInv'
    <3>1. ws' = ws /\ frames' = frames /\ link' = link
      BY <2>1 DEF wsVars
    <3>2. MsgMid(ws, frames)
      BY <2>1 DEF MsgInv
    <3> QED
      BY <2>1, <3>1, <3>2, MidInv DEF WsInv
  <2> QED
    BY <2>1, PartsAlone, WsNextKeeps, MsgNextKeeps
<1> QED
  BY <1>1, <1>2, WsReassembled, PTL DEF ServicesSpec
=============================================================================

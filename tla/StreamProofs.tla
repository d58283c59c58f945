---------------------------- MODULE StreamProofs ----------------------------
(***************************************************************************)
(* IOStream: the bytes come in order, and a stream at rest is attended to, *)
(* whatever the peer, the kernel and the application do.                   *)
(***************************************************************************)
EXTENDS ServicesProofs

\* The record of a stream, with its fields.
IoFields ==
    {"open", "connecting", "connCb", "reg", "want", "got", "used", "read", "num", "streaming",
     "goal", "wbuf", "writeCb", "closeCb", "accepting", "hsRead", "hsWrite", "pending", "queue",
     "touched", "eofOutside"}
IoRecord(s) == s = [f \in IoFields |-> s[f]]

IoCallback ==
    [kind : {"read", "stream", "write", "connect", "close", "error"},
     first : Nat, last : Nat, goal : Nat]
IsError(cb) == cb.kind = "error"
IsPiece(cb) == cb.last >= cb.first

IoTypes(s) ==
    /\ IoRecord(s)
    /\ s.open \in BOOLEAN /\ s.reg \in BOOLEAN /\ s.closeCb \in BOOLEAN
    /\ s.touched \in BOOLEAN /\ s.eofOutside \in BOOLEAN
    /\ s.read \in {"none", "until", "bytes", "close"} /\ s.want \subseteq {"R", "W"}
    /\ s.num \in Nat /\ s.goal \in Nat /\ s.wbuf \in Int /\ s.pending \in Nat
    /\ s.queue \in Seq(IoCallback)
    /\ \A i \in DOMAIN s.queue : IsError(s.queue[i]) => ~IsPiece(s.queue[i])
\* The buffer holds bytes that have arrived, and no more than it may.
BufferRight(s) ==
    /\ s.got \in Nat /\ s.used \in Nat /\ arrived \in Nat
    /\ s.used <= s.got /\ s.got <= arrived /\ s.got - s.used <= MaxBuffer

\* What is pending are the callbacks in the queue, but for an error.
ErrorQueued(s) == \E i \in DOMAIN s.queue : IsError(s.queue[i])
Pending(s) == s.pending = Len(s.queue) - (IF ErrorQueued(s) THEN 1 ELSE 0)
Registered(s) == (s.reg <=> s.want # {}) /\ (s.reg => s.open)

\* The pieces in the queue follow each other, from what was seen to what was used.
Follows(s, n) ==
    LET q == s.queue
        Pieces == {i \in DOMAIN q : IsPiece(q[i])}
    IN  /\ \A i \in Pieces : (\A j \in Pieces : i <= j) => q[i].first = n + 1
        /\ \A i, j \in Pieces :
              i < j /\ (\A k \in Pieces : k <= i \/ j <= k) => q[j].first = q[i].last + 1
        /\ Pieces = {} => s.used = n
        /\ \A i \in Pieces : (\A j \in Pieces : j <= i) => s.used = q[i].last
        /\ \A i \in Pieces : q[i].kind = "read" /\ q[i].goal > 0 => q[i].last = q[i].goal
\* A read_bytes ends where it is to end, whatever was streamed of it.
GoalAhead(s) ==
    /\ s.read = "bytes" => s.goal = s.used + s.num
    /\ s.read \in {"until", "close"} => s.goal = 0

\* What every method keeps, n being the bytes seen so far.
IoBase(s, n) ==
    /\ IoTypes(s) /\ BufferRight(s) /\ Pending(s) /\ Registered(s) /\ GoalAhead(s)
    /\ n \in Nat /\ Follows(s, n)

\* A stream listens for what waits.
ReadsWanted(s) == s.open /\ s.read # "none" => "R" \in s.want
WritesWanted(s) == s.open /\ s.wbuf > 0 => "W" \in s.want
\* A closed stream has told so, and an open one listens, or a callback will see to it.
Told(s, running) == ~s.open /\ s.closeCb => s.pending > 0 \/ running \/ s.eofOutside
Listens(s, running) == s.open /\ s.touched => s.reg \/ s.pending > 0 \/ running

\* At most one error is in the queue, and the loop comes to it before it polls again.
ErrorDue ==
    /\ due \in 0 .. Len(stream.queue)
    /\ \A i, j \in DOMAIN stream.queue :
          IsError(stream.queue[i]) /\ IsError(stream.queue[j]) => i = j /\ i <= due

IoInv ==
    /\ inCallback \in BOOLEAN
    /\ IoBase(stream, seen) /\ ErrorDue
    /\ ReadsWanted(stream) /\ WritesWanted(stream)
    /\ Told(stream, inCallback) /\ Listens(stream, inCallback)

-----------------------------------------------------------------------------
(* How the methods change a stream: the fields outside of F stay.          *)

IoSame(t, s, F) == IoRecord(t) /\ \A f \in IoFields \ F : t[f] = s[f]

\* The queue goes on, without an error.
Grown(p, q) ==
    /\ Len(p) <= Len(q)
    /\ \A i \in 1 .. Len(p) : q[i] = p[i]
    /\ \A i \in 1 .. Len(q) : i > Len(p) => ~IsError(q[i])

\* What a method may do, but for telling of the end.
IoLater(s, t) ==
    /\ Grown(s.queue, t.queue) /\ s.pending <= t.pending
    /\ t.open => s.open /\ s.want \subseteq t.want
    /\ t.read \in {s.read, "none"} /\ t.wbuf <= s.wbuf
    /\ t.touched = s.touched
    /\ t.closeCb => s.closeCb
    /\ ~s.open => t.eofOutside = s.eofOutside
IoTold(s, t) == IoLater(s, t) /\ (s.open /\ ~t.open => Told(t, inCallback))

LEMMA IoFacts ==
    ASSUME NEW s, NEW n, IoBase(s, n)
    PROVE  /\ IoRecord(s) /\ s.pending \in Nat /\ s.wbuf \in Int
           /\ s.queue \in Seq(IoCallback) /\ Len(s.queue) \in Nat
           /\ DOMAIN s.queue = 1 .. Len(s.queue)
<1>1. s.queue \in Seq(IoCallback)
  BY DEF IoBase, IoTypes
<1>2. Len(s.queue) \in Nat /\ DOMAIN s.queue = 1 .. Len(s.queue)
  BY <1>1
<1> QED
  BY <1>1, <1>2 DEF IoBase, IoTypes

LEMMA GrownTransitive ==
    ASSUME NEW p, NEW q, NEW r, Len(p) \in Nat, Len(q) \in Nat, Len(r) \in Nat,
           Grown(p, q), Grown(q, r)
    PROVE  Grown(p, r)
<1>1. Len(p) <= Len(r)
  BY DEF Grown
<1>2. ASSUME NEW i \in 1 .. Len(p)
      PROVE  r[i] = p[i]
  BY <1>2 DEF Grown
<1>3. ASSUME NEW i \in 1 .. Len(r), i > Len(p)
      PROVE  ~IsError(r[i])
  <2>1. CASE i <= Len(q)
    <3>1. i \in 1 .. Len(q)
      BY <1>3, <2>1
    <3>2. r[i] = q[i] /\ ~IsError(q[i])
      BY <1>3, <3>1 DEF Grown
    <3> QED
      BY <3>2
  <2>2. CASE ~(i <= Len(q))
    BY <1>3, <2>2 DEF Grown
  <2> QED
    BY <2>1, <2>2
<1> QED
  BY <1>1, <1>2, <1>3 DEF Grown

LEMMA LaterReflexive ==
    ASSUME NEW s, NEW n, IoBase(s, n)
    PROVE  IoTold(s, s)
BY DEF IoBase, IoTypes, IoTold, IoLater, Grown

LEMMA LaterTransitive ==
    ASSUME NEW s, NEW t, NEW u, NEW n, IoBase(s, n), IoBase(t, n), IoBase(u, n)
    PROVE  /\ IoLater(s, t) /\ IoLater(t, u) => IoLater(s, u)
           /\ IoTold(s, t) /\ IoTold(t, u) => IoTold(s, u)
<1>1. /\ s.pending \in Nat /\ t.pending \in Nat /\ u.pending \in Nat
      /\ s.wbuf \in Int /\ t.wbuf \in Int /\ u.wbuf \in Int
      /\ Len(s.queue) \in Nat /\ Len(t.queue) \in Nat /\ Len(u.queue) \in Nat
  BY IoFacts
<1>2. ASSUME Grown(s.queue, t.queue), Grown(t.queue, u.queue)
      PROVE  Grown(s.queue, u.queue)
  BY <1>1, <1>2, GrownTransitive
<1>3. ASSUME IoLater(s, t), IoLater(t, u)
      PROVE  IoLater(s, u)
  BY <1>1, <1>2, <1>3 DEF IoLater
<1>4. ASSUME IoTold(s, t), IoTold(t, u)
      PROVE  IoTold(s, u)
  BY <1>1, <1>3, <1>4 DEF IoTold, IoLater, Told
<1> QED
  BY <1>3, <1>4

\* What a stream wants and has told stays right.
LEMMA LaterRight ==
    ASSUME NEW s, NEW t, NEW n, IoBase(s, n), IoBase(t, n), IoTold(s, t)
    PROVE  /\ ReadsWanted(s) => ReadsWanted(t)
           /\ WritesWanted(s) => WritesWanted(t)
           /\ Told(s, inCallback) => Told(t, inCallback)
           /\ Listens(s, inCallback) => Listens(t, inCallback)
<1>1. /\ s.pending \in Nat /\ t.pending \in Nat
      /\ s.wbuf \in Int /\ t.wbuf \in Int
  BY DEF IoBase, IoTypes
<1>2. Registered(s) /\ Registered(t)
  BY DEF IoBase
<1> QED
  BY <1>1, <1>2 DEF IoTold, IoLater, Told, Listens, ReadsWanted, WritesWanted, Registered

\* The fields that none of this looks at.
LEMMA AsideKeeps ==
    ASSUME NEW s, NEW t, NEW n, IoBase(s, n),
           IoSame(t, s, {"connecting", "connCb", "streaming", "writeCb", "accepting", "hsRead",
                         "hsWrite", "touched", "eofOutside", "wbuf", "closeCb"}),
           t.touched \in BOOLEAN, t.eofOutside \in BOOLEAN, t.closeCb \in BOOLEAN, t.wbuf \in Int
    PROVE  IoBase(t, n)
<1>1. /\ IoRecord(t)
      /\ t.open = s.open /\ t.reg = s.reg /\ t.read = s.read /\ t.want = s.want
      /\ t.num = s.num /\ t.goal = s.goal /\ t.pending = s.pending /\ t.queue = s.queue
      /\ t.got = s.got /\ t.used = s.used
  BY DEF IoSame, IoFields
<1> QED
  BY <1>1 DEF IoBase, IoTypes, BufferRight, Pending, ErrorQueued, Registered, Follows, GoalAhead

-----------------------------------------------------------------------------
(* Callbacks and closing.                                                  *)

\* A callback that is put into the queue.
LEMMA QueuePiece ==
    ASSUME NEW q \in Seq(IoCallback), NEW cb \in IoCallback, ~IsError(cb)
    PROVE  LET p == Append(q, cb)
           IN  /\ p \in Seq(IoCallback) /\ Len(p) = Len(q) + 1 /\ Len(q) \in Nat
               /\ \A i \in 1 .. Len(q) : p[i] = q[i]
               /\ p[Len(q) + 1] = cb
               /\ Grown(q, p)
<1> DEFINE p == Append(q, cb)
<1>1. /\ p \in Seq(IoCallback) /\ Len(p) = Len(q) + 1 /\ Len(q) \in Nat
      /\ \A i \in 1 .. Len(q) : p[i] = q[i]
      /\ p[Len(q) + 1] = cb
  OBVIOUS
<1> HIDE DEF p
<1>2. Grown(q, p)
  BY <1>1 DEF Grown
<1> QED
  BY <1>1, <1>2 DEF p

LEMMA NoteType ==
    ASSUME NEW kind \in {"write", "connect", "close", "error"}
    PROVE  /\ Stream!Note(kind) \in IoCallback /\ ~IsPiece(Stream!Note(kind))
           /\ IsError(Stream!Note(kind)) <=> kind = "error"
BY DEF Stream!Note, Stream!Callback, IoCallback, IsPiece, IsError

\* What is common to all that is queued.
LEMMA QueuedKeeps ==
    ASSUME NEW s, NEW t, NEW n, IoBase(s, n), NEW cb \in IoCallback, ~IsError(cb),
           t.queue = Append(s.queue, cb), t.pending = s.pending + 1
    PROVE  /\ t.queue \in Seq(IoCallback) /\ Grown(s.queue, t.queue)
           /\ t.pending \in Nat /\ t.pending > 0 /\ s.pending <= t.pending
           /\ \A i \in DOMAIN t.queue : IsError(t.queue[i]) => ~IsPiece(t.queue[i])
           /\ Pending(t)
<1>1. /\ s.queue \in Seq(IoCallback) /\ s.pending \in Nat
      /\ \A i \in DOMAIN s.queue : IsError(s.queue[i]) => ~IsPiece(s.queue[i])
      /\ Pending(s)
  BY DEF IoBase, IoTypes
<1>2. /\ t.queue \in Seq(IoCallback) /\ Len(t.queue) = Len(s.queue) + 1 /\ Len(s.queue) \in Nat
      /\ \A i \in 1 .. Len(s.queue) : t.queue[i] = s.queue[i]
      /\ t.queue[Len(s.queue) + 1] = cb
      /\ Grown(s.queue, t.queue)
  BY <1>1, QueuePiece
<1>3. DOMAIN t.queue = 1 .. Len(s.queue) + 1 /\ DOMAIN s.queue = 1 .. Len(s.queue)
  BY <1>1, <1>2
<1>4. \A i \in DOMAIN t.queue : i \in DOMAIN s.queue \/ i = Len(s.queue) + 1
  BY <1>2, <1>3
<1>5. ErrorQueued(t) <=> ErrorQueued(s)
  BY <1>2, <1>3, <1>4 DEF ErrorQueued
<1>6. Pending(t)
  <2>1. CASE ErrorQueued(s)
    BY <1>1, <1>2, <1>5, <2>1 DEF Pending
  <2>2. CASE ~ErrorQueued(s)
    <3>1. s.pending = Len(s.queue)
      BY <1>1, <1>2, <2>2 DEF Pending
    <3>2. t.pending = Len(t.queue) /\ Len(t.queue) \in Nat
      BY <1>2, <3>1
    <3>3. ~ErrorQueued(t)
      BY <1>5, <2>2
    <3> QED
      BY <3>2, <3>3 DEF Pending
  <2> QED
    BY <2>1, <2>2
<1>7. \A i \in DOMAIN t.queue : IsError(t.queue[i]) => ~IsPiece(t.queue[i])
  BY <1>1, <1>2, <1>3, <1>4
<1> QED
  BY <1>1, <1>2, <1>6, <1>7

LEMMA ScheduleKeeps ==
    ASSUME NEW s, NEW n, IoBase(s, n), NEW kind \in {"write", "connect", "close"}
    PROVE  LET t == Stream!Schedule(s, Stream!Note(kind))
           IN  /\ IoBase(t, n) /\ IoTold(s, t) /\ t.pending > 0
               /\ IoSame(t, s, {"pending", "queue"})
<1> DEFINE cb == Stream!Note(kind)
           t == [s EXCEPT !.pending = @ + 1, !.queue = Append(@, cb)]
<1>1. Stream!Schedule(s, cb) = t
  BY DEF Stream!Schedule
<1>2. cb \in IoCallback /\ ~IsPiece(cb) /\ ~IsError(cb)
  BY NoteType
<1> HIDE DEF cb
<1>3. IoRecord(s)
  BY DEF IoBase, IoTypes
<1>4. /\ IoSame(t, s, {"pending", "queue"})
      /\ t.pending = s.pending + 1 /\ t.queue = Append(s.queue, cb)
  BY <1>3 DEF IoSame, IoRecord, IoFields
<1> HIDE DEF t
<1>5. /\ IoRecord(t) /\ t.open = s.open /\ t.reg = s.reg /\ t.closeCb = s.closeCb
      /\ t.touched = s.touched /\ t.eofOutside = s.eofOutside /\ t.read = s.read
      /\ t.want = s.want /\ t.num = s.num /\ t.goal = s.goal /\ t.wbuf = s.wbuf
      /\ t.got = s.got /\ t.used = s.used
  BY <1>4 DEF IoSame, IoFields
<1>6. /\ t.queue \in Seq(IoCallback) /\ Grown(s.queue, t.queue)
      /\ t.pending \in Nat /\ t.pending > 0 /\ s.pending <= t.pending
      /\ \A i \in DOMAIN t.queue : IsError(t.queue[i]) => ~IsPiece(t.queue[i])
      /\ Pending(t)
  BY <1>2, <1>4, QueuedKeeps
<1>7. IoTypes(t)
  BY <1>5, <1>6 DEF IoBase, IoTypes
<1>8. Follows(t, n)
  <2>1. /\ s.queue \in Seq(IoCallback) /\ t.queue \in Seq(IoCallback)
        /\ Len(s.queue) \in Nat /\ Len(t.queue) = Len(s.queue) + 1
        /\ \A i \in 1 .. Len(s.queue) : t.queue[i] = s.queue[i]
        /\ t.queue[Len(s.queue) + 1] = cb
    BY <1>2, <1>4, QueuePiece DEF IoBase, IoTypes
  <2>2. /\ DOMAIN t.queue = 1 .. Len(s.queue) + 1 /\ DOMAIN s.queue = 1 .. Len(s.queue)
    BY <2>1
  <2>3. {i \in DOMAIN t.queue : IsPiece(t.queue[i])} = {i \in DOMAIN s.queue : IsPiece(s.queue[i])}
    BY <1>2, <2>1, <2>2
  <2>4. \A i \in {j \in DOMAIN s.queue : IsPiece(s.queue[j])} : t.queue[i] = s.queue[i]
    BY <2>1, <2>2
  <2> QED
    BY <1>5, <2>3, <2>4 DEF IoBase, Follows
<1>9. IoBase(t, n)
  BY <1>5, <1>6, <1>7, <1>8 DEF IoBase, BufferRight, Registered, GoalAhead
<1>10. IoTold(s, t)
  BY <1>5, <1>6 DEF IoTold, IoLater, IoBase, IoTypes
<1> QED
  BY <1>1, <1>4, <1>6, <1>9, <1>10 DEF cb

\* A piece of m bytes, put behind the others.
LEMMA PieceFollows ==
    ASSUME NEW s, NEW t, NEW n, NEW m \in Nat, NEW cb \in IoCallback,
           s.queue \in Seq(IoCallback), s.used \in Nat, Follows(s, n),
           t.queue = Append(s.queue, cb), t.used = s.used + m, ~IsError(cb),
           cb.first = s.used + 1, cb.last = s.used + m,
           cb.kind = "read" /\ cb.goal > 0 /\ m > 0 => cb.last = cb.goal
    PROVE  Follows(t, n)
<1> DEFINE P == {i \in DOMAIN s.queue : IsPiece(s.queue[i])}
           Q == {i \in DOMAIN t.queue : IsPiece(t.queue[i])}
           N == Len(s.queue) + 1
<1>1. /\ t.queue \in Seq(IoCallback) /\ Len(s.queue) \in Nat /\ Len(t.queue) = N
      /\ \A i \in 1 .. Len(s.queue) : t.queue[i] = s.queue[i]
      /\ t.queue[N] = cb
  BY QueuePiece
<1>2. DOMAIN t.queue = 1 .. N /\ DOMAIN s.queue = 1 .. Len(s.queue)
  BY <1>1
<1>3. /\ N \in Nat /\ N \notin P
      /\ \A i \in P : i \in Nat /\ i < N /\ t.queue[i] = s.queue[i]
  BY <1>1, <1>2
<1>4. IsPiece(cb) <=> m > 0
  BY DEF IsPiece
<1>5. Q = IF m > 0 THEN P \cup {N} ELSE P
  BY <1>1, <1>2, <1>4
<1> HIDE DEF P, Q, N
<1>6. /\ \A i \in P : (\A j \in P : i <= j) => s.queue[i].first = n + 1
      /\ \A i, j \in P :
            i < j /\ (\A k \in P : k <= i \/ j <= k) => s.queue[j].first = s.queue[i].last + 1
      /\ P = {} => s.used = n
      /\ \A i \in P : (\A j \in P : j <= i) => s.used = s.queue[i].last
      /\ \A i \in P : s.queue[i].kind = "read" /\ s.queue[i].goal > 0
                         => s.queue[i].last = s.queue[i].goal
  BY DEF Follows, P
<1>7. CASE m = 0
  <2>1. Q = P /\ t.used = s.used
    BY <1>5, <1>7
  <2>2. /\ \A i \in Q : (\A j \in Q : i <= j) => t.queue[i].first = n + 1
        /\ Q = {} => t.used = n
        /\ \A i \in Q : (\A j \in Q : j <= i) => t.used = t.queue[i].last
        /\ \A i \in Q : t.queue[i].kind = "read" /\ t.queue[i].goal > 0
                         => t.queue[i].last = t.queue[i].goal
    BY <1>3, <1>6, <2>1
  <2>3. ASSUME NEW i \in Q, NEW j \in Q, i < j, \A k \in Q : k <= i \/ j <= k
        PROVE  t.queue[j].first = t.queue[i].last + 1
    <3>1. s.queue[j].first = s.queue[i].last + 1
      BY <1>6, <2>1, <2>3
    <3> QED
      BY <1>3, <2>1, <3>1
  <2> QED
    BY <2>2, <2>3 DEF Follows, Q
<1>8. CASE m > 0
  <2>0. Q = P \cup {N}
    BY <1>5, <1>8
  <2>1. ASSUME NEW i \in Q, \A j \in Q : i <= j
        PROVE  t.queue[i].first = n + 1
    <3>1. CASE i \in P
      BY <1>3, <1>6, <2>0, <2>1, <3>1
    <3>2. CASE i = N
      <4>1. P = {}
        BY <1>3, <2>0, <2>1, <3>2
      <4> QED
        BY <1>1, <1>6, <3>2, <4>1 DEF N
    <3> QED
      BY <2>0, <3>1, <3>2
  <2>2. ASSUME NEW i \in Q, NEW j \in Q, i < j, \A k \in Q : k <= i \/ j <= k
        PROVE  t.queue[j].first = t.queue[i].last + 1
    <3>1. CASE j \in P
      <4>1. i \in P
        BY <1>3, <2>0, <2>2, <3>1
      <4>2. \A k \in P : k <= i \/ j <= k
        BY <2>0, <2>2
      <4>3. s.queue[j].first = s.queue[i].last + 1
        BY <1>6, <2>2, <3>1, <4>1, <4>2
      <4> QED
        BY <1>3, <3>1, <4>1, <4>3
    <3>2. CASE j = N
      <4>1. i \in P
        BY <1>3, <2>0, <2>2, <3>2
      <4>2. \A k \in P : k <= i
        BY <1>3, <2>0, <2>2, <3>2
      <4>3. s.used = s.queue[i].last /\ t.queue[i] = s.queue[i]
        BY <1>3, <1>6, <4>1, <4>2
      <4> QED
        BY <1>1, <3>2, <4>3 DEF N
    <3> QED
      BY <2>0, <3>1, <3>2
  <2>3. ASSUME NEW i \in Q, \A j \in Q : j <= i
        PROVE  t.used = t.queue[i].last
    <3>1. i = N
      BY <1>3, <2>0, <2>3
    <3> QED
      BY <1>1, <3>1 DEF N
  <2>4. ASSUME NEW i \in Q, t.queue[i].kind = "read", t.queue[i].goal > 0
        PROVE  t.queue[i].last = t.queue[i].goal
    <3>1. CASE i \in P
      BY <1>3, <1>6, <2>4, <3>1
    <3>2. CASE i = N
      BY <1>1, <1>8, <2>4, <3>2 DEF N
    <3> QED
      BY <2>0, <3>1, <3>2
  <2>5. Q # {}
    BY <2>0
  <2> QED
    BY <2>1, <2>2, <2>3, <2>4, <2>5 DEF Follows, Q
<1> QED
  BY <1>7, <1>8

\* What is delivered: s0 is the stream before its read is looked at, s the stream after.
LEMMA DeliveryKeeps ==
    ASSUME NEW s0, NEW s, NEW n, IoBase(s0, n), NEW m \in Nat, NEW kind \in {"read", "stream"},
           IoSame(s, s0, {"read", "num", "streaming", "goal"}),
           s.read \in {s0.read, "none"}, s.num \in Nat, s.goal \in Nat,
           m <= s.got - s.used,
           kind = "read" /\ s.goal > 0 /\ m > 0 => s.goal = s.used + m,
           s.read = "bytes" => s.goal = s.used + m + s.num,
           s.read \in {"until", "close"} => s.goal = 0
    PROVE  LET t == Stream!Deliver(s, kind, m)
           IN  /\ IoBase(t, n) /\ IoTold(s0, t) /\ t.pending > 0
               /\ IoSame(t, s, {"used", "pending", "queue"}) /\ t.used = s.used + m
<1> DEFINE cb == [kind |-> kind, first |-> s.used + 1, last |-> s.used + m, goal |-> s.goal]
           t == [s EXCEPT !.used = @ + m, !.pending = @ + 1, !.queue = Append(@, cb)]
<1>0. IoRecord(s)
  BY DEF IoSame
<1>1. Stream!Deliver(s, kind, m) = t
  BY <1>0 DEF Stream!Deliver, Stream!Schedule, Stream!Callback, IoRecord, IoFields
<1>2. /\ s.open = s0.open /\ s.reg = s0.reg /\ s.closeCb = s0.closeCb
      /\ s.touched = s0.touched /\ s.eofOutside = s0.eofOutside
      /\ s.want = s0.want /\ s.wbuf = s0.wbuf /\ s.pending = s0.pending /\ s.queue = s0.queue
      /\ s.got = s0.got /\ s.used = s0.used
  BY DEF IoSame, IoFields
<1>3. /\ s0.queue \in Seq(IoCallback) /\ s0.used \in Nat /\ s0.got \in Nat /\ Follows(s0, n)
      /\ s0.wbuf \in Int
  BY DEF IoBase, IoTypes, BufferRight
<1>4. /\ cb \in IoCallback /\ ~IsError(cb)
      /\ cb.first = s.used + 1 /\ cb.last = s.used + m /\ cb.goal = s.goal /\ cb.kind = kind
  BY <1>2, <1>3 DEF IoCallback, IsError
<1> HIDE DEF cb
<1>5. /\ IoSame(t, s, {"used", "pending", "queue"})
      /\ t.used = s.used + m /\ t.pending = s.pending + 1 /\ t.queue = Append(s.queue, cb)
  BY <1>0 DEF IoSame, IoRecord, IoFields
<1> HIDE DEF t
<1>6. /\ IoRecord(t) /\ t.open = s0.open /\ t.reg = s0.reg /\ t.closeCb = s0.closeCb
      /\ t.touched = s0.touched /\ t.eofOutside = s0.eofOutside
      /\ t.want = s0.want /\ t.wbuf = s0.wbuf /\ t.got = s0.got
      /\ t.read = s.read /\ t.num = s.num /\ t.goal = s.goal
  BY <1>2, <1>5 DEF IoSame, IoFields
<1>7. /\ t.queue \in Seq(IoCallback) /\ Grown(s0.queue, t.queue)
      /\ t.pending \in Nat /\ t.pending > 0 /\ s0.pending <= t.pending
      /\ \A i \in DOMAIN t.queue : IsError(t.queue[i]) => ~IsPiece(t.queue[i])
      /\ Pending(t)
  BY <1>2, <1>4, <1>5, QueuedKeeps
<1>8. IoTypes(t)
  BY <1>6, <1>7 DEF IoBase, IoTypes
<1>9. Follows(t, n)
  <2>1. cb.kind = "read" /\ cb.goal > 0 /\ m > 0 => cb.last = cb.goal
    BY <1>4
  <2>2. t.used = s0.used + m /\ t.queue = Append(s0.queue, cb)
    BY <1>2, <1>5
  <2>3. cb.first = s0.used + 1 /\ cb.last = s0.used + m
    BY <1>2, <1>4
  <2> QED
    BY <1>3, <1>4, <2>1, <2>2, <2>3, PieceFollows
<1>10. BufferRight(t)
  <2>1. t.used = s0.used + m /\ m <= s0.got - s0.used
    BY <1>2, <1>5
  <2>2. BufferRight(s0)
    BY DEF IoBase
  <2>3. MaxBuffer \in Nat
    BY SizesAssumption
  <2>4. s.got = s0.got /\ t.got = s0.got
    BY <1>2, <1>6
  <2> QED
    BY <2>1, <2>2, <2>3, <2>4 DEF BufferRight
<1>11. Registered(t) /\ GoalAhead(t)
  BY <1>2, <1>5, <1>6 DEF IoBase, Registered, GoalAhead
<1>12. IoBase(t, n)
  BY <1>7, <1>8, <1>9, <1>10, <1>11 DEF IoBase
<1>13. IoTold(s0, t)
  BY <1>3, <1>6, <1>7 DEF IoTold, IoLater
<1> QED
  BY <1>1, <1>5, <1>7, <1>12, <1>13

TellsNow(s) == ~s.open /\ s.closeCb => s.pending > 0

LEMMA MaybeRunKeeps ==
    ASSUME NEW s, NEW n, IoBase(s, n)
    PROVE  LET t == Stream!MaybeRunCloseCallback(s)
           IN  /\ IoBase(t, n) /\ IoTold(s, t) /\ TellsNow(t)
               /\ IoSame(t, s, {"closeCb", "pending", "queue"})
<1>0. IoRecord(s) /\ s.pending \in Nat
  BY IoFacts
<1>1. CASE ~s.open /\ s.closeCb /\ s.pending = 0
  <2> DEFINE u == [s EXCEPT !.closeCb = FALSE]
             t == Stream!Schedule(u, Stream!Note("close"))
  <2>1. Stream!MaybeRunCloseCallback(s) = t
    BY <1>1 DEF Stream!MaybeRunCloseCallback
  <2>2. IoSame(u, s, {"closeCb"}) /\ u.closeCb = FALSE
    BY <1>0 DEF IoSame, IoRecord, IoFields
  <2> HIDE DEF u
  <2>3. /\ IoRecord(u) /\ u.open = s.open /\ u.queue = s.queue /\ u.pending = s.pending
        /\ u.want = s.want /\ u.read = s.read /\ u.wbuf = s.wbuf /\ u.touched = s.touched
        /\ u.eofOutside = s.eofOutside
    BY <2>2 DEF IoSame, IoFields
  <2>4. IoBase(u, n)
    <3>1. IoSame(u, s, {"connecting", "connCb", "streaming", "writeCb", "accepting", "hsRead",
                        "hsWrite", "touched", "eofOutside", "wbuf", "closeCb"})
      BY <2>2 DEF IoSame
    <3>2. u.touched \in BOOLEAN /\ u.eofOutside \in BOOLEAN /\ u.closeCb \in BOOLEAN
          /\ u.wbuf \in Int
      BY <2>2, <2>3 DEF IoBase, IoTypes
    <3> QED
      BY <3>1, <3>2, AsideKeeps
  <2>5. IoTold(s, u)
    BY <1>0, <1>1, <2>2, <2>3, LaterReflexive DEF IoTold, IoLater
  <2>6. IoBase(t, n) /\ IoTold(u, t) /\ t.pending > 0 /\ IoSame(t, u, {"pending", "queue"})
    BY <2>4, ScheduleKeeps
  <2> HIDE DEF t
  <2>7. IoTold(s, t)
    BY <2>4, <2>5, <2>6, LaterTransitive
  <2>8. IoSame(t, s, {"closeCb", "pending", "queue"})
    BY <2>2, <2>6 DEF IoSame
  <2> QED
    BY <2>1, <2>6, <2>7, <2>8 DEF TellsNow
<1>2. CASE ~(~s.open /\ s.closeCb /\ s.pending = 0)
  <2>1. Stream!MaybeRunCloseCallback(s) = s
    BY <1>2 DEF Stream!MaybeRunCloseCallback
  <2> QED
    BY <1>0, <1>2, <2>1, LaterReflexive DEF TellsNow, IoSame
<1> QED
  BY <1>1, <1>2

\* A read until the end gets what is there.
LEMMA LastReadKeeps ==
    ASSUME NEW s, NEW n, IoBase(s, n)
    PROVE  LET t == Stream!FinishReadUntilClose(s)
           IN  /\ IoBase(t, n) /\ IoTold(s, t)
               /\ IoSame(t, s, {"read", "used", "pending", "queue"})
               /\ s.read = "close" => t.pending > 0
<1>0. IoRecord(s)
  BY IoFacts
<1>1. CASE s.read = "close"
  <2> DEFINE u == [s EXCEPT !.read = "none"]
             m == Stream!Buffered(u)
  <2>1. Stream!FinishReadUntilClose(s) = Stream!Deliver(u, "read", Stream!Buffered(s))
    BY <1>1 DEF Stream!FinishReadUntilClose
  <2>2. IoSame(u, s, {"read"}) /\ u.read = "none"
    BY <1>0 DEF IoSame, IoRecord, IoFields
  <2> HIDE DEF u
  <2>3. u.num = s.num /\ u.goal = s.goal /\ u.got = s.got /\ u.used = s.used
    BY <2>2 DEF IoSame, IoFields
  <2>4. u.num \in Nat /\ u.goal \in Nat /\ u.goal = 0
    BY <1>1, <2>3 DEF IoBase, IoTypes, GoalAhead
  <2>5. s.got \in Nat /\ s.used \in Nat /\ s.used <= s.got
    BY DEF IoBase, BufferRight
  <2>6. m \in Nat /\ m <= u.got - u.used /\ Stream!Buffered(s) = m
    BY <2>3, <2>5 DEF Stream!Buffered
  <2>7. IoSame(u, s, {"read", "num", "streaming", "goal"})
    BY <2>2 DEF IoSame
  <2> HIDE DEF m
  <2>8. LET t == Stream!Deliver(u, "read", m)
        IN  /\ IoBase(t, n) /\ IoTold(s, t) /\ t.pending > 0
            /\ IoSame(t, u, {"used", "pending", "queue"})
    BY <2>2, <2>4, <2>6, <2>7, DeliveryKeeps
  <2>9. IoSame(Stream!Deliver(u, "read", m), s, {"read", "used", "pending", "queue"})
    BY <2>2, <2>8 DEF IoSame
  <2> QED
    BY <2>1, <2>6, <2>8, <2>9
<1>2. CASE s.read # "close"
  <2>1. Stream!FinishReadUntilClose(s) = s
    BY <1>2 DEF Stream!FinishReadUntilClose
  <2> QED
    BY <1>0, <1>2, <2>1, LaterReflexive DEF IoSame
<1> QED
  BY <1>1, <1>2

\* The socket, and what the loop polls it for.
LEMMA SocketFields ==
    ASSUME NEW s, NEW t, NEW n, IoBase(s, n), IoSame(t, s, {"open", "reg", "want"}),
           t.open \in BOOLEAN, t.reg \in BOOLEAN, t.want \subseteq {"R", "W"}, Registered(t)
    PROVE  IoBase(t, n)
<1>1. /\ IoRecord(t) /\ t.closeCb = s.closeCb
      /\ t.touched = s.touched /\ t.eofOutside = s.eofOutside /\ t.read = s.read
      /\ t.num = s.num /\ t.goal = s.goal /\ t.wbuf = s.wbuf
      /\ t.got = s.got /\ t.used = s.used /\ t.pending = s.pending /\ t.queue = s.queue
  BY DEF IoSame, IoFields
<1>2. IoTypes(t)
  BY <1>1 DEF IoBase, IoTypes
<1>3. BufferRight(t) /\ GoalAhead(t)
  BY <1>1 DEF IoBase, BufferRight, GoalAhead
<1>4. Pending(t)
  BY <1>1 DEF IoBase, Pending, ErrorQueued
<1>5. n \in Nat /\ Follows(t, n)
  BY <1>1 DEF IoBase, Follows
<1> QED
  BY <1>2, <1>3, <1>4, <1>5 DEF IoBase

LEMMA SocketKeeps ==
    ASSUME NEW s, NEW n, IoBase(s, n)
    PROVE  LET t == Stream!CloseSocket(s)
           IN  /\ IoBase(t, n) /\ IoLater(s, t) /\ ~t.open /\ IoSame(t, s, {"open", "reg", "want"})
<1> DEFINE t == [s EXCEPT !.open = FALSE, !.reg = FALSE, !.want = {}]
<1>0. IoRecord(s)
  BY IoFacts
<1>1. IoSame(t, s, {"open", "reg", "want"}) /\ t.open = FALSE /\ t.reg = FALSE /\ t.want = {}
  BY <1>0 DEF IoSame, IoRecord, IoFields
<1>2. Stream!CloseSocket(s) = t
  BY DEF Stream!CloseSocket
<1> HIDE DEF t
<1>3. /\ IoRecord(t) /\ t.closeCb = s.closeCb
      /\ t.touched = s.touched /\ t.eofOutside = s.eofOutside /\ t.read = s.read
      /\ t.num = s.num /\ t.goal = s.goal /\ t.wbuf = s.wbuf
      /\ t.got = s.got /\ t.used = s.used /\ t.pending = s.pending /\ t.queue = s.queue
  BY <1>1 DEF IoSame, IoFields
<1>4. IoBase(t, n)
  BY <1>1, SocketFields DEF Registered
<1>5. IoLater(s, t)
  BY <1>1, <1>3, LaterReflexive DEF IoTold, IoLater
<1> QED
  BY <1>1, <1>2, <1>4, <1>5

ClosingFields == {"open", "reg", "want", "read", "used", "closeCb", "pending", "queue"}
LEMMA ClosingKeeps ==
    ASSUME NEW s, NEW n, IoBase(s, n)
    PROVE  LET t == Stream!CloseStream(s)
           IN  /\ IoBase(t, n) /\ IoTold(s, t) /\ TellsNow(t) /\ ~t.open
               /\ IoSame(t, s, ClosingFields)
<1> DEFINE u == Stream!FinishReadUntilClose(s)
           v == IF s.open THEN Stream!CloseSocket(u) ELSE s
           t == Stream!MaybeRunCloseCallback(v)
<1>1. Stream!CloseStream(s) = t
  BY DEF Stream!CloseStream
<1>2. IoBase(u, n) /\ IoTold(s, u) /\ IoSame(u, s, {"read", "used", "pending", "queue"})
  BY LastReadKeeps
<1> HIDE DEF u
<1>3. IoBase(v, n) /\ IoLater(s, v) /\ ~v.open /\ IoSame(v, s, ClosingFields \ {"closeCb"})
  <2>1. CASE s.open
    <3>1. IoBase(Stream!CloseSocket(u), n) /\ IoLater(u, Stream!CloseSocket(u))
          /\ ~Stream!CloseSocket(u).open
          /\ IoSame(Stream!CloseSocket(u), u, {"open", "reg", "want"})
      BY <1>2, SocketKeeps
    <3>2. IoLater(s, Stream!CloseSocket(u))
      BY <1>2, <3>1, LaterTransitive DEF IoTold
    <3>3. IoSame(Stream!CloseSocket(u), s, ClosingFields \ {"closeCb"})
      BY <1>2, <3>1 DEF IoSame, ClosingFields
    <3> QED
      BY <2>1, <3>1, <3>2, <3>3
  <2>2. CASE ~s.open
    BY <2>2, IoFacts, LaterReflexive DEF IoTold, IoSame
  <2> QED
    BY <2>1, <2>2
<1> HIDE DEF v
<1>4. IoBase(t, n) /\ IoTold(v, t) /\ TellsNow(t) /\ IoSame(t, v, {"closeCb", "pending", "queue"})
  BY <1>3, MaybeRunKeeps
<1> HIDE DEF t
<1>5. IoLater(s, t)
  BY <1>3, <1>4, LaterTransitive DEF IoTold
<1>6. IoSame(t, s, ClosingFields)
  BY <1>3, <1>4 DEF IoSame, ClosingFields
<1>7. ~t.open
  BY <1>3, <1>4 DEF IoTold, IoLater
<1>8. IoTold(s, t)
  BY <1>4, <1>5 DEF IoTold, TellsNow, Told
<1> QED
  BY <1>1, <1>4, <1>6, <1>7, <1>8

LEMMA AddStateKeeps ==
    ASSUME NEW s, NEW n, IoBase(s, n), NEW e \in {"R", "W"}
    PROVE  LET t == Stream!AddIoState(s, e)
           IN  /\ IoBase(t, n) /\ IoTold(s, t) /\ IoSame(t, s, {"reg", "want"})
               /\ t.open => e \in t.want /\ t.reg
<1>0. IoRecord(s)
  BY IoFacts
<1>1. CASE s.open
  <2> DEFINE t == [s EXCEPT !.reg = TRUE, !.want = @ \cup {e}]
  <2>1. IoSame(t, s, {"reg", "want"}) /\ t.reg = TRUE /\ t.want = s.want \cup {e}
    BY <1>0 DEF IoSame, IoRecord, IoFields
  <2>2. Stream!AddIoState(s, e) = t
    BY <1>1 DEF Stream!AddIoState
  <2> HIDE DEF t
  <2>3. /\ IoRecord(t) /\ t.open = s.open /\ t.closeCb = s.closeCb
        /\ t.touched = s.touched /\ t.eofOutside = s.eofOutside /\ t.read = s.read
        /\ t.num = s.num /\ t.goal = s.goal /\ t.wbuf = s.wbuf
        /\ t.got = s.got /\ t.used = s.used /\ t.pending = s.pending /\ t.queue = s.queue
    BY <2>1 DEF IoSame, IoFields
  <2>4. IoBase(t, n)
    <3>1. t.open \in BOOLEAN /\ t.reg \in BOOLEAN /\ t.want \subseteq {"R", "W"}
      BY <2>1, <2>3 DEF IoBase, IoTypes
    <3>2. Registered(t)
      BY <1>1, <2>1, <2>3 DEF Registered
    <3>3. IoSame(t, s, {"open", "reg", "want"})
      BY <2>1 DEF IoSame
    <3> QED
      BY <3>1, <3>2, <3>3, SocketFields
  <2>5. IoTold(s, t)
    BY <1>1, <2>1, <2>3, LaterReflexive DEF IoTold, IoLater
  <2> QED
    BY <2>1, <2>2, <2>4, <2>5
<1>2. CASE ~s.open
  <2>1. Stream!AddIoState(s, e) = s
    BY <1>2 DEF Stream!AddIoState
  <2> QED
    BY <1>0, <1>2, <2>1, LaterReflexive DEF IoSame
<1> QED
  BY <1>1, <1>2

\* A stream that is not registered is, or it has told of its end, or a callback will.
LEMMA ListenerKeeps ==
    ASSUME NEW s, NEW n, IoBase(s, n)
    PROVE  LET t == Stream!MaybeAddErrorListener(s)
           IN  /\ IoBase(t, n) /\ IoTold(s, t) /\ TellsNow(t)
               /\ t.open => t.reg \/ t.pending > 0
<1>0. s.pending \in Nat /\ Registered(s)
  BY IoFacts DEF IoBase
<1>1. CASE ~s.reg /\ s.pending = 0 /\ s.open
  <2>1. Stream!MaybeAddErrorListener(s) = Stream!AddIoState(s, "R")
    BY <1>1 DEF Stream!MaybeAddErrorListener
  <2>2. LET t == Stream!AddIoState(s, "R")
        IN  IoBase(t, n) /\ IoTold(s, t) /\ (t.open => t.reg) /\ t.open = s.open
    BY AddStateKeeps DEF IoSame, IoFields
  <2> QED
    BY <1>1, <2>1, <2>2 DEF TellsNow
<1>2. CASE ~s.reg /\ s.pending = 0 /\ ~s.open
  <2>1. Stream!MaybeAddErrorListener(s) = Stream!MaybeRunCloseCallback(s)
    BY <1>2 DEF Stream!MaybeAddErrorListener
  <2>2. LET t == Stream!MaybeRunCloseCallback(s)
        IN  IoBase(t, n) /\ IoTold(s, t) /\ TellsNow(t) /\ t.open = s.open
    BY MaybeRunKeeps DEF IoSame, IoFields
  <2> QED
    BY <1>2, <2>1, <2>2
<1>3. CASE ~(~s.reg /\ s.pending = 0)
  <2>1. Stream!MaybeAddErrorListener(s) = s
    BY <1>3 DEF Stream!MaybeAddErrorListener
  <2> QED
    BY <1>0, <1>3, <2>1, LaterReflexive DEF TellsNow, Registered
<1> QED
  BY <1>1, <1>2, <1>3

-----------------------------------------------------------------------------
(* Reading.                                                                *)

LEMMA LeastOfTwo ==
    ASSUME NEW a \in Int, NEW b \in Int
    PROVE  LET m == Stream!Min({a, b})
           IN  m \in Int /\ m \in {a, b} /\ m <= a /\ m <= b
<1>1. \E m \in {a, b} : \A x \in {a, b} : m <= x
  <2>1. CASE a <= b
    BY <2>1
  <2>2. CASE ~(a <= b)
    BY <2>2
  <2> QED
    BY <2>1, <2>2
<1>2. Stream!Min({a, b}) \in {a, b} /\ \A x \in {a, b} : Stream!Min({a, b}) <= x
  BY <1>1 DEF Stream!Min
<1> QED
  BY <1>2

\* What the socket has and the buffer takes.
LEMMA CanReadFits ==
    ASSUME NEW s, NEW n, IoBase(s, n)
    PROVE  /\ Stream!CanRead(s) \in Nat
           /\ s.got + Stream!CanRead(s) <= arrived
           /\ s.got + Stream!CanRead(s) - s.used <= MaxBuffer
<1>1. /\ s.got \in Nat /\ s.used \in Nat /\ arrived \in Nat /\ MaxBuffer \in Nat
      /\ s.got <= arrived /\ s.got - s.used <= MaxBuffer
  BY SizesAssumption DEF IoBase, BufferRight
<1> DEFINE a == arrived - s.got
           b == MaxBuffer - Stream!Buffered(s)
<1>2. a \in Nat /\ b \in Nat /\ b = MaxBuffer - (s.got - s.used)
  BY <1>1 DEF Stream!Buffered
<1>3. CASE s.accepting
  <2>1. Stream!CanRead(s) = 0
    BY <1>3 DEF Stream!CanRead
  <2> QED
    BY <1>1, <2>1
<1>4. CASE ~s.accepting
  <2>1. Stream!CanRead(s) = Stream!Min({a, b})
    BY <1>4 DEF Stream!CanRead
  <2>2. /\ Stream!Min({a, b}) \in {a, b}
        /\ Stream!Min({a, b}) <= a /\ Stream!Min({a, b}) <= b
    <3>1. a \in Int /\ b \in Int
      BY <1>2
    <3> HIDE DEF a, b
    <3> QED
      BY <3>1, LeastOfTwo
  <2>3. Stream!Min({a, b}) \in Nat
    BY <1>2, <2>2
  <2> QED
    BY <1>1, <1>2, <2>1, <2>2, <2>3
<1> QED
  BY <1>3, <1>4

\* A streaming callback gets what is there, or what it may have of it.
LEMMA ChunkKeeps ==
    ASSUME NEW s, NEW n, IoBase(s, n)
    PROVE  LET t == Stream!StreamChunk(s)
           IN  /\ IoBase(t, n) /\ IoTold(s, t)
               /\ IoSame(t, s, {"num", "used", "pending", "queue"})
<1>0. IoRecord(s)
  BY IoFacts
<1>1. CASE s.streaming /\ Stream!Buffered(s) > 0
  <2> DEFINE m == Stream!StreamSize(s)
             x == [s EXCEPT !.num = IF s.read = "bytes" THEN @ - m ELSE @]
  <2>1. Stream!StreamChunk(s) = Stream!Deliver(x, "stream", m)
    BY <1>1 DEF Stream!StreamChunk
  <2>2. IoSame(x, s, {"num"}) /\ x.num = IF s.read = "bytes" THEN s.num - m ELSE s.num
    BY <1>0 DEF IoSame, IoRecord, IoFields
  <2> HIDE DEF x
  <2>3. x.read = s.read /\ x.goal = s.goal /\ x.got = s.got /\ x.used = s.used
    BY <2>2 DEF IoSame, IoFields
  <2>4. /\ s.got \in Nat /\ s.used \in Nat /\ s.num \in Nat /\ s.goal \in Nat
        /\ s.read = "bytes" => s.goal = s.used + s.num
        /\ s.read \in {"until", "close"} => s.goal = 0
    BY DEF IoBase, IoTypes, BufferRight, GoalAhead
  <2>5. s.got - s.used > 0 /\ s.got - s.used \in Int
    BY <1>1, <2>4 DEF Stream!Buffered
  <2>6. m \in Nat /\ m <= s.got - s.used /\ (s.read = "bytes" => m <= s.num)
    <3>1. CASE s.read = "bytes"
      <4> DEFINE k == s.got - s.used
      <4>1. m = Stream!Min({s.num, k})
        BY <3>1 DEF Stream!StreamSize, Stream!Buffered
      <4>2. s.num \in Int /\ s.num >= 0 /\ k \in Int /\ k > 0
        BY <2>4, <2>5
      <4> HIDE DEF m, k
      <4>3. m \in Int /\ m \in {s.num, k} /\ m <= s.num /\ m <= k
        BY <4>1, <4>2, LeastOfTwo
      <4> QED
        BY <4>2, <4>3 DEF k
    <3>2. CASE s.read # "bytes"
      <4>1. m = s.got - s.used
        BY <3>2 DEF Stream!StreamSize, Stream!Buffered
      <4> HIDE DEF m
      <4> QED
        BY <2>5, <3>2, <4>1
    <3> QED
      BY <3>1, <3>2
  <2> HIDE DEF m
  <2>7. x.num \in Nat /\ (x.read = "bytes" => x.goal = x.used + m + x.num)
    <3>1. CASE s.read = "bytes"
      BY <2>2, <2>3, <2>4, <2>6, <3>1
    <3>2. CASE s.read # "bytes"
      BY <2>2, <2>3, <2>4, <3>2
    <3> QED
      BY <3>1, <3>2
  <2>8. IoSame(x, s, {"read", "num", "streaming", "goal"})
    BY <2>2 DEF IoSame
  <2>9. x.goal \in Nat /\ m <= x.got - x.used /\ (x.read \in {"until", "close"} => x.goal = 0)
    BY <2>3, <2>4, <2>6
  <2>10. LET t == Stream!Deliver(x, "stream", m)
         IN  /\ IoBase(t, n) /\ IoTold(s, t) /\ IoSame(t, x, {"used", "pending", "queue"})
    BY <2>3, <2>6, <2>7, <2>8, <2>9, DeliveryKeeps
  <2>11. IoSame(Stream!Deliver(x, "stream", m), s, {"num", "used", "pending", "queue"})
    BY <2>2, <2>10 DEF IoSame
  <2> QED
    BY <2>1, <2>10, <2>11
<1>2. CASE ~(s.streaming /\ Stream!Buffered(s) > 0)
  <2>1. Stream!StreamChunk(s) = s
    BY <1>2 DEF Stream!StreamChunk
  <2> QED
    BY <1>0, <2>1, LaterReflexive DEF IoSame
<1> QED
  BY <1>1, <1>2

\* The size of a read that is ready is in the buffer, and leads to where it is to end.
LEMMA ReadSizeFits ==
    ASSUME NEW s, NEW n, IoBase(s, n), Stream!ReadReady(s)
    PROVE  LET m == Stream!ReadSize(s)
           IN  m \in Nat /\ m <= s.got - s.used /\ (s.goal > 0 => s.goal = s.used + m)
<1>1. /\ s.got \in Nat /\ s.used \in Nat /\ s.num \in Nat /\ s.goal \in Nat
      /\ s.read = "bytes" => s.goal = s.used + s.num
      /\ s.read \in {"until", "close"} => s.goal = 0
  BY DEF IoBase, IoTypes, BufferRight, GoalAhead
<1>2. CASE s.read = "bytes"
  <2>1. Stream!ReadSize(s) = s.num /\ s.num <= s.got - s.used
    BY <1>2 DEF Stream!ReadReady, Stream!ReadSize, Stream!Buffered
  <2> QED
    BY <1>1, <1>2, <2>1
<1>3. CASE s.read # "bytes"
  <2>1. s.read = "until" /\ Stream!Matches(s) # {}
    BY <1>3 DEF Stream!ReadReady
  <2>2. Stream!Matches(s) \in SUBSET Nat /\ \A i \in Stream!Matches(s) : s.used < i /\ i <= s.got
    BY <1>1 DEF Stream!Matches
  <2>3. \E i \in Stream!Matches(s) : \A j \in Stream!Matches(s) : i <= j
    BY <2>1, <2>2, LowestExists
  <2>4. Stream!Min(Stream!Matches(s)) \in Stream!Matches(s)
    BY <2>3 DEF Stream!Min
  <2>5. Stream!ReadSize(s) = Stream!Min(Stream!Matches(s)) - s.used
    BY <1>3 DEF Stream!ReadSize
  <2>6. s.goal = 0
    BY <1>1, <2>1
  <2> QED
    BY <1>1, <2>2, <2>4, <2>5, <2>6
<1> QED
  BY <1>2, <1>3

BufferFields == {"read", "streaming", "num", "used", "pending", "queue"}
LEMMA FromBufferKeeps ==
    ASSUME NEW s, NEW n, IoBase(s, n)
    PROVE  LET t == Stream!ReadFromBuffer(s)
           IN  /\ IoBase(t, n) /\ IoTold(s, t) /\ IoSame(t, s, BufferFields)
               /\ s.read # "none" /\ t.read = "none" => t.pending > 0
<1> DEFINE c == Stream!StreamChunk(s)
<1>1. /\ IoBase(c, n) /\ IoTold(s, c) /\ IoSame(c, s, {"num", "used", "pending", "queue"})
  BY ChunkKeeps
<1>2. Stream!ReadFromBuffer(s) =
        IF Stream!ReadReady(c)
        THEN Stream!Deliver([c EXCEPT !.read = "none", !.streaming = FALSE], "read",
                            Stream!ReadSize(c))
        ELSE c
  BY DEF Stream!ReadFromBuffer
<1> HIDE DEF c
<1>3. CASE Stream!ReadReady(c)
  <2> DEFINE y == [c EXCEPT !.read = "none", !.streaming = FALSE]
             m == Stream!ReadSize(c)
             t == Stream!Deliver(y, "read", m)
  <2>1. IoSame(y, c, {"read", "streaming"}) /\ y.read = "none"
    BY <1>1, IoFacts DEF IoSame, IoRecord, IoFields
  <2> HIDE DEF y
  <2>2. y.num = c.num /\ y.goal = c.goal /\ y.got = c.got /\ y.used = c.used
    BY <2>1 DEF IoSame, IoFields
  <2>3. m \in Nat /\ m <= y.got - y.used /\ (y.goal > 0 => y.goal = y.used + m)
    BY <1>1, <1>3, <2>2, ReadSizeFits
  <2>4. y.num \in Nat /\ y.goal \in Nat
    BY <1>1, <2>2 DEF IoBase, IoTypes
  <2>5. IoSame(y, c, {"read", "num", "streaming", "goal"})
    BY <2>1 DEF IoSame
  <2> HIDE DEF m
  <2>6. /\ IoBase(t, n) /\ IoTold(c, t) /\ t.pending > 0
        /\ IoSame(t, y, {"used", "pending", "queue"})
    BY <1>1, <2>1, <2>3, <2>4, <2>5, DeliveryKeeps
  <2>7. Stream!ReadFromBuffer(s) = t
    BY <1>2, <1>3 DEF y, m
  <2> HIDE DEF t
  <2>8. IoSame(t, s, BufferFields)
    BY <1>1, <2>1, <2>6 DEF IoSame, BufferFields
  <2>9. IoTold(s, t)
    BY <1>1, <2>6, LaterTransitive
  <2> QED
    BY <2>6, <2>7, <2>8, <2>9
<1>4. CASE ~Stream!ReadReady(c)
  <2>1. Stream!ReadFromBuffer(s) = c
    BY <1>2, <1>4
  <2>2. c.read = s.read
    BY <1>1 DEF IoSame, IoFields
  <2> QED
    BY <1>1, <2>1, <2>2 DEF IoSame, BufferFields
<1> QED
  BY <1>3, <1>4

\* The fields of a stream whose last read is finished.
LEMMA LastReadFields ==
    ASSUME NEW x, IoRecord(x)
    PROVE  LET y == Stream!FinishReadUntilClose(x)
               k == x.got - x.used
           IN  /\ IoSame(y, x, {"read", "used", "pending", "queue"})
               /\ x.read # "close" => y = x
               /\ x.read = "close" =>
                     /\ y.read = "none" /\ y.used = x.used + k /\ y.pending = x.pending + 1
                     /\ y.queue = Append(x.queue, Stream!Callback("read", x.used + 1, x.used + k,
                                                                  x.goal))
<1>1. CASE x.read # "close"
  BY <1>1 DEF Stream!FinishReadUntilClose, IoSame
<1>2. CASE x.read = "close"
  <2> DEFINE k == x.got - x.used
             cb == Stream!Callback("read", x.used + 1, x.used + k, x.goal)
             w == [x EXCEPT !.read = "none"]
             v == [w EXCEPT !.used = @ + k]
             y == [v EXCEPT !.pending = @ + 1, !.queue = Append(@, cb)]
  <2>1. IoSame(w, x, {"read"}) /\ w.read = "none"
    BY DEF IoSame, IoRecord, IoFields
  <2>2. w.used = x.used /\ w.goal = x.goal /\ w.pending = x.pending /\ w.queue = x.queue
    BY <2>1 DEF IoSame, IoFields
  <2>3. Stream!FinishReadUntilClose(x) = y
    <3> HIDE DEF w
    <3> QED
      BY <1>2, <2>2 DEF Stream!FinishReadUntilClose, Stream!Deliver, Stream!Schedule,
         Stream!Buffered, w
  <2> HIDE DEF w, k, cb
  <2>4. IoSame(v, w, {"used"}) /\ v.used = w.used + k
    BY <2>1 DEF IoSame, IoRecord, IoFields
  <2> HIDE DEF v
  <2>5. v.pending = x.pending /\ v.queue = x.queue
    BY <2>2, <2>4 DEF IoSame, IoFields
  <2>6. IoSame(y, v, {"pending", "queue"}) /\ y.pending = v.pending + 1 /\ y.queue = Append(v.queue, cb)
    BY <2>4 DEF IoSame, IoRecord, IoFields
  <2> HIDE DEF y
  <2>7. IoSame(y, x, {"read", "used", "pending", "queue"}) /\ y.read = "none" /\ y.used = x.used + k
    BY <2>1, <2>2, <2>4, <2>6 DEF IoSame, IoFields
  <2> QED
    BY <1>2, <2>3, <2>5, <2>6, <2>7 DEF k, cb
<1> QED
  BY <1>1, <1>2

\* The pending callback that the read loop holds up only keeps the close callback back.
LEMMA ReadLoopClosing ==
    ASSUME NEW s, NEW n, IoBase(s, n), NEW g
    PROVE  LET h == [s EXCEPT !.got = g]
               held == [s EXCEPT !.pending = @ + 1, !.got = g]
               left == Stream!CloseStream(held)
               freed == [left EXCEPT !.pending = @ - 1]
           IN  freed = IF s.open THEN Stream!CloseSocket(Stream!FinishReadUntilClose(h)) ELSE h
<1> DEFINE h == [s EXCEPT !.got = g]
           held == [s EXCEPT !.pending = @ + 1, !.got = g]
           fh == Stream!FinishReadUntilClose(h)
           fheld == Stream!FinishReadUntilClose(held)
           shut == [fheld EXCEPT !.open = FALSE, !.reg = FALSE, !.want = {}]
           w == [fh EXCEPT !.open = FALSE, !.reg = FALSE, !.want = {}]
<1>0. IoRecord(s) /\ s.pending \in Nat
  BY IoFacts
<1>1. IoSame(h, s, {"got"}) /\ h.got = g
  BY <1>0 DEF IoSame, IoRecord, IoFields
<1>2. IoSame(held, s, {"got", "pending"}) /\ held.got = g /\ held.pending = s.pending + 1
  BY <1>0 DEF IoSame, IoRecord, IoFields
<1>3. Stream!CloseStream(held) =
        Stream!MaybeRunCloseCallback(IF held.open THEN shut ELSE held)
  BY DEF Stream!CloseStream, Stream!CloseSocket
<1>4. Stream!CloseSocket(fh) = w
  BY DEF Stream!CloseSocket
<1> HIDE DEF h, held
<1>5. h.pending = s.pending /\ h.read = s.read /\ held.read = s.read /\ held.open = s.open
      /\ held.used = h.used /\ held.goal = h.goal /\ held.queue = h.queue /\ held.got = h.got
  BY <1>1, <1>2 DEF IoSame, IoFields
<1>6. CASE s.open
  <2>1. /\ IoSame(fh, h, {"read", "used", "pending", "queue"})
        /\ IoSame(fheld, held, {"read", "used", "pending", "queue"})
        /\ fh.pending \in Nat /\ fheld.pending = fh.pending + 1
        /\ fh.read = fheld.read /\ fh.used = fheld.used /\ fh.queue = fheld.queue
    <3>1. IoRecord(h) /\ IoRecord(held)
      BY <1>1, <1>2 DEF IoSame
    <3>2. CASE s.read = "close"
      <4> DEFINE cb(x) == Stream!Callback("read", x.used + 1, x.used + (x.got - x.used), x.goal)
      <4>1. /\ IoSame(fh, h, {"read", "used", "pending", "queue"})
            /\ fh.read = "none" /\ fh.used = h.used + (h.got - h.used)
            /\ fh.pending = h.pending + 1 /\ fh.queue = Append(h.queue, cb(h))
        BY <1>5, <3>1, <3>2, LastReadFields
      <4>2. /\ IoSame(fheld, held, {"read", "used", "pending", "queue"})
            /\ fheld.read = "none" /\ fheld.used = held.used + (held.got - held.used)
            /\ fheld.pending = held.pending + 1 /\ fheld.queue = Append(held.queue, cb(held))
        BY <1>5, <3>1, <3>2, LastReadFields
      <4>3. cb(held) = cb(h)
        BY <1>5
      <4> HIDE DEF cb, fh, fheld
      <4> QED
        BY <1>0, <1>2, <1>5, <4>1, <4>2, <4>3
    <3>3. CASE s.read # "close"
      <4>1. fh = h /\ fheld = held
        BY <1>5, <3>1, <3>3, LastReadFields
      <4> QED
        BY <1>0, <1>2, <1>5, <3>1, <4>1 DEF IoSame
    <3> QED
      BY <3>2, <3>3
  <2>2. \A f \in IoFields \ {"pending"} : fheld[f] = fh[f]
    BY <1>1, <1>2, <1>5, <2>1 DEF IoSame, IoFields
  <2> HIDE DEF fh, fheld
  <2>3. /\ IoSame(shut, fheld, {"open", "reg", "want"})
        /\ shut.open = FALSE /\ shut.reg = FALSE /\ shut.want = {}
    BY <2>1 DEF IoSame, IoRecord, IoFields
  <2>4. /\ IoSame(w, fh, {"open", "reg", "want"})
        /\ w.open = FALSE /\ w.reg = FALSE /\ w.want = {}
    BY <2>1 DEF IoSame, IoRecord, IoFields
  <2> HIDE DEF shut, w
  <2>5. shut.pending = fh.pending + 1 /\ w.pending = fh.pending
    BY <2>1, <2>3, <2>4 DEF IoSame, IoFields
  <2>6. Stream!MaybeRunCloseCallback(shut) = shut
    BY <2>1, <2>5 DEF Stream!MaybeRunCloseCallback
  <2> DEFINE freed == [shut EXCEPT !.pending = @ - 1]
  <2>7. IoSame(freed, shut, {"pending"}) /\ freed.pending = shut.pending - 1
    BY <2>3 DEF IoSame, IoRecord, IoFields
  <2> HIDE DEF freed
  <2>8. freed.pending = w.pending
    BY <2>1, <2>5, <2>7
  <2>9. \A f \in IoFields : freed[f] = w[f]
    <3>1. freed.open = w.open /\ freed.reg = w.reg /\ freed.want = w.want
      BY <2>3, <2>4, <2>7 DEF IoSame, IoFields
    <3>2. ASSUME NEW f \in IoFields \ {"open", "reg", "want", "pending"}
          PROVE  freed[f] = w[f]
      <4>1. freed[f] = shut[f] /\ shut[f] = fheld[f] /\ w[f] = fh[f]
        BY <2>3, <2>4, <2>7 DEF IoSame
      <4> QED
        BY <2>2, <4>1
    <3> QED
      BY <2>8, <3>1, <3>2
  <2>10. freed = w
    BY <2>4, <2>7, <2>9 DEF IoSame, IoRecord
  <2> QED
    BY <1>3, <1>4, <1>5, <1>6, <2>6, <2>10 DEF h, held, freed, fh
<1>7. CASE ~s.open
  <2>1. Stream!MaybeRunCloseCallback(held) = held
    BY <1>0, <1>2 DEF Stream!MaybeRunCloseCallback
  <2> DEFINE freed == [held EXCEPT !.pending = @ - 1]
  <2>2. IoSame(freed, held, {"pending"}) /\ freed.pending = held.pending - 1
    BY <1>2 DEF IoSame, IoRecord, IoFields
  <2> HIDE DEF freed
  <2>3. freed.pending = h.pending
    BY <1>0, <1>2, <1>5, <2>2
  <2>4. \A f \in IoFields : freed[f] = h[f]
    BY <1>1, <1>2, <2>2, <2>3 DEF IoSame, IoFields
  <2>5. freed = h
    BY <1>1, <2>2, <2>4 DEF IoSame, IoRecord
  <2> QED
    BY <1>3, <1>5, <1>7, <2>1, <2>5 DEF h, held, freed
<1> QED
  BY <1>6, <1>7

LoopFields == {"open", "reg", "want", "read", "used", "pending", "queue", "got"}
LEMMA ReadLoopKeeps ==
    ASSUME NEW s, NEW n, IoBase(s, n)
    PROVE  LET t == Stream!ReadLoop(s)
               ends == Stream!ReadFails(s) \/ Stream!ReadEof(s)
           IN  /\ IoBase(t, n) /\ IoLater(s, t) /\ IoSame(t, s, LoopFields)
               /\ ends => ~t.open
               /\ ~ends => t.open = s.open /\ t.read = s.read
<1> DEFINE g == IF peer = "reset" THEN s.got ELSE s.got + Stream!CanRead(s)
           h == [s EXCEPT !.got = g]
           held == [s EXCEPT !.pending = @ + 1, !.got = g]
           ends == Stream!ReadFails(s) \/ Stream!ReadEof(s)
           t == Stream!ReadLoop(s)
<1>0. IoRecord(s) /\ s.pending \in Nat
  BY IoFacts
<1>1. IoSame(h, s, {"got"}) /\ h.got = g
  BY <1>0 DEF IoSame, IoRecord, IoFields
<1>2. t = [(IF ends THEN Stream!CloseStream(held) ELSE held) EXCEPT !.pending = @ - 1]
  BY <1>0 DEF Stream!ReadLoop, IoRecord, IoFields
<1>3. /\ g \in Nat /\ g >= s.got /\ g <= arrived /\ g - s.used <= MaxBuffer
      /\ s.used \in Nat /\ s.used <= g /\ arrived \in Nat
  <2>1. /\ s.got \in Nat /\ s.used \in Nat /\ s.used <= s.got /\ arrived \in Nat
        /\ s.got <= arrived /\ s.got - s.used <= MaxBuffer
    BY DEF IoBase, BufferRight
  <2>2. /\ Stream!CanRead(s) \in Nat /\ s.got + Stream!CanRead(s) <= arrived
        /\ s.got + Stream!CanRead(s) - s.used <= MaxBuffer
    BY CanReadFits
  <2>3. MaxBuffer \in Nat
    BY SizesAssumption
  <2>4. CASE peer = "reset"
    BY <2>1, <2>4
  <2>5. CASE peer # "reset"
    <3>1. g = s.got + Stream!CanRead(s)
      BY <2>5
    <3> HIDE DEF g
    <3> QED
      BY <2>1, <2>2, <2>3, <3>1
  <2> QED
    BY <2>4, <2>5
<1>4. /\ IoRecord(h) /\ h.open = s.open /\ h.reg = s.reg /\ h.want = s.want
      /\ h.closeCb = s.closeCb /\ h.touched = s.touched /\ h.eofOutside = s.eofOutside
      /\ h.read = s.read /\ h.num = s.num /\ h.goal = s.goal /\ h.wbuf = s.wbuf
      /\ h.used = s.used /\ h.pending = s.pending /\ h.queue = s.queue
  <2> HIDE DEF h
  <2> QED
    BY <1>1 DEF IoSame, IoFields
<1>5. IoBase(h, n) /\ IoLater(s, h)
  <2> HIDE DEF h, g
  <2>1. IoTypes(h)
    BY <1>4 DEF IoBase, IoTypes
  <2>2. BufferRight(h)
    BY <1>1, <1>3, <1>4 DEF BufferRight
  <2>3. Pending(h) /\ Registered(h) /\ GoalAhead(h)
    BY <1>4 DEF IoBase, Pending, ErrorQueued, Registered, GoalAhead
  <2>4. n \in Nat /\ Follows(h, n)
    BY <1>4 DEF IoBase, Follows
  <2>5. IoLater(s, h)
    BY <1>4, LaterReflexive DEF IoTold, IoLater
  <2> QED
    BY <2>1, <2>2, <2>3, <2>4, <2>5 DEF IoBase
<1>6. CASE ends
  <2>1. t = IF s.open THEN Stream!CloseSocket(Stream!FinishReadUntilClose(h)) ELSE h
    BY <1>2, <1>6, ReadLoopClosing
  <2> HIDE DEF t, h, g, ends, held
  <2>2. CASE s.open
    <3> DEFINE f == Stream!FinishReadUntilClose(h)
    <3>1. IoBase(f, n) /\ IoTold(h, f) /\ IoSame(f, h, {"read", "used", "pending", "queue"})
      BY <1>5, LastReadKeeps
    <3> HIDE DEF f
    <3>2. LET c == Stream!CloseSocket(f)
          IN  IoBase(c, n) /\ IoLater(f, c) /\ ~c.open /\ IoSame(c, f, {"open", "reg", "want"})
      BY <3>1, SocketKeeps
    <3>3. t = Stream!CloseSocket(f)
      BY <2>1, <2>2 DEF f
    <3>4. IoLater(h, t)
      BY <1>5, <3>1, <3>2, <3>3, LaterTransitive DEF IoTold
    <3>5. IoLater(s, t)
      BY <1>5, <3>2, <3>3, <3>4, LaterTransitive
    <3>6. IoSame(t, s, LoopFields)
      BY <1>1, <3>1, <3>2, <3>3 DEF IoSame, LoopFields
    <3> QED
      BY <1>6, <3>2, <3>3, <3>5, <3>6 DEF t, ends
  <2>3. CASE ~s.open
    BY <1>1, <1>4, <1>5, <1>6, <2>1, <2>3 DEF IoSame, LoopFields, t, ends
  <2> QED
    BY <2>2, <2>3 DEF t, ends
<1>7. CASE ~ends
  <2>1. t = [held EXCEPT !.pending = @ - 1]
    BY <1>2, <1>7
  <2>2. IoSame(held, s, {"got", "pending"}) /\ held.got = g /\ held.pending = s.pending + 1
    BY <1>0 DEF IoSame, IoRecord, IoFields
  <2> HIDE DEF held, h, g, ends
  <2> DEFINE freed == [held EXCEPT !.pending = @ - 1]
  <2>3. IoSame(freed, held, {"pending"}) /\ freed.pending = held.pending - 1
    BY <2>2 DEF IoSame, IoRecord, IoFields
  <2>4. t = freed
    BY <2>1
  <2> HIDE DEF freed, t
  <2>5. freed.pending = h.pending
    BY <1>0, <1>4, <2>2, <2>3
  <2>6. \A f \in IoFields : freed[f] = h[f]
    BY <1>1, <2>2, <2>3, <2>5 DEF IoSame, IoFields
  <2>7. t = h
    BY <1>4, <2>3, <2>4, <2>6 DEF IoSame, IoRecord
  <2> QED
    BY <1>1, <1>4, <1>5, <1>7, <2>7 DEF IoSame, LoopFields, t, ends
<1> QED
  BY <1>6, <1>7

LEMMA ReadingKeeps ==
    ASSUME NEW s, NEW n, IoBase(s, n)
    PROVE  LET t == Stream!HandleRead(s)
           IN  IoBase(t, n) /\ IoTold(s, t)
<1> DEFINE l == Stream!ReadLoop(s)
<1>1. IoBase(l, n) /\ IoLater(s, l)
  BY ReadLoopKeeps
<1>2. CASE Stream!ReadFails(s)
  <2>1. Stream!HandleRead(s) = Stream!CloseStream(l)
    BY <1>2 DEF Stream!HandleRead
  <2> HIDE DEF l
  <2> DEFINE t == Stream!CloseStream(l)
  <2>2. IoBase(t, n) /\ IoTold(l, t) /\ TellsNow(t)
    BY <1>1, ClosingKeeps
  <2> HIDE DEF t
  <2>3. IoLater(s, t)
    BY <1>1, <2>2, LaterTransitive DEF IoTold
  <2>4. IoTold(s, t)
    BY <2>2, <2>3 DEF IoTold, TellsNow, Told
  <2> QED
    BY <2>1, <2>2, <2>4 DEF t
<1>3. CASE ~Stream!ReadFails(s)
  <2> DEFINE b == Stream!ReadFromBuffer(l)
             t == Stream!MaybeRunCloseCallback(b)
  <2>1. Stream!HandleRead(s) = t
    BY <1>3 DEF Stream!HandleRead
  <2> HIDE DEF l
  <2>2. IoBase(b, n) /\ IoTold(l, b)
    BY <1>1, FromBufferKeeps
  <2> HIDE DEF b
  <2>3. IoBase(t, n) /\ IoTold(b, t) /\ TellsNow(t)
    BY <2>2, MaybeRunKeeps
  <2> HIDE DEF t
  <2>4. IoLater(s, b)
    BY <1>1, <2>2, LaterTransitive DEF IoTold
  <2>5. IoLater(s, t)
    BY <2>2, <2>3, <2>4, LaterTransitive DEF IoTold
  <2>6. IoTold(s, t)
    BY <2>3, <2>5 DEF IoTold, TellsNow, Told
  <2> QED
    BY <2>1, <2>3, <2>6
<1> QED
  BY <1>2, <1>3

\* A read that is started is served, or the stream listens for it, or the end was told,
\* unless it was started outside of callbacks.
LEMMA InlineReadKeeps ==
    ASSUME NEW s, NEW n, IoBase(s, n), s.read # "none", inCallback \in BOOLEAN
    PROVE  LET r == Stream!TryInlineRead(s)
           IN  /\ IoBase(r, n) /\ IoTold(s, r) /\ ReadsWanted(r)
               /\ r.open => r.reg \/ r.pending > 0
<1> DEFINE t == Stream!ReadFromBuffer(s)
           ends == Stream!ReadFails(t) \/ Stream!ReadEof(t)
           l == Stream!ReadLoop(t)
           u == [l EXCEPT !.eofOutside = ~inCallback /\ ends]
           v == Stream!ReadFromBuffer(u)
<1>1. IoBase(t, n) /\ IoTold(s, t) /\ (t.read = "none" => t.pending > 0)
  BY FromBufferKeeps
<1>2. Stream!TryInlineRead(s) =
        IF t.read = "none" \/ ~t.open THEN t
        ELSE IF Stream!ReadFails(t) THEN u
        ELSE IF v.read = "none" THEN v ELSE Stream!AddIoState(v, "R")
  BY DEF Stream!TryInlineRead
<1> HIDE DEF t
<1>3. CASE t.read = "none" \/ ~t.open
  BY <1>1, <1>2, <1>3 DEF ReadsWanted
<1>4. CASE ~(t.read = "none" \/ ~t.open)
  <2>1. /\ IoBase(l, n) /\ IoLater(t, l)
        /\ ends => ~l.open
        /\ ~ends => l.open = t.open /\ l.read = t.read
    BY <1>1, ReadLoopKeeps
  <2> HIDE DEF l
  <2>2. IoSame(u, l, {"eofOutside"}) /\ u.eofOutside = (~inCallback /\ ends)
    BY <2>1, IoFacts DEF IoSame, IoRecord, IoFields
  <2> HIDE DEF u, ends
  <2>3. /\ u.open = l.open /\ u.read = l.read /\ u.queue = l.queue /\ u.pending = l.pending
        /\ u.want = l.want /\ u.wbuf = l.wbuf /\ u.touched = l.touched /\ u.closeCb = l.closeCb
    BY <2>2 DEF IoSame, IoFields
  <2>4. IoBase(u, n)
    <3>1. IoSame(u, l, {"connecting", "connCb", "streaming", "writeCb", "accepting", "hsRead",
                        "hsWrite", "touched", "eofOutside", "wbuf", "closeCb"})
      BY <2>2 DEF IoSame
    <3>2. u.touched \in BOOLEAN /\ u.closeCb \in BOOLEAN /\ u.wbuf \in Int
      BY <2>1, <2>3 DEF IoBase, IoTypes
    <3>3. u.eofOutside \in BOOLEAN
      BY <2>2
    <3> QED
      BY <2>1, <3>1, <3>2, <3>3, AsideKeeps
  <2>5. IoLater(t, u)
    BY <1>4, <2>1, <2>3 DEF IoLater
  <2>6. IoTold(t, u)
    <3>1. ASSUME ~u.open, u.closeCb
          PROVE  inCallback \/ u.eofOutside
      <4>1. ends
        BY <1>4, <2>1, <2>3, <3>1
      <4> QED
        BY <2>2, <4>1
    <3> QED
      BY <2>5, <3>1 DEF IoTold, Told
  <2>7. IoTold(s, u)
    BY <1>1, <2>4, <2>6, LaterTransitive
  <2>8. CASE Stream!ReadFails(t)
    <3>1. ~u.open
      BY <2>1, <2>3, <2>8 DEF ends
    <3> QED
      BY <1>2, <1>4, <2>4, <2>7, <2>8, <3>1 DEF ReadsWanted
  <2>9. CASE ~Stream!ReadFails(t)
    <3>1. /\ IoBase(v, n) /\ IoTold(u, v) /\ (u.read # "none" /\ v.read = "none" => v.pending > 0)
      BY <2>4, FromBufferKeeps
    <3> HIDE DEF v
    <3>2. IoTold(s, v)
      BY <2>4, <2>7, <3>1, LaterTransitive
    <3>3. v.open => u.open /\ u.read # "none"
      BY <1>4, <2>1, <2>3, <3>1 DEF IoTold, IoLater
    <3>4. CASE v.read = "none"
      BY <1>2, <1>4, <2>9, <3>1, <3>2, <3>3, <3>4 DEF ReadsWanted
    <3>5. CASE v.read # "none"
      <4> DEFINE w == Stream!AddIoState(v, "R")
      <4>1. IoBase(w, n) /\ IoTold(v, w) /\ (w.open => "R" \in w.want /\ w.reg)
        BY <3>1, AddStateKeeps
      <4>2. Stream!TryInlineRead(s) = w
        BY <1>2, <1>4, <2>9, <3>5
      <4> HIDE DEF w
      <4>3. IoTold(s, w)
        BY <3>1, <3>2, <4>1, LaterTransitive
      <4> QED
        BY <4>1, <4>2, <4>3 DEF ReadsWanted
    <3> QED
      BY <3>4, <3>5
  <2> QED
    BY <2>8, <2>9
<1> QED
  BY <1>3, <1>4

-----------------------------------------------------------------------------
(* Writing, connecting and the SSL handshake.                              *)

\* A change of the fields that none of this looks at, but for the write buffer.
LEMMA AsideTold ==
    ASSUME NEW s, NEW t, NEW n, IoBase(s, n), t.wbuf \in Int, t.wbuf <= s.wbuf,
           IoSame(t, s, {"connecting", "connCb", "streaming", "writeCb", "accepting", "hsRead",
                         "hsWrite", "wbuf"})
    PROVE  IoBase(t, n) /\ IoTold(s, t)
<1>1. /\ t.open = s.open /\ t.want = s.want /\ t.read = s.read /\ t.queue = s.queue
      /\ t.pending = s.pending /\ t.touched = s.touched /\ t.closeCb = s.closeCb
      /\ t.eofOutside = s.eofOutside
  BY DEF IoSame, IoFields
<1>2. IoSame(t, s, {"connecting", "connCb", "streaming", "writeCb", "accepting", "hsRead",
                    "hsWrite", "touched", "eofOutside", "wbuf", "closeCb"})
  BY DEF IoSame
<1>3. t.touched \in BOOLEAN /\ t.closeCb \in BOOLEAN /\ t.eofOutside \in BOOLEAN
  BY <1>1 DEF IoBase, IoTypes
<1>4. IoBase(t, n)
  BY <1>2, <1>3, AsideKeeps
<1>5. IoTold(s, t)
  BY <1>1, LaterReflexive DEF IoTold, IoLater
<1> QED
  BY <1>4, <1>5

LEMMA WritingKeeps ==
    ASSUME NEW s, NEW n, IoBase(s, n), NEW reply \in Nat \cup {-1}
    PROVE  LET t == Stream!WriteBuffer(s, reply)
           IN  IoBase(t, n) /\ IoTold(s, t)
<1>1. CASE reply = -1
  <2>1. Stream!WriteBuffer(s, reply) = Stream!CloseStream(s)
    BY <1>1 DEF Stream!WriteBuffer
  <2> QED
    BY <2>1, ClosingKeeps
<1>2. CASE reply # -1
  <2> DEFINE t == [s EXCEPT !.wbuf = @ - reply]
             w == [t EXCEPT !.writeCb = FALSE]
             q == Stream!Schedule(w, Stream!Note("write"))
  <2>1. Stream!WriteBuffer(s, reply) = IF t.wbuf = 0 /\ t.writeCb THEN q ELSE t
    BY <1>2 DEF Stream!WriteBuffer
  <2>2. IoSame(t, s, {"wbuf"}) /\ t.wbuf = s.wbuf - reply
    BY IoFacts DEF IoSame, IoRecord, IoFields
  <2> HIDE DEF t
  <2>3. t.wbuf \in Int /\ t.wbuf <= s.wbuf
    BY <1>2, <2>2, IoFacts
  <2>4. IoBase(t, n) /\ IoTold(s, t)
    BY <2>2, <2>3, AsideTold DEF IoSame
  <2>5. IoSame(w, t, {"writeCb"})
    BY <2>2 DEF IoSame, IoRecord, IoFields
  <2> HIDE DEF w
  <2>6. w.wbuf = t.wbuf
    BY <2>5 DEF IoSame, IoFields
  <2>7. IoBase(w, n) /\ IoTold(t, w)
    BY <2>3, <2>4, <2>5, <2>6, AsideTold DEF IoSame
  <2>8. IoBase(q, n) /\ IoTold(w, q)
    BY <2>7, ScheduleKeeps
  <2> HIDE DEF q
  <2>9. IoTold(s, w)
    BY <2>4, <2>7, LaterTransitive
  <2>10. IoTold(s, q)
    BY <2>7, <2>8, <2>9, LaterTransitive
  <2> QED
    BY <2>1, <2>4, <2>8, <2>10
<1> QED
  BY <1>1, <1>2

LEMMA ConnectedKeeps ==
    ASSUME NEW s, NEW n, IoBase(s, n), NEW ok \in BOOLEAN
    PROVE  LET t == Stream!ConnectDone(s, ok)
           IN  IoBase(t, n) /\ IoTold(s, t)
<1>1. CASE ~ok
  <2>1. Stream!ConnectDone(s, ok) = Stream!CloseStream(s)
    BY <1>1 DEF Stream!ConnectDone
  <2> QED
    BY <2>1, ClosingKeeps
<1>2. CASE ok
  <2> DEFINE t == [s EXCEPT !.connecting = FALSE, !.connCb = FALSE]
             q == Stream!Schedule(t, Stream!Note("connect"))
  <2>1. Stream!ConnectDone(s, ok) = IF s.connCb THEN q ELSE t
    BY <1>2 DEF Stream!ConnectDone
  <2>2. IoSame(t, s, {"connecting", "connCb"})
    BY IoFacts DEF IoSame, IoRecord, IoFields
  <2> HIDE DEF t
  <2>3. t.wbuf = s.wbuf /\ s.wbuf \in Int
    BY <2>2, IoFacts DEF IoSame, IoFields
  <2>4. IoBase(t, n) /\ IoTold(s, t)
    BY <2>2, <2>3, AsideTold DEF IoSame
  <2>5. IoBase(q, n) /\ IoTold(t, q)
    BY <2>4, ScheduleKeeps
  <2> HIDE DEF q
  <2>6. IoTold(s, q)
    BY <2>4, <2>5, LaterTransitive
  <2> QED
    BY <2>1, <2>4, <2>5, <2>6
<1> QED
  BY <1>1, <1>2

LEMMA HandshakeKeeps ==
    ASSUME NEW s, NEW n, IoBase(s, n), NEW reply \in Stream!HandshakeOutcomes
    PROVE  LET t == Stream!Handshake(s, reply)
           IN  IoBase(t, n) /\ IoTold(s, t)
<1> DEFINE t == [s EXCEPT !.hsRead = reply = "read", !.hsWrite = reply = "write"]
           d == [t EXCEPT !.accepting = FALSE]
<1>1. Stream!Handshake(s, reply) =
        IF reply = "fail" THEN Stream!CloseStream(t)
        ELSE IF reply = "done" THEN Stream!ConnectDone(d, TRUE) ELSE t
  BY DEF Stream!Handshake, Stream!HandshakeOutcomes
<1>0. IoRecord(s)
  BY IoFacts
<1>2. IoSame(t, s, {"hsRead", "hsWrite"})
  BY <1>0 DEF IoSame, IoRecord, IoFields
<1> HIDE DEF t
<1>3. IoSame(d, t, {"accepting"})
  BY <1>2 DEF IoSame, IoRecord, IoFields
<1> HIDE DEF d
<1>4. t.wbuf = s.wbuf /\ d.wbuf = s.wbuf /\ s.wbuf \in Int
  BY <1>2, <1>3, IoFacts DEF IoSame, IoFields
<1>5. IoBase(t, n) /\ IoTold(s, t)
  BY <1>2, <1>4, AsideTold DEF IoSame
<1>6. IoBase(d, n) /\ IoTold(t, d)
  BY <1>3, <1>4, <1>5, AsideTold DEF IoSame
<1>7. IoTold(s, d)
  BY <1>5, <1>6, LaterTransitive
<1>8. LET c == Stream!CloseStream(t) IN IoBase(c, n) /\ IoTold(s, c)
  <2>1. LET c == Stream!CloseStream(t) IN IoBase(c, n) /\ IoTold(t, c)
    BY <1>5, ClosingKeeps
  <2> QED
    BY <1>5, <2>1, LaterTransitive
<1>9. LET c == Stream!ConnectDone(d, TRUE) IN IoBase(c, n) /\ IoTold(s, c)
  <2>1. LET c == Stream!ConnectDone(d, TRUE) IN IoBase(c, n) /\ IoTold(d, c)
    BY <1>6, ConnectedKeeps
  <2> QED
    BY <1>6, <1>7, <2>1, LaterTransitive
<1> QED
  BY <1>1, <1>5, <1>8, <1>9

LEMMA WritableKeeps ==
    ASSUME NEW s, NEW n, IoBase(s, n), NEW reply \in Nat \cup {-1},
           NEW shake \in Stream!HandshakeOutcomes
    PROVE  LET t == Stream!HandleWrite(s, reply, shake)
           IN  IoBase(t, n) /\ IoTold(s, t)
BY WritingKeeps, HandshakeKeeps DEF Stream!HandleWrite

\* Data that is left to write is listened for.
LEMMA WriteCallKeeps ==
    ASSUME NEW s, NEW n, IoBase(s, n), NEW reply \in Nat \cup {-1},
           NEW shake \in Stream!HandshakeOutcomes, NEW withCallback \in BOOLEAN
    PROVE  LET r == Stream!WriteStream(s, reply, shake, withCallback)
           IN  /\ IoBase(r, n) /\ IoTold(s, r) /\ WritesWanted(r)
               /\ r.open => r.reg \/ r.pending > 0
<1> DEFINE w == [s EXCEPT !.writeCb = withCallback]
           t == Stream!HandleWrite(w, reply, shake)
           a == IF t.wbuf > 0 THEN Stream!AddIoState(t, "W") ELSE t
           r == Stream!MaybeAddErrorListener(a)
<1>1. Stream!WriteStream(s, reply, shake, withCallback) = r
  BY DEF Stream!WriteStream
<1>2. IoSame(w, s, {"writeCb"})
  BY IoFacts DEF IoSame, IoRecord, IoFields
<1> HIDE DEF w
<1>3. w.wbuf = s.wbuf /\ s.wbuf \in Int
  BY <1>2, IoFacts DEF IoSame, IoFields
<1>4. IoBase(w, n) /\ IoTold(s, w)
  BY <1>2, <1>3, AsideTold DEF IoSame
<1>5. IoBase(t, n) /\ IoTold(w, t)
  BY <1>4, WritableKeeps
<1> HIDE DEF t
<1>6. IoBase(a, n) /\ IoTold(t, a) /\ WritesWanted(a)
  <2>1. CASE t.wbuf > 0
    <3>1. LET x == Stream!AddIoState(t, "W")
          IN  IoBase(x, n) /\ IoTold(t, x) /\ (x.open => "W" \in x.want)
      BY <1>5, AddStateKeeps
    <3> QED
      BY <2>1, <3>1 DEF WritesWanted
  <2>2. CASE ~(t.wbuf > 0)
    BY <1>5, <2>2, LaterReflexive DEF WritesWanted
  <2> QED
    BY <2>1, <2>2
<1> HIDE DEF a
<1>7. IoBase(r, n) /\ IoTold(a, r) /\ (r.open => r.reg \/ r.pending > 0)
  BY <1>6, ListenerKeeps
<1> HIDE DEF r
<1>8. WritesWanted(r)
  BY <1>6, <1>7, LaterRight
<1>9. IoTold(s, r)
  <2>1. IoTold(s, t)
    BY <1>4, <1>5, LaterTransitive
  <2>2. IoTold(s, a)
    BY <1>5, <1>6, <2>1, LaterTransitive
  <2> QED
    BY <1>6, <1>7, <2>2, LaterTransitive
<1> QED
  BY <1>1, <1>7, <1>8, <1>9

-----------------------------------------------------------------------------
(* The handler of the descriptor.                                          *)

LEMMA ReadableKeeps ==
    ASSUME NEW s, NEW n, IoBase(s, n), NEW shake \in Stream!HandshakeOutcomes
    PROVE  LET t == Stream!OnReadable(s, shake)
           IN  IoBase(t, n) /\ IoTold(s, t)
BY ReadingKeeps, HandshakeKeeps DEF Stream!OnReadable

LEMMA OnWritableKeeps ==
    ASSUME NEW s, NEW n, IoBase(s, n), NEW ok \in BOOLEAN, NEW reply \in Nat \cup {-1},
           NEW shake \in Stream!HandshakeOutcomes
    PROVE  LET r == Stream!OnWritable(s, ok, reply, shake)
           IN  IoBase(r, n) /\ IoTold(s, r)
<1> DEFINE t == IF s.connecting THEN Stream!ConnectDone(s, ok) ELSE s
           r == IF t.open THEN Stream!HandleWrite(t, reply, shake) ELSE Stream!CloseStream(t)
<1>1. Stream!OnWritable(s, ok, reply, shake) = r
  BY DEF Stream!OnWritable
<1>2. IoBase(t, n) /\ IoTold(s, t)
  BY ConnectedKeeps, LaterReflexive
<1> HIDE DEF t
<1>3. IoBase(r, n) /\ IoTold(t, r)
  BY <1>2, WritableKeeps, ClosingKeeps
<1> HIDE DEF r
<1>4. IoTold(s, r)
  BY <1>2, <1>3, LaterTransitive
<1> QED
  BY <1>1, <1>3, <1>4

\* An error that is left to a callback is the only one.
OneError(s) ==
    \A i, j \in DOMAIN s.queue :
        IsError(s.queue[i]) /\ IsError(s.queue[j]) => i = j /\ i <= Len(s.queue)

LEMMA ErrorKeeps ==
    ASSUME NEW s, NEW n, IoBase(s, n), ~ErrorQueued(s)
    PROVE  LET t == [s EXCEPT !.queue = Append(@, Stream!Note("error"))]
           IN  /\ IoBase(t, n) /\ IoSame(t, s, {"queue"})
               /\ Len(t.queue) \in Nat
               /\ OneError(t)
<1> DEFINE cb == Stream!Note("error")
           t == [s EXCEPT !.queue = Append(@, cb)]
<1>0. cb \in IoCallback /\ ~IsPiece(cb) /\ IsError(cb)
  BY NoteType
<1> HIDE DEF cb
<1>1. IoRecord(s) /\ s.queue \in Seq(IoCallback) /\ Len(s.queue) \in Nat
      /\ DOMAIN s.queue = 1 .. Len(s.queue) /\ s.pending \in Nat
  BY IoFacts
<1>2. IoSame(t, s, {"queue"}) /\ t.queue = Append(s.queue, cb)
  BY <1>1 DEF IoSame, IoRecord, IoFields
<1> HIDE DEF t
<1>3. /\ IoRecord(t) /\ t.open = s.open /\ t.reg = s.reg /\ t.closeCb = s.closeCb
      /\ t.touched = s.touched /\ t.eofOutside = s.eofOutside /\ t.read = s.read
      /\ t.want = s.want /\ t.num = s.num /\ t.goal = s.goal /\ t.wbuf = s.wbuf
      /\ t.got = s.got /\ t.used = s.used /\ t.pending = s.pending
  BY <1>2 DEF IoSame, IoFields
<1>4. /\ t.queue \in Seq(IoCallback) /\ Len(t.queue) = Len(s.queue) + 1
      /\ \A i \in 1 .. Len(s.queue) : t.queue[i] = s.queue[i]
      /\ t.queue[Len(s.queue) + 1] = cb
  BY <1>0, <1>1, <1>2
<1>5. DOMAIN t.queue = 1 .. Len(s.queue) + 1
  BY <1>1, <1>4
<1>6. \A i \in DOMAIN t.queue : i \in DOMAIN s.queue \/ i = Len(s.queue) + 1
  BY <1>1, <1>5
<1>7. \A i \in DOMAIN s.queue : i \in DOMAIN t.queue /\ t.queue[i] = s.queue[i] /\ ~IsError(s.queue[i])
  BY <1>1, <1>4, <1>5 DEF ErrorQueued
<1>8. \A i \in DOMAIN t.queue : IsError(t.queue[i]) => i = Len(s.queue) + 1
  BY <1>6, <1>7
<1>9. Len(s.queue) + 1 \in DOMAIN t.queue
  BY <1>1, <1>5
<1>10. Pending(t)
  <2>1. s.pending = Len(s.queue)
    BY <1>1 DEF IoBase, Pending
  <2>2. ErrorQueued(t)
    BY <1>0, <1>4, <1>9 DEF ErrorQueued
  <2>3. t.pending = Len(t.queue) - 1
    BY <1>1, <1>3, <1>4, <2>1
  <2> QED
    BY <2>2, <2>3 DEF Pending
<1>11. IoTypes(t)
  <2>1. \A i \in DOMAIN t.queue : IsError(t.queue[i]) => ~IsPiece(t.queue[i])
    BY <1>0, <1>4, <1>8
  <2> QED
    BY <1>3, <1>4, <2>1 DEF IoBase, IoTypes
<1>12. Follows(t, n)
  <2>1. {i \in DOMAIN t.queue : IsPiece(t.queue[i])} = {i \in DOMAIN s.queue : IsPiece(s.queue[i])}
    BY <1>0, <1>4, <1>6, <1>7
  <2>2. \A i \in {j \in DOMAIN s.queue : IsPiece(s.queue[j])} : t.queue[i] = s.queue[i]
    BY <1>7
  <2> QED
    BY <1>3, <2>1, <2>2 DEF IoBase, Follows
<1>13. IoBase(t, n)
  BY <1>3, <1>10, <1>11, <1>12 DEF IoBase, BufferRight, Registered, GoalAhead
<1>14. OneError(t)
  <2>1. Len(s.queue) + 1 <= Len(t.queue)
    BY <1>1, <1>4
  <2> QED
    BY <1>8, <2>1 DEF OneError
<1> QED
  BY <1>1, <1>2, <1>4, <1>13, <1>14 DEF t, cb

LEMMA InterestRight ==
    ASSUME NEW s
    PROVE  /\ Stream!Interest(s) # {} /\ Stream!Interest(s) \subseteq {"R", "W"}
           /\ s.read # "none" => "R" \in Stream!Interest(s)
           /\ s.wbuf > 0 => "W" \in Stream!Interest(s)
<1> DEFINE busy == {e \in {"R", "W"} : \/ e = "R" /\ (s.hsRead \/ s.read # "none")
                                       \/ e = "W" /\ (s.hsWrite \/ s.wbuf > 0)}
<1>1. busy \subseteq {"R", "W"}
  OBVIOUS
<1>2. s.read # "none" => "R" \in busy
  OBVIOUS
<1>3. s.wbuf > 0 => "W" \in busy
  OBVIOUS
<1>4. Stream!Interest(s) = IF busy = {} THEN {"R"} ELSE busy
  BY DEF Stream!Interest
<1> HIDE DEF busy
<1> QED
  BY <1>1, <1>2, <1>3, <1>4

\* After an event the stream waits for what it needs; an error is the last in the queue.
LEMMA EventsKeep ==
    ASSUME NEW s, NEW n, IoBase(s, n), ~ErrorQueued(s), s.reg, s.open, NEW events,
           ReadsWanted(s), WritesWanted(s), inCallback = FALSE,
           NEW ok \in BOOLEAN, NEW reply \in Nat \cup {-1}, NEW shake \in Stream!HandshakeOutcomes
    PROVE  LET t == Stream!HandleEvents(s, events, ok, reply, shake)
           IN  /\ IoBase(t, n) /\ ReadsWanted(t) /\ WritesWanted(t)
               /\ Told(t, FALSE) /\ Listens(t, FALSE)
               /\ OneError(t)
<1> DEFINE r == IF "R" \in events THEN Stream!OnReadable(s, shake) ELSE s
           w == IF r.open /\ "W" \in events
                THEN Stream!OnWritable(r, ok, reply, shake) ELSE r
           t == Stream!HandleEvents(s, events, ok, reply, shake)
<1>1. t = IF ~w.open THEN w
          ELSE IF "E" \in events THEN [w EXCEPT !.queue = Append(@, Stream!Note("error"))]
          ELSE [w EXCEPT !.want = Stream!Interest(w)]
  BY DEF Stream!HandleEvents
<1>2. IoBase(r, n) /\ IoTold(s, r)
  BY ReadableKeeps, LaterReflexive
<1> HIDE DEF r
<1>3. IoBase(w, n) /\ IoTold(r, w)
  BY <1>2, OnWritableKeeps, LaterReflexive
<1> HIDE DEF w
<1>4. IoTold(s, w)
  BY <1>2, <1>3, LaterTransitive
<1>5. /\ Told(w, FALSE) /\ ReadsWanted(w) /\ WritesWanted(w)
      /\ w.open => w.reg
  <2>1. Told(s, inCallback)
    BY DEF Told
  <2>2. w.open => w.reg
    BY <1>3, <1>4 DEF IoTold, IoLater, IoBase, Registered
  <2> QED
    BY <1>3, <1>4, <2>1, <2>2, LaterRight
<1>6. ~ErrorQueued(w)
  <2>1. /\ DOMAIN s.queue = 1 .. Len(s.queue) /\ DOMAIN w.queue = 1 .. Len(w.queue)
        /\ Len(s.queue) \in Nat /\ Len(w.queue) \in Nat
    BY <1>3, IoFacts
  <2>2. Grown(s.queue, w.queue)
    BY <1>4 DEF IoTold, IoLater
  <2>3. ASSUME NEW i \in 1 .. Len(w.queue) PROVE ~IsError(w.queue[i])
    <3>1. CASE i <= Len(s.queue)
      <4>1. i \in 1 .. Len(s.queue)
        BY <2>1, <3>1
      <4>2. w.queue[i] = s.queue[i] /\ ~IsError(s.queue[i])
        BY <2>1, <2>2, <4>1 DEF Grown, ErrorQueued
      <4> QED
        BY <4>2
    <3>2. CASE i > Len(s.queue)
      BY <2>2, <3>2 DEF Grown
    <3> QED
      BY <2>1, <3>1, <3>2
  <2> QED
    BY <2>1, <2>3 DEF ErrorQueued
<1>7. CASE ~w.open
  BY <1>1, <1>3, <1>5, <1>6, <1>7 DEF Listens, ErrorQueued, OneError
<1>8. CASE w.open /\ "E" \in events
  <2>1. t = [w EXCEPT !.queue = Append(@, Stream!Note("error"))]
    BY <1>1, <1>8
  <2> HIDE DEF t
  <2>2. /\ IoBase(t, n) /\ IoSame(t, w, {"queue"})
        /\ OneError(t)
    BY <1>3, <1>6, <2>1, ErrorKeeps
  <2>3. t.open = w.open /\ t.reg = w.reg /\ t.want = w.want /\ t.read = w.read /\ t.wbuf = w.wbuf
    BY <2>2 DEF IoSame, IoFields
  <2>4. ReadsWanted(t) /\ WritesWanted(t) /\ Told(t, FALSE) /\ Listens(t, FALSE)
    BY <1>5, <1>8, <2>3 DEF ReadsWanted, WritesWanted, Told, Listens
  <2> QED
    BY <2>2, <2>4 DEF t
<1>9. CASE w.open /\ "E" \notin events
  <2> DEFINE x == [w EXCEPT !.want = Stream!Interest(w)]
  <2>1. t = x
    BY <1>1, <1>9
  <2>0. IoRecord(w)
    BY <1>3, IoFacts
  <2>2. IoSame(x, w, {"want"}) /\ x.want = Stream!Interest(w)
    BY <2>0 DEF IoSame, IoRecord, IoFields
  <2> HIDE DEF x
  <2>3. /\ x.open = w.open /\ x.reg = w.reg /\ x.read = w.read /\ x.wbuf = w.wbuf
        /\ x.queue = w.queue
    BY <2>2 DEF IoSame, IoFields
  <2>4. /\ x.want # {} /\ x.want \subseteq {"R", "W"}
        /\ x.read # "none" => "R" \in x.want
        /\ x.wbuf > 0 => "W" \in x.want
    BY <2>2, <2>3, InterestRight
  <2>5. IoBase(x, n)
    <3>1. x.open \in BOOLEAN /\ x.reg \in BOOLEAN /\ Registered(x)
      BY <1>3, <1>5, <1>9, <2>3, <2>4 DEF IoBase, IoTypes, Registered
    <3>2. IoSame(x, w, {"open", "reg", "want"})
      BY <2>2 DEF IoSame
    <3> QED
      BY <1>3, <2>4, <3>1, <3>2, SocketFields
  <2>6. ReadsWanted(x) /\ WritesWanted(x) /\ Told(x, FALSE) /\ Listens(x, FALSE)
    BY <1>5, <1>9, <2>3, <2>4 DEF ReadsWanted, WritesWanted, Told, Listens
  <2>7. OneError(x)
    BY <1>6, <2>3 DEF ErrorQueued, OneError
  <2> QED
    BY <2>1, <2>5, <2>6, <2>7
<1> QED
  BY <1>7, <1>8, <1>9

-----------------------------------------------------------------------------
(* The steps.                                                              *)

\* A step that leaves the stream t.
LEMMA StreamAfter ==
    ASSUME NEW t, stream' = t, arrived' = arrived, inCallback' \in BOOLEAN,
           IoBase(t, seen'), ErrorDue', ReadsWanted(t), WritesWanted(t),
           Told(t, inCallback'), Listens(t, inCallback')
    PROVE  IoInv'
<1>1. BufferRight(stream)'
  BY DEF IoBase, BufferRight
<1>2. IoBase(stream, seen)'
  BY <1>1 DEF IoBase
<1>3. ReadsWanted(stream)' /\ WritesWanted(stream)'
  BY DEF ReadsWanted, WritesWanted
<1>4. Told(stream, inCallback)' /\ Listens(stream, inCallback)'
  BY DEF Told, Listens
<1> QED
  BY <1>2, <1>3, <1>4 DEF IoInv

\* An error stays where it is while the queue grows.
LEMMA ErrorStays ==
    ASSUME IoInv, Grown(stream.queue, stream'.queue), due' = due,
           Len(stream'.queue) \in Nat, DOMAIN stream'.queue = 1 .. Len(stream'.queue)
    PROVE  ErrorDue'
<1>1. /\ DOMAIN stream.queue = 1 .. Len(stream.queue) /\ Len(stream.queue) \in Nat
  BY IoFacts DEF IoInv
<1>2. \A i \in DOMAIN stream'.queue : IsError(stream'.queue[i]) =>
          i \in DOMAIN stream.queue /\ IsError(stream.queue[i])
  <2>1. ASSUME NEW i \in 1 .. Len(stream'.queue), IsError(stream'.queue[i])
        PROVE  i \in 1 .. Len(stream.queue) /\ IsError(stream.queue[i])
    <3>1. i <= Len(stream.queue)
      BY <1>1, <2>1 DEF Grown
    <3>2. i \in 1 .. Len(stream.queue)
      BY <1>1, <3>1
    <3>3. stream'.queue[i] = stream.queue[i]
      BY <3>2 DEF Grown
    <3> QED
      BY <2>1, <3>2, <3>3
  <2> QED
    BY <1>1, <2>1
<1>3. due' \in 0 .. Len(stream'.queue)
  <2>1. due \in 0 .. Len(stream.queue) /\ Len(stream.queue) <= Len(stream'.queue)
    BY DEF IoInv, ErrorDue, Grown
  <2> QED
    BY <1>1, <2>1
<1>4. \A i, j \in DOMAIN stream'.queue :
          IsError(stream'.queue[i]) /\ IsError(stream'.queue[j]) => i = j /\ i <= due'
  BY <1>2 DEF IoInv, ErrorDue
<1> QED
  BY <1>3, <1>4 DEF ErrorDue

\* An operation: a change of the fields aside, and what the method makes of it.
LEMMA OperationKeeps ==
    ASSUME IoInv, NEW s, NEW t, s.queue = stream.queue, IoBase(s, seen),
           IoBase(t, seen), IoTold(s, t), stream' = t,
           UNCHANGED <<inCallback, due, arrived, seen>>,
           ReadsWanted(t), WritesWanted(t), Told(t, inCallback), Listens(t, inCallback)
    PROVE  IoInv'
<1>1. Grown(stream.queue, t.queue)
  BY DEF IoTold, IoLater
<1>2. Len(t.queue) \in Nat /\ DOMAIN t.queue = 1 .. Len(t.queue)
  BY IoFacts
<1>3. ErrorDue'
  BY <1>1, <1>2, ErrorStays
<1>4. inCallback \in BOOLEAN
  BY DEF IoInv
<1> QED
  BY <1>3, <1>4, StreamAfter


LEMMA TouchKeeps ==
    ASSUME IoInv
    PROVE  LET s == Stream!Touch(stream)
           IN  /\ IoSame(s, stream, {"touched"}) /\ IoBase(s, seen)
               /\ ReadsWanted(s) /\ WritesWanted(s) /\ Told(s, inCallback)
<1> DEFINE s == [stream EXCEPT !.touched = TRUE]
<1>0. IoBase(stream, seen)
  BY DEF IoInv
<1>7. IoRecord(stream)
  BY <1>0, IoFacts
<1>1. IoSame(s, stream, {"touched"}) /\ s.touched = TRUE
  BY <1>7 DEF IoSame, IoRecord, IoFields
<1>2. Stream!Touch(stream) = s
  BY DEF Stream!Touch
<1> HIDE DEF s
<1>3. /\ s.open = stream.open /\ s.want = stream.want /\ s.read = stream.read
      /\ s.wbuf = stream.wbuf /\ s.closeCb = stream.closeCb /\ s.pending = stream.pending
      /\ s.eofOutside = stream.eofOutside
  BY <1>1 DEF IoSame, IoFields
<1>4. IoSame(s, stream, {"connecting", "connCb", "streaming", "writeCb", "accepting", "hsRead",
                         "hsWrite", "touched", "eofOutside", "wbuf", "closeCb"})
  BY <1>1 DEF IoSame
<1>5. s.closeCb \in BOOLEAN /\ s.eofOutside \in BOOLEAN /\ s.wbuf \in Int
  BY <1>0, <1>3 DEF IoBase, IoTypes
<1>6. IoBase(s, seen)
  BY <1>0, <1>1, <1>4, <1>5, AsideKeeps
<1> QED
  BY <1>1, <1>2, <1>3, <1>6 DEF IoInv, ReadsWanted, WritesWanted, Told

LEMMA ConnectKeeps ==
    ASSUME IoInv, Stream!Connect
    PROVE  IoInv'
<1> DEFINE s == Stream!Touch(stream)
<1>1. IoBase(s, seen) /\ ReadsWanted(s) /\ WritesWanted(s) /\ Told(s, inCallback)
      /\ s.queue = stream.queue /\ IoSame(s, stream, {"touched"})
  BY TouchKeeps DEF IoSame, IoFields
<1> HIDE DEF s
<1>2. UNCHANGED <<inCallback, due, arrived, seen>>
  BY DEF Stream!Connect, Stream!Operation
<1>3. CASE stream' = Stream!CloseStream(s)
  <2> DEFINE t == Stream!CloseStream(s)
  <2>1. IoBase(t, seen) /\ IoTold(s, t) /\ ~t.open
    BY <1>1, ClosingKeeps
  <2>2. stream' = t
    BY <1>3
  <2> HIDE DEF t
  <2>3. ReadsWanted(t) /\ WritesWanted(t) /\ Told(t, inCallback) /\ Listens(t, inCallback)
    BY <1>1, <2>1, LaterRight DEF Listens
  <2> QED
    BY <1>1, <1>2, <2>1, <2>2, <2>3, OperationKeeps
<1>4. CASE stream' = Stream!AddIoState([s EXCEPT !.connCb = TRUE], "W")
  <2> DEFINE u == [s EXCEPT !.connCb = TRUE]
             t == Stream!AddIoState(u, "W")
  <2>1. IoSame(u, s, {"connCb"})
    BY <1>1 DEF IoSame, IoRecord, IoFields
  <2> HIDE DEF u
  <2>2. u.wbuf = s.wbuf /\ s.wbuf \in Int
    BY <1>1, <2>1, IoFacts DEF IoSame, IoFields
  <2>3. IoSame(u, s, {"connecting", "connCb", "streaming", "writeCb", "accepting", "hsRead",
                      "hsWrite", "wbuf"})
    BY <2>1 DEF IoSame
  <2>4. IoBase(u, seen) /\ IoTold(s, u)
    BY <1>1, <2>2, <2>3, AsideTold
  <2>5. IoBase(t, seen) /\ IoTold(u, t) /\ (t.open => t.reg)
    BY <2>4, AddStateKeeps
  <2>6. stream' = t
    BY <1>4 DEF u
  <2> HIDE DEF t
  <2>7. IoTold(s, t)
    BY <1>1, <2>4, <2>5, LaterTransitive
  <2>8. ReadsWanted(t) /\ WritesWanted(t) /\ Told(t, inCallback) /\ Listens(t, inCallback)
    BY <1>1, <2>5, <2>7, LaterRight DEF Listens
  <2> QED
    BY <1>1, <1>2, <2>5, <2>6, <2>7, <2>8, OperationKeeps
<1> QED
  BY <1>3, <1>4 DEF Stream!Connect, s

\* A read that begins: where it is to end, if it is for a number of bytes.
LEMMA ReadBegins ==
    ASSUME NEW s, NEW t, NEW n, IoBase(s, n), IoSame(t, s, {"read", "num", "streaming", "goal"}),
           t.read \in {"none", "until", "bytes", "close"}, t.num \in Nat, t.goal \in Nat, GoalAhead(t)
    PROVE  IoBase(t, n)
<1>1. /\ IoRecord(t) /\ t.open = s.open /\ t.reg = s.reg /\ t.closeCb = s.closeCb
      /\ t.touched = s.touched /\ t.eofOutside = s.eofOutside
      /\ t.want = s.want /\ t.wbuf = s.wbuf /\ t.got = s.got /\ t.used = s.used
      /\ t.pending = s.pending /\ t.queue = s.queue
  BY DEF IoSame, IoFields
<1>2. IoTypes(t)
  BY <1>1 DEF IoBase, IoTypes
<1>3. BufferRight(t) /\ Registered(t)
  BY <1>1 DEF IoBase, BufferRight, Registered
<1>4. Pending(t)
  BY <1>1 DEF IoBase, Pending, ErrorQueued
<1>5. n \in Nat /\ Follows(t, n)
  BY <1>1 DEF IoBase, Follows
<1> QED
  BY <1>2, <1>3, <1>4, <1>5 DEF IoBase

\* The read methods, but for the read until the end of the connection.
LEMMA ReadCallKeeps ==
    ASSUME IoInv, NEW t, IoSame(t, Stream!Touch(stream), {"read", "num", "streaming", "goal"}),
           t.read \in {"until", "bytes"}, t.num \in Nat, t.goal \in Nat, GoalAhead(t),
           stream' = Stream!TryInlineRead(t), UNCHANGED <<inCallback, due, arrived, seen>>
    PROVE  IoInv'
<1> DEFINE s == Stream!Touch(stream)
           r == Stream!TryInlineRead(t)
<1>1. IoBase(s, seen) /\ WritesWanted(s) /\ Told(s, inCallback) /\ s.queue = stream.queue
  BY TouchKeeps DEF IoSame, IoFields
<1>2. IoSame(t, s, {"read", "num", "streaming", "goal"})
  OBVIOUS
<1> HIDE DEF s
<1>3. IoBase(t, seen)
  BY <1>1, <1>2, ReadBegins
<1>4. /\ t.queue = stream.queue /\ t.open = s.open /\ t.wbuf = s.wbuf /\ t.want = s.want
      /\ t.closeCb = s.closeCb /\ t.pending = s.pending /\ t.eofOutside = s.eofOutside
  BY <1>1, <1>2 DEF IoSame, IoFields
<1>5. WritesWanted(t) /\ Told(t, inCallback)
  BY <1>1, <1>4 DEF WritesWanted, Told
<1>6. inCallback \in BOOLEAN
  BY DEF IoInv
<1>7. IoBase(r, seen) /\ IoTold(t, r) /\ ReadsWanted(r) /\ (r.open => r.reg \/ r.pending > 0)
  BY <1>3, <1>6, InlineReadKeeps
<1> HIDE DEF r
<1>8. WritesWanted(r) /\ Told(r, inCallback) /\ Listens(r, inCallback)
  BY <1>3, <1>5, <1>7, LaterRight DEF Listens
<1> QED
  BY <1>3, <1>4, <1>7, <1>8, OperationKeeps DEF r

LEMMA ReadUntilKeeps ==
    ASSUME IoInv, Stream!ReadUntil
    PROVE  IoInv'
<1> DEFINE s == Stream!Touch(stream)
           t == [s EXCEPT !.read = "until", !.goal = 0]
<1>1. IoBase(s, seen)
  BY TouchKeeps
<1>0. IoRecord(s)
  BY <1>1, IoFacts
<1>2. stream' = Stream!TryInlineRead(t) /\ UNCHANGED <<inCallback, due, arrived, seen>>
  BY DEF Stream!ReadUntil, Stream!Operation
<1> HIDE DEF s
<1>3. IoSame(t, s, {"read", "goal"}) /\ t.read = "until" /\ t.goal = 0
  BY <1>0 DEF IoSame, IoRecord, IoFields
<1> HIDE DEF t
<1>4. t.num \in Nat
  BY <1>1, <1>3 DEF IoSame, IoFields, IoBase, IoTypes
<1>5. IoSame(t, s, {"read", "num", "streaming", "goal"})
  BY <1>3 DEF IoSame
<1>6. GoalAhead(t)
  BY <1>3 DEF GoalAhead
<1> QED
  BY <1>2, <1>3, <1>4, <1>5, <1>6, ReadCallKeeps DEF s

LEMMA ReadBytesKeeps ==
    ASSUME IoInv, NEW m \in 0 .. 2, NEW streaming \in BOOLEAN, Stream!ReadBytes(m, streaming)
    PROVE  IoInv'
<1> DEFINE s == Stream!Touch(stream)
           t == [s EXCEPT !.read = "bytes", !.num = m, !.streaming = streaming,
                          !.goal = stream.used + m]
<1>1. IoBase(s, seen) /\ s.used = stream.used
  BY TouchKeeps DEF IoSame, IoFields
<1>0. IoRecord(s)
  BY <1>1, IoFacts
<1>2. stream' = Stream!TryInlineRead(t) /\ UNCHANGED <<inCallback, due, arrived, seen>>
  BY DEF Stream!ReadBytes, Stream!Operation
<1> HIDE DEF s
<1>3. IoSame(t, s, {"read", "num", "streaming", "goal"})
      /\ t.read = "bytes" /\ t.num = m /\ t.goal = stream.used + m
  BY <1>0 DEF IoSame, IoRecord, IoFields
<1> HIDE DEF t
<1>4. s.used \in Nat /\ m \in Nat
  BY <1>1 DEF IoBase, BufferRight
<1>5. t.used = s.used
  BY <1>3 DEF IoSame, IoFields
<1>6. t.goal \in Nat /\ GoalAhead(t)
  BY <1>1, <1>3, <1>4, <1>5 DEF GoalAhead
<1> QED
  BY <1>2, <1>3, <1>4, <1>6, ReadCallKeeps DEF s

LEMMA UntilCloseKeeps ==
    ASSUME IoInv, NEW streaming \in BOOLEAN, Stream!StartReadUntilClose(streaming)
    PROVE  IoInv'
<1> DEFINE s == Stream!Touch(stream)
<1>1. IoBase(s, seen) /\ WritesWanted(s) /\ Told(s, inCallback) /\ s.queue = stream.queue
      /\ s.read = "none" /\ IoSame(s, stream, {"touched"})
  BY TouchKeeps DEF IoSame, IoFields, Stream!StartReadUntilClose
<1>2. stream' = Stream!ReadUntilClose(s, streaming) /\ UNCHANGED <<inCallback, due, arrived, seen>>
  BY DEF Stream!StartReadUntilClose, Stream!Operation
<1> HIDE DEF s
<1>0. IoRecord(s)
  BY <1>1, IoFacts
<1>3. CASE s.open
  <2> DEFINE u == [s EXCEPT !.read = "close", !.streaming = streaming, !.goal = 0]
             t == Stream!AddIoState(u, "R")
  <2>1. stream' = t
    BY <1>2, <1>3 DEF Stream!ReadUntilClose
  <2>2. IoSame(u, s, {"read", "streaming", "goal"}) /\ u.read = "close" /\ u.goal = 0
    BY <1>0 DEF IoSame, IoRecord, IoFields
  <2> HIDE DEF u
  <2>3. /\ u.num = s.num /\ u.queue = s.queue /\ u.open = s.open /\ u.wbuf = s.wbuf
        /\ u.want = s.want /\ u.closeCb = s.closeCb /\ u.pending = s.pending
        /\ u.eofOutside = s.eofOutside
    BY <2>2 DEF IoSame, IoFields
  <2>4. IoBase(u, seen)
    <3>1. u.num \in Nat /\ GoalAhead(u)
      BY <1>1, <2>2, <2>3 DEF IoBase, IoTypes, GoalAhead
    <3>2. IoSame(u, s, {"read", "num", "streaming", "goal"})
      BY <2>2 DEF IoSame
    <3> QED
      BY <1>1, <2>2, <3>1, <3>2, ReadBegins
  <2>5. WritesWanted(u) /\ Told(u, inCallback)
    BY <1>1, <2>3 DEF WritesWanted, Told
  <2>6. IoBase(t, seen) /\ IoTold(u, t) /\ (t.open => "R" \in t.want /\ t.reg)
    BY <2>4, AddStateKeeps
  <2> HIDE DEF t
  <2>7. /\ ReadsWanted(t) /\ WritesWanted(t) /\ Told(t, inCallback) /\ Listens(t, inCallback)
    BY <2>4, <2>5, <2>6, LaterRight DEF ReadsWanted, Listens
  <2>8. u.queue = stream.queue
    BY <1>1, <2>3
  <2> QED
    BY <1>2, <2>1, <2>4, <2>6, <2>7, <2>8, OperationKeeps
<1>4. CASE ~s.open
  <2> DEFINE u == [s EXCEPT !.goal = 0]
             m == Stream!Buffered(s)
             t == Stream!Deliver(u, "read", m)
  <2>1. stream' = t
    BY <1>2, <1>4 DEF Stream!ReadUntilClose
  <2>2. IoSame(u, s, {"goal"}) /\ u.goal = 0
    BY <1>0 DEF IoSame, IoRecord, IoFields
  <2> HIDE DEF u
  <2>3. u.num = s.num /\ u.read = s.read /\ u.got = s.got /\ u.used = s.used
    BY <2>2 DEF IoSame, IoFields
  <2>4. s.got \in Nat /\ s.used \in Nat /\ s.used <= s.got /\ s.num \in Nat
    BY <1>1 DEF IoBase, BufferRight, IoTypes
  <2>5. m \in Nat /\ m <= u.got - u.used
    BY <2>3, <2>4 DEF Stream!Buffered
  <2> HIDE DEF m
  <2>6. u.num \in Nat /\ u.goal \in Nat /\ u.read = "none"
    BY <1>1, <2>2, <2>3, <2>4
  <2>7. IoSame(u, s, {"read", "num", "streaming", "goal"})
    BY <2>2 DEF IoSame
  <2>8. IoBase(t, seen) /\ IoTold(s, t)
    BY <1>1, <2>2, <2>3, <2>5, <2>6, <2>7, DeliveryKeeps
  <2> HIDE DEF t
  <2>9. ~t.open
    BY <1>4, <2>8 DEF IoTold, IoLater
  <2>10. ReadsWanted(t) /\ WritesWanted(t) /\ Told(t, inCallback) /\ Listens(t, inCallback)
    BY <1>1, <2>8, <2>9, LaterRight DEF ReadsWanted, WritesWanted, Listens
  <2> QED
    BY <1>1, <1>2, <2>1, <2>8, <2>10, OperationKeeps
<1> QED
  BY <1>3, <1>4

LEMMA WriteOpKeeps ==
    ASSUME IoInv, NEW m \in 0 .. 1, NEW withCallback \in BOOLEAN, Stream!Write(m, withCallback)
    PROVE  IoInv'
<1> DEFINE u == Stream!Touch(stream)
           s == [u EXCEPT !.wbuf = @ + m]
<1>1. IoBase(u, seen) /\ ReadsWanted(u) /\ Told(u, inCallback) /\ u.queue = stream.queue
  BY TouchKeeps DEF IoSame, IoFields
<1>2. PICK reply \in (IF s.connecting THEN {0} ELSE Stream!WriteOutcomes(s)),
           shake \in (IF s.accepting THEN Stream!HandshakeOutcomes ELSE {"done"}) :
           stream' = Stream!WriteStream(s, reply, shake, withCallback)
  BY DEF Stream!Write
<1>3. UNCHANGED <<inCallback, due, arrived, seen>>
  BY DEF Stream!Write, Stream!Operation
<1> HIDE DEF u
<1>0. IoRecord(u) /\ u.wbuf \in Int
  BY <1>1, IoFacts
<1>4. IoSame(s, u, {"wbuf"}) /\ s.wbuf = u.wbuf + m
  BY <1>0 DEF IoSame, IoRecord, IoFields
<1> HIDE DEF s
<1>5. s.wbuf \in Int
  BY <1>0, <1>4
<1>6. /\ s.queue = u.queue /\ s.open = u.open /\ s.read = u.read /\ s.want = u.want
      /\ s.closeCb = u.closeCb /\ s.pending = u.pending /\ s.eofOutside = u.eofOutside
      /\ s.touched = u.touched
  BY <1>4 DEF IoSame, IoFields
<1>7. IoBase(s, seen)
  <2>1. IoSame(s, u, {"connecting", "connCb", "streaming", "writeCb", "accepting", "hsRead",
                      "hsWrite", "touched", "eofOutside", "wbuf", "closeCb"})
    BY <1>4 DEF IoSame
  <2>2. s.touched \in BOOLEAN /\ s.eofOutside \in BOOLEAN /\ s.closeCb \in BOOLEAN
    BY <1>1, <1>6 DEF IoBase, IoTypes
  <2> QED
    BY <1>1, <1>5, <2>1, <2>2, AsideKeeps
<1>8. ReadsWanted(s) /\ Told(s, inCallback)
  BY <1>1, <1>6 DEF ReadsWanted, Told
<1>9. reply \in Nat \cup {-1}
  <2>1. CASE s.connecting
    BY <1>2, <2>1
  <2>2. CASE ~s.connecting
    <3>1. Stream!WriteOutcomes(s) \subseteq Nat \cup {-1}
      BY <1>5 DEF Stream!WriteOutcomes
    <3> QED
      BY <1>2, <2>2, <3>1
  <2> QED
    BY <2>1, <2>2
<1>10. shake \in Stream!HandshakeOutcomes
  BY <1>2 DEF Stream!HandshakeOutcomes
<1> DEFINE t == Stream!WriteStream(s, reply, shake, withCallback)
<1>11. /\ IoBase(t, seen) /\ IoTold(s, t) /\ WritesWanted(t)
       /\ t.open => t.reg \/ t.pending > 0
  BY <1>7, <1>9, <1>10, WriteCallKeeps
<1>12. stream' = t
  BY <1>2
<1> HIDE DEF t
<1>13. ReadsWanted(t) /\ Told(t, inCallback) /\ Listens(t, inCallback)
  BY <1>7, <1>8, <1>11, LaterRight DEF Listens
<1>14. s.queue = stream.queue
  BY <1>1, <1>6
<1> QED
  BY <1>3, <1>7, <1>11, <1>12, <1>13, <1>14, OperationKeeps

LEMMA CallbackSetKeeps ==
    ASSUME IoInv, Stream!SetCloseCallback
    PROVE  IoInv'
<1> DEFINE t == [stream EXCEPT !.closeCb = TRUE]
<1>0. IoBase(stream, seen) /\ inCallback \in BOOLEAN
  BY DEF IoInv
<1>1. IoRecord(stream)
  BY <1>0, IoFacts
<1>2. stream' = t /\ UNCHANGED <<inCallback, due, arrived, seen>> /\ (inCallback \/ stream.open)
  BY DEF Stream!SetCloseCallback, Stream!Operation
<1>3. IoSame(t, stream, {"closeCb"}) /\ t.closeCb = TRUE
  BY <1>1 DEF IoSame, IoRecord, IoFields
<1> HIDE DEF t
<1>4. /\ t.queue = stream.queue /\ t.open = stream.open /\ t.read = stream.read
      /\ t.want = stream.want /\ t.wbuf = stream.wbuf /\ t.reg = stream.reg
      /\ t.pending = stream.pending /\ t.touched = stream.touched
      /\ t.eofOutside = stream.eofOutside
  BY <1>3 DEF IoSame, IoFields
<1>5. IoBase(t, seen)
  <2>1. IoSame(t, stream, {"connecting", "connCb", "streaming", "writeCb", "accepting", "hsRead",
                           "hsWrite", "touched", "eofOutside", "wbuf", "closeCb"})
    BY <1>3 DEF IoSame
  <2>2. t.touched \in BOOLEAN /\ t.eofOutside \in BOOLEAN /\ t.wbuf \in Int
    BY <1>0, <1>4 DEF IoBase, IoTypes
  <2> QED
    BY <1>0, <1>3, <2>1, <2>2, AsideKeeps
<1>6. ReadsWanted(t) /\ WritesWanted(t) /\ Listens(t, inCallback)
  BY <1>4 DEF IoInv, ReadsWanted, WritesWanted, Listens
<1>7. Told(t, inCallback)
  BY <1>2, <1>4 DEF Told
<1>8. ErrorDue'
  BY <1>2, <1>4 DEF IoInv, ErrorDue
<1> QED
  BY <1>0, <1>2, <1>5, <1>6, <1>7, <1>8, StreamAfter

LEMMA CloseOpKeeps ==
    ASSUME IoInv, Stream!Close
    PROVE  IoInv'
<1> DEFINE s == Stream!Touch(stream)
           t == Stream!CloseStream(s)
<1>1. IoBase(s, seen) /\ ReadsWanted(s) /\ WritesWanted(s) /\ Told(s, inCallback)
      /\ s.queue = stream.queue
  BY TouchKeeps DEF IoSame, IoFields
<1>2. stream' = t /\ UNCHANGED <<inCallback, due, arrived, seen>>
  BY DEF Stream!Close, Stream!Operation
<1> HIDE DEF s
<1>3. IoBase(t, seen) /\ IoTold(s, t) /\ ~t.open
  BY <1>1, ClosingKeeps
<1> HIDE DEF t
<1>4. ReadsWanted(t) /\ WritesWanted(t) /\ Told(t, inCallback) /\ Listens(t, inCallback)
  BY <1>1, <1>3, LaterRight DEF Listens
<1> QED
  BY <1>1, <1>2, <1>3, <1>4, OperationKeeps

LEMMA ReturnsKeeps ==
    ASSUME IoInv, Stream!CallbackReturns
    PROVE  IoInv'
<1> DEFINE t == Stream!MaybeAddErrorListener(stream)
<1>0. IoBase(stream, seen) /\ ReadsWanted(stream) /\ WritesWanted(stream)
  BY DEF IoInv
<1>1. stream' = t /\ UNCHANGED <<due, arrived, seen>> /\ inCallback' = FALSE
  BY DEF Stream!CallbackReturns
<1>2. IoBase(t, seen) /\ IoTold(stream, t) /\ TellsNow(t) /\ (t.open => t.reg \/ t.pending > 0)
  BY <1>0, ListenerKeeps
<1> HIDE DEF t
<1>3. ReadsWanted(t) /\ WritesWanted(t) /\ Told(t, FALSE) /\ Listens(t, FALSE)
  BY <1>0, <1>2, LaterRight DEF TellsNow, Told, Listens
<1>4. ErrorDue'
  <2>1. Len(t.queue) \in Nat /\ DOMAIN t.queue = 1 .. Len(t.queue)
    BY <1>2, IoFacts
  <2>2. Grown(stream.queue, t.queue)
    BY <1>2 DEF IoTold, IoLater
  <2> QED
    BY <1>1, <2>1, <2>2, ErrorStays
<1> QED
  BY <1>1, <1>2, <1>3, <1>4, StreamAfter

LEMMA RaisesKeeps ==
    ASSUME IoInv, Stream!CallbackRaises
    PROVE  IoInv'
<1> DEFINE t == Stream!CloseStream(stream)
<1>0. IoBase(stream, seen) /\ ReadsWanted(stream) /\ WritesWanted(stream)
  BY DEF IoInv
<1>1. stream' = t /\ UNCHANGED <<due, arrived, seen>> /\ inCallback' = FALSE
  BY DEF Stream!CallbackRaises
<1>2. IoBase(t, seen) /\ IoTold(stream, t) /\ TellsNow(t) /\ ~t.open
  BY <1>0, ClosingKeeps
<1> HIDE DEF t
<1>3. ReadsWanted(t) /\ WritesWanted(t) /\ Told(t, FALSE) /\ Listens(t, FALSE)
  BY <1>0, <1>2, LaterRight DEF TellsNow, Told, Listens
<1>4. ErrorDue'
  <2>1. Len(t.queue) \in Nat /\ DOMAIN t.queue = 1 .. Len(t.queue)
    BY <1>2, IoFacts
  <2>2. Grown(stream.queue, t.queue)
    BY <1>2 DEF IoTold, IoLater
  <2> QED
    BY <1>1, <2>1, <2>2, ErrorStays
<1> QED
  BY <1>1, <1>2, <1>3, <1>4, StreamAfter

LEMMA PolledKeeps ==
    ASSUME IoInv, Stream!PollEvent
    PROVE  IoInv'
<1>0. IoBase(stream, seen) /\ ReadsWanted(stream) /\ WritesWanted(stream)
  BY DEF IoInv
<1>1. PICK events \in Stream!Events, ok \in BOOLEAN, reply \in Stream!WriteOutcomes(stream),
           shake \in Stream!HandshakeOutcomes :
           stream' = Stream!HandleEvents(stream, events, ok, reply, shake)
  BY DEF Stream!PollEvent
<1>2. /\ inCallback = FALSE /\ due = 0 /\ stream.open /\ stream.reg
      /\ due' = Len(stream'.queue) /\ UNCHANGED <<inCallback, arrived, seen>>
  BY DEF Stream!PollEvent, IoInv
<1>3. ~ErrorQueued(stream)
  <2>1. \A i \in DOMAIN stream.queue : i \in Nat /\ i > 0
    BY <1>0, IoFacts
  <2> QED
    BY <1>2, <2>1 DEF IoInv, ErrorDue, ErrorQueued
<1>4. reply \in Nat \cup {-1}
  <2>1. stream.wbuf \in Int
    BY <1>0, IoFacts
  <2>2. Stream!WriteOutcomes(stream) \subseteq Nat \cup {-1}
    BY <2>1 DEF Stream!WriteOutcomes
  <2> QED
    BY <1>1, <2>2
<1> DEFINE t == Stream!HandleEvents(stream, events, ok, reply, shake)
<1>5. /\ IoBase(t, seen) /\ ReadsWanted(t) /\ WritesWanted(t)
      /\ Told(t, FALSE) /\ Listens(t, FALSE)
      /\ OneError(t)
  <2>1. ok \in BOOLEAN /\ shake \in Stream!HandshakeOutcomes
    BY <1>1
  <2>2. inCallback = FALSE /\ stream.open /\ stream.reg
    BY <1>2
  <2> QED
    BY <1>0, <1>3, <1>4, <2>1, <2>2, EventsKeep
<1>6. stream' = t
  BY <1>1
<1> HIDE DEF t
<1>7. ErrorDue'
  <2>1. Len(t.queue) \in Nat
    BY <1>5, IoFacts
  <2>2. due' \in 0 .. Len(stream'.queue)
    BY <1>2, <1>6, <2>1
  <2> QED
    BY <1>2, <1>5, <1>6, <2>2 DEF ErrorDue, OneError
<1> QED
  BY <1>2, <1>5, <1>6, <1>7, StreamAfter

\* The queue without its first callback.
LEMMA TailFacts ==
    ASSUME NEW q \in Seq(IoCallback), q # <<>>
    PROVE  /\ Tail(q) \in Seq(IoCallback) /\ Len(q) \in Nat /\ Len(Tail(q)) = Len(q) - 1
           /\ DOMAIN q = 1 .. Len(q) /\ DOMAIN Tail(q) = 1 .. Len(q) - 1
           /\ Head(q) = q[1] /\ 1 \in DOMAIN q
           /\ \A i \in DOMAIN Tail(q) : Tail(q)[i] = q[i + 1] /\ i + 1 \in DOMAIN q
           /\ \A i \in DOMAIN q : i # 1 => i - 1 \in DOMAIN Tail(q)
<1>1. /\ Tail(q) \in Seq(IoCallback) /\ Len(q) \in Nat /\ Len(q) > 0
      /\ Len(Tail(q)) = Len(q) - 1
      /\ Head(q) = q[1] /\ DOMAIN q = 1 .. Len(q)
  OBVIOUS
<1>2. DOMAIN Tail(q) = 1 .. Len(q) - 1
  BY <1>1
<1>3. \A i \in DOMAIN Tail(q) : Tail(q)[i] = q[i + 1]
  BY <1>1, <1>2
<1>4. /\ 1 \in DOMAIN q
      /\ \A i \in DOMAIN Tail(q) : i + 1 \in DOMAIN q
      /\ \A i \in DOMAIN q : i # 1 => i - 1 \in DOMAIN Tail(q)
  BY <1>1, <1>2
<1> QED
  BY <1>1, <1>2, <1>3, <1>4

\* The pieces behind it follow it.
LEMMA TailFollows ==
    ASSUME NEW s, NEW t, NEW n, s.queue \in Seq(IoCallback), s.queue # <<>>, Follows(s, n),
           t.queue = Tail(s.queue), t.used = s.used
    PROVE  Follows(t, IF IsPiece(Head(s.queue)) THEN Head(s.queue).last ELSE n)
<1> DEFINE P == {i \in DOMAIN s.queue : IsPiece(s.queue[i])}
           Q == {i \in DOMAIN t.queue : IsPiece(t.queue[i])}
           m == IF IsPiece(Head(s.queue)) THEN Head(s.queue).last ELSE n
<1>1. /\ Len(s.queue) \in Nat /\ DOMAIN s.queue = 1 .. Len(s.queue)
      /\ DOMAIN t.queue = 1 .. Len(s.queue) - 1
      /\ Head(s.queue) = s.queue[1] /\ 1 \in DOMAIN s.queue
      /\ \A i \in DOMAIN t.queue : t.queue[i] = s.queue[i + 1] /\ i + 1 \in DOMAIN s.queue
      /\ \A i \in DOMAIN s.queue : i # 1 => i - 1 \in DOMAIN t.queue
  BY TailFacts
<1>2. /\ \A i \in P : i \in Nat /\ i > 0
      /\ \A i \in Q : i \in Nat /\ i > 0
  BY <1>1
<1>3. \A i \in Q : i + 1 \in P /\ t.queue[i] = s.queue[i + 1]
  BY <1>1
<1>4. \A i \in P : i # 1 => i - 1 \in Q
  <2>1. ASSUME NEW i \in P, i # 1 PROVE i - 1 \in Q
    <3>1. i - 1 \in DOMAIN t.queue
      BY <1>1, <2>1
    <3>2. t.queue[i - 1] = s.queue[(i - 1) + 1] /\ (i - 1) + 1 = i
      BY <1>1, <1>2, <2>1, <3>1
    <3> QED
      BY <2>1, <3>1, <3>2
  <2> QED
    BY <2>1
<1>5. 1 \in P <=> IsPiece(s.queue[1])
  BY <1>1
<1>6. m = IF 1 \in P THEN s.queue[1].last ELSE n
  BY <1>1, <1>5
<1>7. /\ \A i \in P : (\A j \in P : i <= j) => s.queue[i].first = n + 1
      /\ \A i, j \in P :
            i < j /\ (\A k \in P : k <= i \/ j <= k) => s.queue[j].first = s.queue[i].last + 1
      /\ P = {} => s.used = n
      /\ \A i \in P : (\A j \in P : j <= i) => s.used = s.queue[i].last
      /\ \A i \in P : s.queue[i].kind = "read" /\ s.queue[i].goal > 0
                         => s.queue[i].last = s.queue[i].goal
  BY DEF Follows, P
<1> HIDE DEF P, Q, m
<1>8. ASSUME NEW i \in Q, \A j \in Q : i <= j
      PROVE  t.queue[i].first = m + 1
  <2>1. i + 1 \in P /\ i \in Nat /\ i > 0 /\ t.queue[i] = s.queue[i + 1]
    BY <1>2, <1>3
  <2>2. \A k \in P : k = 1 \/ i + 1 <= k
    <3>1. ASSUME NEW k \in P, k # 1 PROVE i + 1 <= k
      <4>1. k - 1 \in Q /\ k \in Nat
        BY <1>2, <1>4, <3>1
      <4>2. i <= k - 1
        BY <1>8, <4>1
      <4> QED
        BY <2>1, <4>1, <4>2
    <3> QED
      BY <3>1
  <2>3. CASE 1 \in P
    <3>1. \A k \in P : k <= 1 \/ i + 1 <= k
      BY <2>2
    <3>2. 1 < i + 1
      BY <2>1
    <3>3. s.queue[i + 1].first = s.queue[1].last + 1
      BY <1>7, <2>1, <2>3, <3>1, <3>2
    <3> QED
      BY <1>6, <2>1, <2>3, <3>3
  <2>4. CASE 1 \notin P
    <3>1. \A k \in P : i + 1 <= k
      BY <2>2, <2>4
    <3>2. s.queue[i + 1].first = n + 1
      BY <1>7, <2>1, <3>1
    <3> QED
      BY <1>6, <2>1, <2>4, <3>2
  <2> QED
    BY <2>3, <2>4
<1>9. ASSUME NEW i \in Q, NEW j \in Q, i < j, \A k \in Q : k <= i \/ j <= k
      PROVE  t.queue[j].first = t.queue[i].last + 1
  <2>1. /\ i + 1 \in P /\ j + 1 \in P /\ i \in Nat /\ j \in Nat /\ i > 0
        /\ t.queue[i] = s.queue[i + 1] /\ t.queue[j] = s.queue[j + 1]
    BY <1>2, <1>3
  <2>2. ASSUME NEW k \in P PROVE k <= i + 1 \/ j + 1 <= k
    <3>1. CASE k = 1
      BY <2>1, <3>1
    <3>2. CASE k # 1
      <4>1. k - 1 \in Q /\ k \in Nat
        BY <1>2, <1>4, <3>2
      <4>2. k - 1 <= i \/ j <= k - 1
        BY <1>9, <4>1
      <4> QED
        BY <2>1, <4>1, <4>2
    <3> QED
      BY <3>1, <3>2
  <2>3. i + 1 < j + 1
    BY <1>9, <2>1
  <2>4. s.queue[j + 1].first = s.queue[i + 1].last + 1
    BY <1>7, <2>1, <2>2, <2>3
  <2> QED
    BY <2>1, <2>4
<1>10. ASSUME Q = {}
       PROVE  t.used = m
  <2>1. \A k \in P : k = 1
    BY <1>4, <1>10
  <2>2. CASE 1 \in P
    <3>1. \A k \in P : k <= 1
      BY <2>1
    <3> QED
      BY <1>6, <1>7, <2>2, <3>1
  <2>3. CASE 1 \notin P
    BY <1>6, <1>7, <2>1, <2>3
  <2> QED
    BY <2>2, <2>3
<1>11. ASSUME NEW i \in Q, \A j \in Q : j <= i
       PROVE  t.used = t.queue[i].last
  <2>1. i + 1 \in P /\ i \in Nat /\ i > 0 /\ t.queue[i] = s.queue[i + 1]
    BY <1>2, <1>3
  <2>2. ASSUME NEW k \in P PROVE k <= i + 1
    <3>1. CASE k = 1
      BY <2>1, <3>1
    <3>2. CASE k # 1
      <4>1. k - 1 \in Q /\ k \in Nat
        BY <1>2, <1>4, <3>2
      <4>2. k - 1 <= i
        BY <1>11, <4>1
      <4> QED
        BY <2>1, <4>1, <4>2
    <3> QED
      BY <3>1, <3>2
  <2> QED
    BY <1>7, <2>1, <2>2
<1>12. \A i \in Q : t.queue[i].kind = "read" /\ t.queue[i].goal > 0
                       => t.queue[i].last = t.queue[i].goal
  BY <1>3, <1>7
<1>13. Follows(t, m)
  BY <1>8, <1>9, <1>10, <1>11, <1>12 DEF Follows, Q
<1> QED
  BY <1>13 DEF m

\* What is left when the first callback is taken from the queue.
LEMMA RestKeeps ==
    ASSUME NEW s, NEW t, NEW n, IoBase(s, n), s.queue # <<>>,
           IoSame(t, s, {"queue", "pending"}), t.queue = Tail(s.queue),
           \A i, j \in DOMAIN s.queue : IsError(s.queue[i]) /\ IsError(s.queue[j]) => i = j,
           t.pending = IF IsError(Head(s.queue)) THEN s.pending ELSE s.pending - 1
    PROVE  /\ IoBase(t, IF IsPiece(Head(s.queue)) THEN Head(s.queue).last ELSE n)
           /\ IsError(Head(s.queue)) => ~ErrorQueued(t)
<1> DEFINE cb == Head(s.queue)
           m == IF IsPiece(cb) THEN cb.last ELSE n
<1>1. /\ s.queue \in Seq(IoCallback) /\ s.pending \in Nat /\ Pending(s) /\ n \in Nat
      /\ \A i \in DOMAIN s.queue : IsError(s.queue[i]) => ~IsPiece(s.queue[i])
  BY DEF IoBase, IoTypes
<1>2. /\ t.queue \in Seq(IoCallback) /\ Len(s.queue) \in Nat /\ Len(t.queue) = Len(s.queue) - 1
      /\ cb = s.queue[1] /\ 1 \in DOMAIN s.queue
      /\ \A i \in DOMAIN t.queue :
            t.queue[i] = s.queue[i + 1] /\ i + 1 \in DOMAIN s.queue /\ i + 1 # 1
      /\ \A i \in DOMAIN s.queue : i # 1 => i - 1 \in DOMAIN t.queue /\ (i - 1) + 1 = i
  <2>1. /\ Tail(s.queue) \in Seq(IoCallback) /\ Len(s.queue) \in Nat
        /\ Len(Tail(s.queue)) = Len(s.queue) - 1
        /\ DOMAIN s.queue = 1 .. Len(s.queue) /\ DOMAIN Tail(s.queue) = 1 .. Len(s.queue) - 1
        /\ Head(s.queue) = s.queue[1] /\ 1 \in DOMAIN s.queue
        /\ \A i \in DOMAIN Tail(s.queue) :
              Tail(s.queue)[i] = s.queue[i + 1] /\ i + 1 \in DOMAIN s.queue
        /\ \A i \in DOMAIN s.queue : i # 1 => i - 1 \in DOMAIN Tail(s.queue)
    BY <1>1, TailFacts
  <2>2. \A i \in DOMAIN t.queue : i + 1 # 1
    BY <2>1
  <2>3. \A i \in DOMAIN s.queue : (i - 1) + 1 = i
    BY <2>1
  <2> QED
    BY <2>1, <2>2, <2>3
<1>3. /\ IoRecord(t) /\ t.open = s.open /\ t.reg = s.reg /\ t.closeCb = s.closeCb
      /\ t.touched = s.touched /\ t.eofOutside = s.eofOutside /\ t.read = s.read
      /\ t.want = s.want /\ t.num = s.num /\ t.goal = s.goal /\ t.wbuf = s.wbuf
      /\ t.got = s.got /\ t.used = s.used
  BY DEF IoSame, IoFields
<1>4. cb \in IoCallback
  BY <1>1, <1>2
<1>5. m \in Nat
  BY <1>1, <1>4 DEF IoCallback
<1>6. Follows(t, m)
  BY <1>1, <1>3, TailFollows DEF IoBase
<1>7. IsError(cb) => ~ErrorQueued(t)
  BY <1>2 DEF ErrorQueued
<1>8. ~IsError(cb) => (ErrorQueued(t) <=> ErrorQueued(s))
  <2>1. ASSUME ErrorQueued(t) PROVE ErrorQueued(s)
    BY <1>2, <2>1 DEF ErrorQueued
  <2>2. ASSUME ~IsError(cb), ErrorQueued(s) PROVE ErrorQueued(t)
    <3>1. PICK i \in DOMAIN s.queue : IsError(s.queue[i])
      BY <2>2 DEF ErrorQueued
    <3>2. i # 1
      BY <1>2, <2>2, <3>1
    <3>3. i - 1 \in DOMAIN t.queue /\ t.queue[i - 1] = s.queue[i]
      BY <1>2, <3>1, <3>2
    <3> QED
      BY <3>1, <3>3 DEF ErrorQueued
  <2> QED
    BY <2>1, <2>2
<1>9. IsError(cb) => ErrorQueued(s)
  BY <1>2 DEF ErrorQueued
<1> HIDE DEF cb, m
<1>10. Pending(t) /\ t.pending \in Nat
  <2>1. s.pending = Len(s.queue) - (IF ErrorQueued(s) THEN 1 ELSE 0)
    BY <1>1 DEF Pending
  <2>2. CASE IsError(cb)
    <3>1. t.pending = s.pending
      BY <2>2 DEF cb
    <3> QED
      BY <1>1, <1>2, <1>7, <1>9, <2>1, <2>2, <3>1 DEF Pending
  <2>3. CASE ~IsError(cb)
    <3>1. t.pending = s.pending - 1
      BY <2>3 DEF cb
    <3>2. CASE ErrorQueued(s)
      <4>1. Len(s.queue) >= 2
        <5>1. PICK i \in DOMAIN s.queue : IsError(s.queue[i])
          BY <3>2 DEF ErrorQueued
        <5>2. i # 1
          BY <1>2, <2>3, <5>1
        <5>3. i \in 1 .. Len(s.queue)
          BY <1>1, <5>1
        <5> QED
          BY <1>2, <5>2, <5>3
      <4> QED
        BY <1>1, <1>2, <1>8, <2>1, <2>3, <3>1, <3>2, <4>1 DEF Pending
    <3>3. CASE ~ErrorQueued(s)
      <4>1. Len(s.queue) >= 1
        <5>1. 1 \in 1 .. Len(s.queue)
          BY <1>1, <1>2
        <5> QED
          BY <1>2, <5>1
      <4>2. ~ErrorQueued(t)
        BY <1>8, <2>3, <3>3
      <4>3. s.pending = Len(s.queue)
        BY <1>2, <2>1, <3>3
      <4>4. t.pending = Len(t.queue) /\ Len(t.queue) \in Nat
        BY <1>2, <3>1, <4>1, <4>3
      <4> QED
        BY <4>2, <4>4 DEF Pending
    <3> QED
      BY <3>2, <3>3
  <2> QED
    BY <2>2, <2>3
<1>11. \A i \in DOMAIN t.queue : IsError(t.queue[i]) => ~IsPiece(t.queue[i])
  BY <1>1, <1>2
<1>12. IoTypes(t)
  BY <1>2, <1>3, <1>10, <1>11 DEF IoBase, IoTypes
<1>13. IoBase(t, m)
  BY <1>3, <1>5, <1>6, <1>10, <1>12 DEF IoBase, BufferRight, Registered, GoalAhead
<1> QED
  BY <1>7, <1>13 DEF m, cb

LEMMA CallbackRunKeeps ==
    ASSUME IoInv, Stream!RunCallback
    PROVE  IoInv'
<1> DEFINE q == stream.queue
           cb == Head(q)
           rest == [stream EXCEPT !.queue = Tail(@)]
<1>0. IoBase(stream, seen) /\ ReadsWanted(stream) /\ WritesWanted(stream)
  BY DEF IoInv
<1>1. IoRecord(stream) /\ q \in Seq(IoCallback) /\ Len(q) \in Nat
  BY <1>0, IoFacts
<1>2. /\ due \in 0 .. Len(q) /\ due > 0 /\ due' = due - 1 /\ arrived' = arrived
      /\ \A i, j \in DOMAIN q : IsError(q[i]) /\ IsError(q[j]) => i = j /\ i <= due
  BY DEF Stream!RunCallback, IoInv, ErrorDue
<1>3. q # <<>>
  BY <1>1, <1>2
<1>4. /\ Tail(q) \in Seq(IoCallback) /\ Len(Tail(q)) = Len(q) - 1
      /\ DOMAIN Tail(q) = 1 .. Len(q) - 1
      /\ cb = q[1] /\ 1 \in DOMAIN q
      /\ \A i \in DOMAIN Tail(q) : Tail(q)[i] = q[i + 1] /\ i + 1 \in DOMAIN q
  BY <1>1, <1>3, TailFacts
<1>5. IoSame(rest, stream, {"queue"}) /\ rest.queue = Tail(q)
  BY <1>1 DEF IoSame, IoRecord, IoFields
<1>6. due' \in 0 .. Len(Tail(q))
  BY <1>1, <1>2, <1>4
<1>7. CASE IsError(cb)
  <2> DEFINE t == Stream!CloseStream(rest)
  <2>1. stream' = t /\ inCallback' = inCallback /\ seen' = seen /\ inCallback = FALSE
    BY <1>7 DEF Stream!RunCallback, IsError, IoInv
  <2> HIDE DEF rest
  <2>2. rest.pending = stream.pending
    BY <1>5 DEF IoSame, IoFields
  <2>3. ~IsPiece(cb)
    BY <1>0, <1>4, <1>7 DEF IoBase, IoTypes
  <2>4. IoSame(rest, stream, {"queue", "pending"})
    BY <1>5 DEF IoSame
  <2>5. \A i, j \in DOMAIN q : IsError(q[i]) /\ IsError(q[j]) => i = j
    BY <1>2
  <2>6. IoBase(rest, seen) /\ ~ErrorQueued(rest)
    BY <1>0, <1>3, <1>5, <1>7, <2>2, <2>3, <2>4, <2>5, RestKeeps
  <2>7. IoBase(t, seen) /\ IoTold(rest, t) /\ TellsNow(t) /\ ~t.open
    BY <2>6, ClosingKeeps
  <2> HIDE DEF t
  <2>8. /\ Grown(Tail(q), t.queue) /\ Len(t.queue) \in Nat
        /\ DOMAIN t.queue = 1 .. Len(t.queue)
    BY <1>5, <2>7, IoFacts DEF IoTold, IoLater
  <2>9. \A i \in DOMAIN t.queue : ~IsError(t.queue[i])
    <3>1. ASSUME NEW i \in 1 .. Len(t.queue) PROVE ~IsError(t.queue[i])
      <4>1. CASE i <= Len(Tail(q))
        <5>1. i \in 1 .. Len(Tail(q)) /\ i \in DOMAIN Tail(q)
          BY <1>1, <1>4, <4>1
        <5>2. t.queue[i] = Tail(q)[i]
          BY <2>8, <5>1 DEF Grown
        <5>3. ~IsError(Tail(q)[i])
          BY <1>5, <2>6, <5>1 DEF ErrorQueued
        <5> QED
          BY <5>2, <5>3
      <4>2. CASE i > Len(Tail(q))
        BY <2>8, <4>2 DEF Grown
      <4> QED
        BY <1>1, <1>4, <4>1, <4>2
    <3> QED
      BY <2>8, <3>1
  <2>10. ErrorDue'
    <3>1. Len(Tail(q)) <= Len(t.queue)
      BY <2>8 DEF Grown
    <3>2. due' \in 0 .. Len(t.queue)
      BY <1>1, <1>4, <1>6, <2>8, <3>1
    <3> QED
      BY <2>1, <2>9, <3>2 DEF ErrorDue
  <2>11. ReadsWanted(t) /\ WritesWanted(t) /\ Listens(t, FALSE) /\ Told(t, FALSE)
    BY <2>7 DEF ReadsWanted, WritesWanted, Listens, Told, TellsNow
  <2> QED
    BY <1>2, <2>1, <2>7, <2>10, <2>11, StreamAfter
<1>8. CASE ~IsError(cb)
  <2> DEFINE t == [rest EXCEPT !.pending = @ - 1]
  <2>1. /\ stream' = t /\ inCallback' = TRUE
        /\ seen' = IF IsPiece(cb) THEN cb.last ELSE seen
    BY <1>8 DEF Stream!RunCallback, IsError, IsPiece
  <2> HIDE DEF rest
  <2>2. IoSame(t, rest, {"pending"}) /\ t.pending = rest.pending - 1
    BY <1>5 DEF IoSame, IoRecord, IoFields
  <2> HIDE DEF t
  <2>3. t.queue = Tail(q) /\ t.pending = stream.pending - 1
    BY <1>5, <2>2 DEF IoSame, IoFields
  <2>4. IoSame(t, stream, {"queue", "pending"})
    BY <1>5, <2>2 DEF IoSame
  <2>5. \A i, j \in DOMAIN q : IsError(q[i]) /\ IsError(q[j]) => i = j
    BY <1>2
  <2>6. IoBase(t, IF IsPiece(cb) THEN cb.last ELSE seen)
    BY <1>0, <1>3, <1>8, <2>3, <2>4, <2>5, RestKeeps
  <2>7. t.open = stream.open /\ t.read = stream.read /\ t.want = stream.want /\ t.wbuf = stream.wbuf
    BY <2>4 DEF IoSame, IoFields
  <2>8. ReadsWanted(t) /\ WritesWanted(t) /\ Told(t, TRUE) /\ Listens(t, TRUE)
    BY <1>0, <2>7 DEF ReadsWanted, WritesWanted, Told, Listens
  <2>9. ErrorDue'
    <3>1. ASSUME NEW i \in DOMAIN Tail(q), NEW j \in DOMAIN Tail(q),
                 IsError(Tail(q)[i]), IsError(Tail(q)[j])
          PROVE  i = j /\ i <= due'
      <4>1. i + 1 \in DOMAIN q /\ j + 1 \in DOMAIN q /\ IsError(q[i + 1]) /\ IsError(q[j + 1])
        BY <1>4, <3>1
      <4>2. i + 1 = j + 1 /\ i + 1 <= due
        BY <1>2, <4>1
      <4>3. i \in Int /\ j \in Int /\ due \in Int
        BY <1>2, <1>4
      <4> QED
        BY <1>2, <4>2, <4>3
    <3> QED
      BY <1>6, <2>1, <2>3, <3>1 DEF ErrorDue
  <2> QED
    BY <1>2, <2>1, <2>6, <2>8, <2>9, StreamAfter
<1> QED
  BY <1>7, <1>8

\* The steps that leave the stream alone.
LEMMA OthersKeep ==
    ASSUME IoInv, Stream!Iterate \/ Stream!PeerSends \/ Stream!PeerCloses \/ UNCHANGED ioVars
    PROVE  IoInv'
<1>0. IoBase(stream, seen) /\ BufferRight(stream)
  BY DEF IoInv, IoBase
<1>1. /\ stream' = stream /\ inCallback' = inCallback /\ seen' = seen
      /\ due' \in {due, Len(stream.queue)} /\ arrived' \in {arrived, arrived + 1}
  BY DEF Stream!Iterate, Stream!PeerSends, Stream!PeerCloses, ioVars
<1>2. BufferRight(stream)'
  BY <1>0, <1>1 DEF BufferRight
<1>3. IoBase(stream, seen)'
  BY <1>0, <1>1, <1>2 DEF IoBase
<1>4. ErrorDue'
  <2>1. /\ Len(stream.queue) \in Nat /\ DOMAIN stream.queue = 1 .. Len(stream.queue)
        /\ due \in 0 .. Len(stream.queue)
    BY <1>0, IoFacts DEF IoInv, ErrorDue
  <2>2. due' \in 0 .. Len(stream.queue)
    BY <1>1, <2>1
  <2>3. \A i, j \in DOMAIN stream.queue :
            IsError(stream.queue[i]) /\ IsError(stream.queue[j]) => i = j /\ i <= due
    BY DEF IoInv, ErrorDue
  <2>4. \A i \in DOMAIN stream.queue : i <= due => i <= due'
    BY <1>1, <2>1
  <2> QED
    BY <1>1, <2>2, <2>3, <2>4 DEF ErrorDue
<1>5. /\ inCallback' \in BOOLEAN /\ ReadsWanted(stream)' /\ WritesWanted(stream)'
      /\ Told(stream, inCallback)' /\ Listens(stream, inCallback)'
  BY <1>1 DEF IoInv, ReadsWanted, WritesWanted, Told, Listens
<1> QED
  BY <1>3, <1>4, <1>5 DEF IoInv

LEMMA IoNextKeeps ==
    ASSUME IoInv, [Stream!IONext]_ioVars
    PROVE  IoInv'
<1>1. CASE Stream!Application
  <2>1. ASSUME NEW m \in 0 .. 2, NEW streaming \in BOOLEAN, Stream!ReadBytes(m, streaming)
        PROVE  IoInv'
    BY <2>1, ReadBytesKeeps
  <2>2. ASSUME NEW streaming \in BOOLEAN, Stream!StartReadUntilClose(streaming)
        PROVE  IoInv'
    BY <2>2, UntilCloseKeeps
  <2>3. ASSUME NEW m \in 0 .. 1, NEW withCallback \in BOOLEAN, Stream!Write(m, withCallback)
        PROVE  IoInv'
    BY <2>3, WriteOpKeeps
  <2> QED
    BY <1>1, <2>1, <2>2, <2>3, ConnectKeeps, ReadUntilKeeps, CallbackSetKeeps, CloseOpKeeps
       DEF Stream!Application
<1>2. CASE Stream!RunCallback \/ Stream!CallbackReturns \/ Stream!CallbackRaises \/ Stream!PollEvent
  BY <1>2, CallbackRunKeeps, ReturnsKeeps, RaisesKeeps, PolledKeeps
<1> QED
  BY <1>1, <1>2, OthersKeep DEF Stream!IONext

LEMMA IoBegins == Stream!Init => IoInv
<1> SUFFICES ASSUME Stream!Init PROVE IoInv
  OBVIOUS
<1>1. PICK ssl \in BOOLEAN, dialing \in BOOLEAN : stream = Stream!Fresh(ssl, dialing)
  BY DEF Stream!Init
<1> DEFINE s == Stream!Fresh(ssl, dialing)
<1>2. /\ IoRecord(s) /\ s.open = TRUE /\ s.reg = FALSE /\ s.closeCb = FALSE
      /\ s.touched = FALSE /\ s.eofOutside = FALSE /\ s.read = "none" /\ s.want = {}
      /\ s.num = 0 /\ s.goal = 0 /\ s.wbuf = 0 /\ s.pending = 0 /\ s.queue = <<>>
      /\ s.got = 0 /\ s.used = 0
  BY DEF Stream!Fresh, IoRecord, IoFields
<1>3. inCallback = FALSE /\ due = 0 /\ arrived = 0 /\ seen = 0
  BY DEF Stream!Init
<1> HIDE DEF s
<1>4. <<>> \in Seq(IoCallback) /\ Len(<<>>) = 0 /\ DOMAIN <<>> = {}
  OBVIOUS
<1>5. IoTypes(s)
  <2>1. s.queue \in Seq(IoCallback) /\ DOMAIN s.queue = {}
    BY <1>2, <1>4
  <2>2. s.wbuf \in Int /\ s.num \in Nat /\ s.goal \in Nat /\ s.pending \in Nat
    <3> HIDE DEF IoRecord
    <3> QED
      BY <1>2
  <2> QED
    BY <1>2, <2>1, <2>2 DEF IoTypes
<1>6. BufferRight(s)
  BY <1>2, <1>3, SizesAssumption DEF BufferRight
<1>7. Pending(s) /\ Registered(s) /\ GoalAhead(s)
  BY <1>2, <1>4 DEF Pending, ErrorQueued, Registered, GoalAhead
<1>8. Follows(s, 0)
  BY <1>2, <1>4 DEF Follows
<1>9. IoBase(s, 0)
  BY <1>5, <1>6, <1>7, <1>8 DEF IoBase
<1>10. s = stream
  BY <1>1 DEF s
<1>11. ErrorDue
  BY <1>2, <1>3, <1>4, <1>10 DEF ErrorDue
<1>12. ReadsWanted(s) /\ WritesWanted(s) /\ Told(s, FALSE) /\ Listens(s, FALSE)
  BY <1>2 DEF ReadsWanted, WritesWanted, Told, Listens
<1> QED
  BY <1>3, <1>9, <1>10, <1>11, <1>12 DEF IoInv

\* At rest nothing is queued, so that nothing is pending.
LEMMA IoAttends == IoInv => Attended
<1> SUFFICES ASSUME IoInv PROVE Stream!NeverDeaf /\ (Stream!CloseCallbackRuns \/ stream.eofOutside)
  BY DEF Attended, Stream!Attended
<1>1. IoBase(stream, seen) /\ Registered(stream)
  BY DEF IoInv, IoBase
<1>2. ASSUME Stream!Quiet PROVE stream.pending = 0 /\ ~inCallback
  <2>1. stream.queue = <<>>
    BY <1>2 DEF Stream!Quiet
  <2>2. Len(stream.queue) = 0 /\ DOMAIN stream.queue = {}
    BY <2>1
  <2>3. Pending(stream)
    BY <1>1 DEF IoBase
  <2>4. ~ErrorQueued(stream)
    BY <2>2 DEF ErrorQueued
  <2>5. stream.pending = Len(stream.queue) - 0
    BY <2>3, <2>4 DEF Pending
  <2>6. stream.pending = 0
    BY <2>2, <2>5
  <2> QED
    BY <1>2, <2>6 DEF Stream!Quiet
<1>3. Stream!NeverDeaf
  <2>1. ASSUME Stream!Quiet, stream.open, stream.touched
        PROVE  /\ stream.reg /\ stream.want # {}
               /\ stream.read # "none" => "R" \in stream.want
               /\ stream.wbuf > 0 => "W" \in stream.want
    BY <1>1, <1>2, <2>1 DEF IoInv, Listens, Registered, ReadsWanted, WritesWanted
  <2> QED
    BY <2>1 DEF Stream!NeverDeaf
<1>4. Stream!CloseCallbackRuns \/ stream.eofOutside
  BY <1>2 DEF Stream!CloseCallbackRuns, IoInv, Told
<1> QED
  BY <1>3, <1>4

\* The last of some places in a sequence.
LEMMA LastPlace ==
    ASSUME NEW N \in Nat, NEW S \in SUBSET (1 .. N), S # {}
    PROVE  Stream!Max(S) \in S /\ \A i \in S : i <= Stream!Max(S)
<1>1. PICK n \in S : \A i \in S : n >= i
  BY HighestExists
<1>2. Stream!Max(S) \in S /\ \A i \in S : Stream!Max(S) >= i
  BY <1>1 DEF Stream!Max
<1> QED
  BY <1>2

LEMMA IoInOrder == IoInv => BytesInOrder
<1> SUFFICES ASSUME IoInv PROVE Stream!BytesInOrder
  BY DEF BytesInOrder
<1> DEFINE q == stream.queue
           P == {i \in DOMAIN q : q[i].last >= q[i].first}
           R(before) == IF before = {} THEN seen ELSE q[Stream!Max(before)].last
<1>0. IoBase(stream, seen)
  BY DEF IoInv
<1>1. DOMAIN q = 1 .. Len(q) /\ Len(q) \in Nat
  BY <1>0, IoFacts
<1>2. /\ \A i \in P : (\A j \in P : i <= j) => q[i].first = seen + 1
      /\ \A i, j \in P :
            i < j /\ (\A k \in P : k <= i \/ j <= k) => q[j].first = q[i].last + 1
      /\ P = {} => stream.used = seen
      /\ \A i \in P : (\A j \in P : j <= i) => stream.used = q[i].last
      /\ \A i \in P : q[i].kind = "read" /\ q[i].goal > 0 => q[i].last = q[i].goal
  BY <1>0 DEF IoBase, Follows, IsPiece
<1>3. P \in SUBSET (1 .. Len(q)) /\ \A i \in P : i \in Int
  BY <1>1
<1> HIDE DEF P
<1>4. ASSUME NEW i \in P PROVE q[i].first = R({j \in P : j < i}) + 1
  <2> DEFINE B == {j \in P : j < i}
  <2>1. CASE B = {}
    <3>1. \A j \in P : i <= j
      BY <1>3, <2>1
    <3> QED
      BY <1>2, <2>1, <3>1
  <2>2. CASE B # {}
    <3> DEFINE m == Stream!Max(B)
    <3>1. B \in SUBSET (1 .. Len(q))
      BY <1>3
    <3>2. m \in B /\ \A k \in B : k <= m
      BY <1>1, <2>2, <3>1, LastPlace
    <3> HIDE DEF m
    <3>3. m \in P /\ m < i
      BY <3>2
    <3>4. ASSUME NEW k \in P PROVE k <= m \/ i <= k
      <4>1. k < i \/ i <= k
        BY <1>3
      <4> QED
        BY <3>2, <4>1
    <3>5. q[i].first = q[m].last + 1
      BY <1>2, <3>3, <3>4
    <3> QED
      BY <2>2, <3>5 DEF m
  <2> QED
    BY <2>1, <2>2
<1>5. stream.used = R(P)
  <2>1. CASE P = {}
    BY <1>2, <2>1
  <2>2. CASE P # {}
    <3>1. Stream!Max(P) \in P /\ \A j \in P : j <= Stream!Max(P)
      BY <1>1, <1>3, <2>2, LastPlace
    <3> QED
      BY <1>2, <2>2, <3>1
  <2> QED
    BY <2>1, <2>2
<1> QED
  BY <1>2, <1>4, <1>5 DEF Stream!BytesInOrder, P

LEMMA StreamAlone == [ServicesNext]_servicesVars => [Stream!IONext]_ioVars
BY DEF ServicesNext, servicesVars, connectionVars, StreamRuns, HttpRuns, WebRuns, TcpRuns,
       GenRuns, StackRuns, CurlRuns, ForkRuns, ParserRuns, BlocksRun, ReactorRuns, StaticRuns,
       ServiceRuns, BlackListRuns, Runs, ioVars

LEMMA IoAlways == ServicesSpec => []IoInv
<1>1. ServicesInit => IoInv
  BY IoBegins DEF ServicesInit
<1>2. IoInv /\ [ServicesNext]_servicesVars => IoInv'
  BY StreamAlone, IoNextKeeps
<1> QED
  BY <1>1, <1>2, PTL DEF ServicesSpec

(* Whatever the peer, the kernel and the application do, a stream with     *)
(* nothing in the queue listens for what it waits for, and a closed one    *)
(* has called its close callback (but for the case of eofOutside).         *)
THEOREM StreamsAlwaysAttended == ServicesSpec => []Attended
BY IoAlways, IoAttends, PTL

(* The callbacks get every byte once and in order, however reads are       *)
(* served: at once, by events, in streamed chunks or by the end of the     *)
(* connection, for any delimiters and any size of the buffer.              *)
THEOREM BytesAlwaysInOrder == ServicesSpec => []BytesInOrder
BY IoAlways, IoInOrder, PTL
=============================================================================

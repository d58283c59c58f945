--------------------------- MODULE CurlHTTPClient ---------------------------
(***************************************************************************)
(* tornado.curl_httpclient: CurlAsyncHTTPClient, which runs requests on a  *)
(* fixed pool of libcurl handles.                                          *)
(*                                                                         *)
(* libcurl is external: told of a socket event, a timeout or the periodic  *)
(* scan, it may complete any of the transfers it was given, and reports    *)
(* the handles in any order.  A response callback may fetch again or raise.*)
(***************************************************************************)
EXTENDS Integers, Sequences, SequencesExt

CONSTANTS
    Handles,       \* the pool: max_clients of them
    MaxRequests    \* bound: calls of fetch

VARIABLES
    curl,        \* the client and the handles libcurl runs
    asked        \* the requests given to fetch

curlVars == <<curl, asked>>

Nothing == 0
CurlInit ==
    /\ curl = [queue |-> <<>>, free |-> SetToSeq(Handles), info |-> [h \in Handles |-> Nothing],
               multi |-> {}, timer |-> FALSE, completed |-> <<>>, raised |-> FALSE]
    /\ asked = <<>>

-----------------------------------------------------------------------------
(* The methods, on the state [curl, asked]; curl.raised says that an       *)
(* exception left _process_queue.                                          *)

\* The requests are taken in order, one for each free handle, until the setup of one
\* raises (for an unknown method, say).
Fits(s, n) ==
    n <= Len(s.curl.free) /\ \A k \in 1 .. n - 1 : s.asked[s.curl.queue[k]].valid
Takes(s) ==
    CHOOSE n \in 0 .. Len(s.curl.queue) :
        Fits(s, n) /\ \A m \in 0 .. Len(s.curl.queue) : Fits(s, m) => m <= n

\* The free handles are a stack.
Handle(s, k) == s.curl.free[Len(s.curl.free) + 1 - k]

\* The mutated form of Popped: the handles that are used stay in the free list.
Used(s, n) == [s EXCEPT !.curl.queue = SubSeq(@, n + 1, Len(@))]
Popped(s, n) ==
    [s EXCEPT !.curl.queue = SubSeq(@, n + 1, Len(@)),
              !.curl.free = SubSeq(@, 1, Len(@) - n)]

\* The setup of libcurl for the request, which may raise.
Started(entry) == [entry EXCEPT !.at = IF entry.valid THEN "running" ELSE "dropped"]

\* Each handle is told its request, is set up for it and given to libcurl.  Of a request
\* whose setup raises, neither the handle nor the request is put back.
ProcessQueue(s) ==
    LET taken == 1 .. Takes(s)
        request(k) == s.curl.queue[k]
        good == {k \in taken : s.asked[request(k)].valid}
        Place(h) == {k \in taken : Handle(s, k) = h}
        New(h) == request(CHOOSE k \in Place(h) : TRUE)
        Took(r) == \E k \in taken : request(k) = r
    IN  [Popped(s, Takes(s)) EXCEPT
            !.curl.info = [h \in Handles |-> IF Place(h) # {} THEN New(h) ELSE s.curl.info[h]],
            !.curl.multi = s.curl.multi \cup {Handle(s, k) : k \in good},
            !.curl.raised = good # taken,
            !.asked = [r \in DOMAIN s.asked |-> IF Took(r) THEN Started(s.asked[r])
                                                ELSE s.asked[r]]]

\* fetch: its caller gets the exception, else a timer calls libcurl at once.
Fetch(s, valid) ==
    LET r == Len(s.asked) + 1
        new == [valid |-> valid, at |-> "queued", answers |-> 0]
        t == ProcessQueue([s EXCEPT !.asked = Append(@, new), !.curl.queue = Append(@, r)])
    IN  IF ~t.curl.raised THEN [t EXCEPT !.curl.timer = TRUE]
        ELSE IF t.asked[r].at = "dropped" THEN [t EXCEPT !.asked[r].at = "refused"]
        ELSE t

\* What a response callback may do; what it raises is logged.
Reactions == {"none", "fetch", "bad fetch"}

\* _finish: the handle is free again before the callback runs.
Finish(s, h, reaction) ==
    LET r == s.curl.info[h]
        t == [s EXCEPT !.curl.info[h] = Nothing, !.curl.free = Append(@, h),
                       !.curl.multi = @ \ {h},
                       !.asked[r].at = "answered", !.asked[r].answers = @ + 1]
    IN  IF reaction = "none" \/ Len(s.asked) = MaxRequests THEN t
        ELSE Fetch(t, reaction = "fetch")

AtTheEnd(s) == ProcessQueue(s)

-----------------------------------------------------------------------------
Becomes(s) == curl' = s.curl /\ asked' = s.asked
State == [curl |-> curl, asked |-> asked]
Idle == curl.completed = <<>>

ApplicationFetches ==
    /\ Idle /\ Len(asked) < MaxRequests
    /\ \E valid \in BOOLEAN : Becomes(Fetch(State, valid))

\* _handle_events, _handle_timeout and _handle_force_timeout: libcurl runs and may have
\* completed transfers, whose handles info_read reports.
LibcurlRuns ==
    /\ Idle
    /\ \E because \in {"events", "scan"} \cup (IF curl.timer THEN {"timeout"} ELSE {}),
          done \in SUBSET curl.multi :
          /\ done = {} => because # "events"
          /\ \E order \in SetToSeqs(done) :
               LET t == [State EXCEPT !.curl.completed = order,
                                      !.curl.timer = @ /\ because # "timeout"]
               IN  Becomes(IF done = {} THEN AtTheEnd(t) ELSE t)

\* _finish_pending_requests: one completed transfer after the other, then the queue.
FinishPending ==
    /\ ~Idle
    /\ \E reaction \in Reactions :
          LET t == Finish([State EXCEPT !.curl.completed = Tail(@)], Head(curl.completed), reaction)
          IN  Becomes(IF t.curl.completed = <<>> THEN AtTheEnd(t) ELSE t)

CurlNext == ApplicationFetches \/ LibcurlRuns \/ FinishPending

CurlSpec == CurlInit /\ [][CurlNext]_curlVars
-----------------------------------------------------------------------------
\* The pool stays sound, although callbacks fetch while completed handles wait for their
\* turn: a handle is free once, has no request then and is not in libcurl, or has a
\* request; one that is in libcurl runs the request it has, which is answered once, and
\* one that is neither has a request whose setup raised.  No request waits while a handle
\* is free, unless the last setup raised.
PoolIsSound ==
    /\ IsInjective(curl.free)
    /\ \A h \in Handles : h \in ToSet(curl.free) <=> curl.info[h] = Nothing
    /\ \A h \in Handles : curl.info[h] # Nothing =>
          asked[curl.info[h]].at \in (IF h \in curl.multi THEN {"running"} ELSE {"dropped", "refused"})
    /\ \A h \in curl.multi : curl.info[h] # Nothing
    /\ \A r \in DOMAIN asked : asked[r].answers = (IF asked[r].at = "answered" THEN 1 ELSE 0)
NoIdleHandle == Idle /\ curl.queue # <<>> => curl.free = <<>> \/ curl.raised
HandlesServe == PoolIsSound /\ NoIdleHandle
=============================================================================

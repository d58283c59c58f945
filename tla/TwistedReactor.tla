--------------------------- MODULE TwistedReactor ---------------------------
(***************************************************************************)
(* tornado.platform.twisted: a Twisted reactor on an IOLoop.  Twisted asks *)
(* it to watch objects for reading and for writing, and to call functions  *)
(* later; it asks the IOLoop for one handler per descriptor, and for a     *)
(* timeout per delayed call.                                               *)
(*                                                                         *)
(* Twisted's code is any program that keeps Twisted's own rules: an object *)
(* stops reading and writing before it closes its socket, and a delayed    *)
(* call is only changed while it is active.  It runs in a callback of the  *)
(* loop or within _invoke_callback: in doRead, doWrite or in what an       *)
(* object does about a lost connection.                                    *)
(***************************************************************************)
EXTENDS Integers

CONSTANTS
    Objects,    \* the FileDescriptor objects of Twisted
    Fds,        \* bound: the numbers that sockets may get
    Calls,      \* the delayed calls
    MaxTime     \* bound: the clock, and the times of calls

Null == "none"
Closed == -1    \* the fileno of a closed object
Never == -1     \* the time of a delayed call that is not active
Sides == {"READ", "WRITE"}
ASSUME ReactorAssumption == Null \notin Objects /\ Fds \subseteq Nat

VARIABLES
    reactor,    \* asked: _readers and _writers; fds: _fds, all Null where no entry is;
                \* handlers: the events the IOLoop polls for, {} without a handler
    invoked,    \* the _invoke_callback in progress: its step, or "no"
    fileno,     \* what fileno() of an object returns
    wants,      \* the sides an object has asked for, and not been told lost
    delayed,    \* the time of each delayed call that is active, or Never
    delayedCalls,  \* _delayedCalls
    timeouts,   \* the timeouts of the IOLoop: call and deadline
    time

reactorVars == <<reactor, invoked, fileno, wants, delayed, delayedCalls, timeouts, time>>
fdVars == <<reactor, invoked, fileno, wants>>
timeVars == <<delayed, delayedCalls, timeouts, time>>

Other(side) == CHOOSE s \in Sides : s # side
Nobody == [s \in Sides |-> Null]
Idle == [step |-> "no", side |-> "READ", objects |-> Nobody, events |-> {}]

ReactorInit ==
    /\ reactor = [asked |-> [s \in Sides |-> [o \in Objects |-> Closed]],
                  fds |-> [d \in Fds |-> Nobody], handlers |-> [d \in Fds |-> {}]]
    /\ invoked = Idle
    /\ fileno = [o \in Objects |-> Closed]
    /\ wants = [o \in Objects |-> {}]
    /\ delayed = [c \in Calls |-> Never]
    /\ delayedCalls = {}
    /\ timeouts = {}
    /\ time = 0

-----------------------------------------------------------------------------
(* addReader, addWriter, removeReader and removeWriter.                    *)

Asked(r, s, o) == r.asked[s][o] # Closed

\* The events the handler of d is updated to, or added with.
\* The mutated form of Interest: the update forgets what it was registered for.
InterestInLast(r, d, s) == {s}
Interest(r, d, s) == {s} \cup (IF r.fds[d][Other(s)] # Null THEN {Other(s)} ELSE {})

\* Nothing is updated when the descriptor has an entry of the same side only.
AddSide(r, s, o) ==
    LET d == fileno[o]
        known == r.fds[d] # Nobody /\ r.fds[d][Other(s)] = Null
    IN  IF Asked(r, s, o) THEN r
        ELSE [asked |-> [r.asked EXCEPT ![s][o] = d],
              fds |-> [r.fds EXCEPT ![d][s] = o],
              handlers |-> IF known THEN r.handlers
                           ELSE [r.handlers EXCEPT ![d] = Interest(r, d, s)]]

\* The handler is updated to the other side, or removed when there is none.
RemoveSide(r, s, o) ==
    LET d == r.asked[s][o]
        other == r.fds[d][Other(s)]
    IN  IF ~Asked(r, s, o) THEN r
        ELSE [asked |-> [r.asked EXCEPT ![s][o] = Closed],
              fds |-> [r.fds EXCEPT ![d][s] = Null],
              handlers |-> [r.handlers EXCEPT ![d] = IF other # Null THEN {Other(s)} ELSE {}]]

RemoveBoth(r, o) == RemoveSide(RemoveSide(r, "READ", o), "WRITE", o)

-----------------------------------------------------------------------------
(* _invoke_callback: the reader first, then the writer; both were taken    *)
(* from _fds before the reader ran.                                        *)

Handler(d, events) ==
    /\ invoked.step = "no"
    /\ reactor.handlers[d] # {}
    /\ events # {} /\ events \subseteq reactor.handlers[d] \cup {"ERROR"}
    /\ invoked' = [step |-> "turn", side |-> "READ", objects |-> reactor.fds[d], events |-> events]
    /\ UNCHANGED <<reactor, fileno, wants, timeVars>>

current == invoked.objects[invoked.side]
Gone == fileno[current] = Closed
OnTo(step) == [invoked EXCEPT !.step = step]
NextSide == IF invoked.side = "READ" THEN [invoked EXCEPT !.side = "WRITE", !.step = "turn"] ELSE Idle

\* doRead or doWrite begins.
DoIO ==
    /\ invoked.step = "turn" /\ current # Null
    /\ ~Gone /\ invoked.side \in invoked.events
    /\ invoked' = OnTo("doIO")
    /\ UNCHANGED <<reactor, fileno, wants, timeVars>>

\* It has an error, or it is skipped; the object is removed, and hears of it.
ConnectionLost ==
    /\ reactor' = RemoveSide(reactor, invoked.side, current)
    /\ wants' = [wants EXCEPT ![current] = @ \ {invoked.side}]
    /\ invoked' = OnTo("lost")

Judge(err) ==
    /\ IF err THEN ConnectionLost ELSE invoked' = NextSide /\ UNCHANGED <<reactor, wants>>
    /\ UNCHANGED <<fileno, timeVars>>

DoIOReturns ==
    /\ invoked.step = "doIO"
    /\ \E failed \in BOOLEAN : Judge(failed \/ "ERROR" \in invoked.events)

SkipIO ==
    /\ invoked.step = "turn" /\ current # Null
    /\ Gone \/ invoked.side \notin invoked.events
    /\ Judge(Gone \/ "ERROR" \in invoked.events)

\* No object on this side, or it has heard of its loss.
SideEnds ==
    /\ \/ invoked.step = "turn" /\ current = Null
       \/ invoked.step = "lost"
    /\ invoked' = NextSide
    /\ UNCHANGED <<reactor, fileno, wants, timeVars>>

-----------------------------------------------------------------------------
(* Twisted's code.                                                         *)

TwistedRuns == invoked.step \in {"no", "doIO", "lost"}

\* The kernel gives the lowest number that is free; o stands for a new object, so that
\* it is not one that _invoke_callback holds.
Unused == {d \in Fds : \A o \in Objects : fileno[o] # d}
OpenSocket(o) ==
    /\ TwistedRuns /\ fileno[o] = Closed
    /\ \A s \in Sides : invoked.objects[s] # o
    /\ \E d \in Unused :
        /\ \A e \in Unused : d <= e
        /\ fileno' = [fileno EXCEPT ![o] = d]
    /\ UNCHANGED <<reactor, invoked, wants, timeVars>>

StartSide(s, o) ==
    /\ TwistedRuns /\ fileno[o] # Closed
    /\ reactor' = AddSide(reactor, s, o)
    /\ wants' = [wants EXCEPT ![o] = @ \cup {s}]
    /\ UNCHANGED <<invoked, fileno, timeVars>>

StopSide(s, o) ==
    /\ TwistedRuns
    /\ reactor' = RemoveSide(reactor, s, o)
    /\ wants' = [wants EXCEPT ![o] = @ \ {s}]
    /\ UNCHANGED <<invoked, fileno, timeVars>>

\* connectionLost of an object: stopReading, stopWriting and closing the socket.
CloseSocket(o) ==
    /\ TwistedRuns /\ fileno[o] # Closed
    /\ reactor' = RemoveBoth(reactor, o)
    /\ wants' = [wants EXCEPT ![o] = {}]
    /\ fileno' = [fileno EXCEPT ![o] = Closed]
    /\ UNCHANGED <<invoked, timeVars>>

\* removeReader and removeWriter of all that are known.
Emptied(r) ==
    [asked |-> [s \in Sides |-> [o \in Objects |-> Closed]],
     fds |-> [d \in Fds |-> [s \in Sides |->
                 IF \E o \in Objects : r.asked[s][o] = d THEN Null ELSE r.fds[d][s]]],
     handlers |-> [d \in Fds |->
                 IF \E o \in Objects, s \in Sides : r.asked[s][o] = d THEN {} ELSE r.handlers[d]]]

RemoveAll ==
    /\ TwistedRuns
    /\ reactor' = Emptied(reactor)
    /\ wants' = [o \in Objects |-> {}]
    /\ UNCHANGED <<invoked, fileno, timeVars>>

-----------------------------------------------------------------------------
(* Delayed calls.                                                          *)

Timeout(c, at) == [call |-> c, deadline |-> at]
Active(c) == TwistedRuns /\ delayed[c] # Never

\* callLater makes the call; delay and reset replace its timeout by another one.
CallLater(c) ==
    /\ TwistedRuns /\ delayed[c] = Never
    /\ \E at \in time .. MaxTime :
        /\ delayed' = [delayed EXCEPT ![c] = at]
        /\ timeouts' = timeouts \cup {Timeout(c, at)}
    /\ delayedCalls' = delayedCalls \cup {c}
    /\ UNCHANGED <<fdVars, time>>

Replace(c, at) ==
    /\ delayed' = [delayed EXCEPT ![c] = at]
    /\ timeouts' = (timeouts \ {Timeout(c, delayed[c])}) \cup {Timeout(c, at)}
    /\ UNCHANGED <<fdVars, delayedCalls, time>>
Delay(c) == Active(c) /\ \E at \in delayed[c] .. MaxTime : Replace(c, at)
Reset(c) == Active(c) /\ \E at \in time .. MaxTime : Replace(c, at)

Ended(c) ==
    /\ delayed' = [delayed EXCEPT ![c] = Never]
    /\ delayedCalls' = delayedCalls \ {c}
    /\ UNCHANGED <<fdVars, time>>

Cancel(c) ==
    /\ Active(c)
    /\ timeouts' = timeouts \ {Timeout(c, delayed[c])}
    /\ Ended(c)

\* The IOLoop runs the timeout that is due first; Twisted's function comes after this step.
Called(t) ==
    /\ invoked.step = "no"
    /\ t.deadline <= time
    /\ \A u \in timeouts : t.deadline <= u.deadline
    /\ timeouts' = timeouts \ {t}
    /\ Ended(t.call)

Tick ==
    /\ time < MaxTime
    /\ time' = time + 1
    /\ UNCHANGED <<fdVars, delayed, delayedCalls, timeouts>>

ReactorNext ==
    \/ \E d \in Fds, events \in SUBSET (Sides \cup {"ERROR"}) : Handler(d, events)
    \/ DoIO \/ DoIOReturns \/ SkipIO \/ SideEnds
    \/ \E o \in Objects : OpenSocket(o) \/ CloseSocket(o)
    \/ \E o \in Objects, s \in Sides : StartSide(s, o) \/ StopSide(s, o)
    \/ RemoveAll
    \/ \E c \in Calls : CallLater(c) \/ Delay(c) \/ Reset(c) \/ Cancel(c)
    \/ \E t \in timeouts : Called(t)
    \/ Tick

ReactorSpec == ReactorInit /\ [][ReactorNext]_reactorVars
-----------------------------------------------------------------------------
(* The loop polls each open socket for exactly what its object has asked   *)
(* and has not been told lost, and no closed one: whatever an object did   *)
(* to itself or to others while it was called, and although a number may   *)
(* have a new owner before the writer's turn (addReader to removeWriter,   *)
(* _invoke_callback).  Otherwise a connection hangs, or a socket inherits  *)
(* the handler of an earlier one.                                          *)
PollsWhatIsAsked ==
    /\ \A o \in Objects : fileno[o] # Closed => reactor.handlers[fileno[o]] = wants[o]
    /\ \A d \in Unused : reactor.handlers[d] = {}

(* However often a call is put off, exactly the calls of getDelayedCalls   *)
(* still come, each once and at the time last given.                       *)
CallsWhatIsListed == timeouts = {Timeout(c, delayed[c]) : c \in delayedCalls}

TwistedIsServed == PollsWhatIsAsked /\ CallsWhatIsListed
=============================================================================

------------------------------- MODULE IOLoop -------------------------------
(***************************************************************************)
(* tornado.ioloop.IOLoop, the event loop under the blacklist service.      *)
(*                                                                         *)
(* One thread runs start(): it takes the queued callbacks, runs them, runs *)
(* the timeouts that are due, waits in poll() and runs the handlers of the *)
(* descriptors that are ready.  The code it calls (a callback, a timeout,  *)
(* a handler) may call back into the loop: "user" says that such code is   *)
(* running, and the User actions are what it may do before it returns.     *)
(* A second thread calls add_callback, the only operation that may come    *)
(* from another thread: the append under the lock and the write to the     *)
(* waker pipe are two steps.                                               *)
(***************************************************************************)
EXTENDS Integers, Sequences

CONSTANTS
    Fds,            \* descriptors other than the waker's
    Waker,          \* the read end of the waker pipe
    MaxCallbacks,   \* bound: callbacks ever added
    MaxTimeouts,    \* bound: timeouts ever added
    MaxTime,        \* bound: the clock stops here
    MaxRegs,        \* bound: registrations of descriptors
    MaxStarts       \* bound: calls of start()

ASSUME IOLoopAssumption ==
    /\ Waker \notin Fds
    /\ MaxCallbacks \in Nat /\ MaxTimeouts \in Nat /\ MaxTime \in Nat
    /\ MaxRegs \in Nat /\ MaxStarts \in Nat

VARIABLES
    pc,         \* where start() is; "idle" outside start()
    user,       \* the kind of code the loop is calling, or "none"
    running,    \* _running
    stopped,    \* _stopped
    callbacks,  \* _callbacks; a callback is its number in the order of adding
    batch,      \* the local list of start(): the callbacks of this iteration
    timeouts,   \* the timeouts, [deadline, state]; pending and cancelled ones are in the heap
    now,        \* the time start() read for this iteration
    pollUntil,  \* when poll() gives up: the clock value, or Never
    handlers,   \* _handlers: the number of the registration of a descriptor, or 0
    events,     \* _events: the registration an event was polled for, or 0
    pipe,       \* bytes wait in the waker pipe
    adder,      \* the other thread: "idle", or "wake" between the append and wake()
    clock,
    added,      \* callbacks added so far
    ran,        \* callbacks run so far
    regs,       \* registrations so far
    starts,     \* calls of start() so far
    closed      \* close() was called

loopVars == <<pc, user, running, stopped, batch, now, pollUntil, starts, closed>>
vars == <<loopVars, callbacks, timeouts, handlers, events, pipe, adder,
          clock, added, ran, regs>>

Never == MaxTime + 1
AllFds == Fds \cup {Waker}
Heap == {t \in DOMAIN timeouts : timeouts[t].state \in {"pending", "cancelled"}}
Heads == {t \in Heap : \A u \in Heap : timeouts[t].deadline <= timeouts[u].deadline}

TypeOK ==
    /\ pc \in {"idle", "swap", "callbacks", "now", "timeouts", "check", "poll", "events"}
    /\ user \in {"none", "callback", "timeout", "handler"}
    /\ running \in BOOLEAN /\ stopped \in BOOLEAN /\ pipe \in BOOLEAN /\ closed \in BOOLEAN
    /\ callbacks \in Seq(1 .. MaxCallbacks) /\ batch \in Seq(1 .. MaxCallbacks)
    /\ timeouts \in Seq([deadline : 0 .. MaxTime,
                         state : {"pending", "cancelled", "run", "dropped"}])
    /\ now \in 0 .. MaxTime /\ clock \in 0 .. MaxTime
    /\ pollUntil \in 0 .. Never
    /\ handlers \in [AllFds -> 0 .. MaxRegs + 1] /\ events \in [AllFds -> 0 .. MaxRegs + 1]
    /\ adder \in {"idle", "wake"}
    /\ added \in 0 .. MaxCallbacks /\ ran \in 0 .. MaxCallbacks
    /\ regs \in 0 .. MaxRegs /\ starts \in 0 .. MaxStarts

\* The waker is registered by the constructor, as registration MaxRegs + 1.
Init ==
    /\ pc = "idle" /\ user = "none" /\ running = FALSE /\ stopped = FALSE
    /\ callbacks = <<>> /\ batch = <<>> /\ timeouts = <<>>
    /\ now = 0 /\ clock = 0 /\ pollUntil = Never
    /\ handlers = [fd \in AllFds |-> IF fd = Waker THEN MaxRegs + 1 ELSE 0]
    /\ events = [fd \in AllFds |-> 0]
    /\ pipe = FALSE /\ adder = "idle" /\ closed = FALSE
    /\ added = 0 /\ ran = 0 /\ regs = 0 /\ starts = 0

-----------------------------------------------------------------------------
(* The loop thread inside start().                                         *)

Loop(where) == pc = where /\ user = "none"
Go(where) == pc' = where

Start ==
    /\ Loop("idle") /\ ~closed /\ starts < MaxStarts
    /\ starts' = starts + 1
    /\ \/ /\ stopped
          /\ stopped' = FALSE
          /\ UNCHANGED <<pc, running>>
       \/ /\ ~stopped
          /\ running' = TRUE
          /\ Go("swap")
          /\ UNCHANGED stopped
    /\ UNCHANGED <<user, batch, now, pollUntil, closed, callbacks, timeouts, handlers,
                   events, pipe, adder, clock, added, ran, regs>>

\* Callbacks added from here on run in the next iteration.
TakeCallbacks ==
    /\ Loop("swap")
    /\ batch' = callbacks
    /\ callbacks' = <<>>
    /\ pollUntil' = Never
    /\ Go("callbacks")
    /\ UNCHANGED <<user, running, stopped, now, starts, closed, timeouts, handlers,
                   events, pipe, adder, clock, added, ran, regs>>

RunCallback ==
    /\ Loop("callbacks")
    /\ \/ /\ batch # <<>>
          /\ batch' = Tail(batch)
          /\ ran' = ran + 1
          /\ user' = "callback"
          /\ UNCHANGED pc
       \/ /\ batch = <<>>
          /\ Go("now")
          /\ UNCHANGED <<batch, ran, user>>
    /\ UNCHANGED <<running, stopped, now, pollUntil, starts, closed, callbacks, timeouts,
                   handlers, events, pipe, adder, clock, added, regs>>

ReadClock ==
    /\ Loop("now")
    /\ now' = clock
    /\ Go("timeouts")
    /\ UNCHANGED <<user, running, stopped, batch, pollUntil, starts, closed, callbacks,
                   timeouts, handlers, events, pipe, adder, clock, added, ran, regs>>

\* What the loop does with the head of the heap: drop it, run it, or wait for it.
HeadState(t) == IF timeouts[t].state = "cancelled" THEN "dropped" ELSE "run"

RunTimeouts ==
    /\ Loop("timeouts")
    /\ \/ \E t \in Heads :
            /\ HeadState(t) = "dropped" \/ timeouts[t].deadline <= now
            /\ timeouts' = [timeouts EXCEPT ![t].state = HeadState(t)]
            /\ user' = IF HeadState(t) = "run" THEN "timeout" ELSE "none"
            /\ UNCHANGED <<pc, pollUntil>>
       \/ \E t \in Heads :
            /\ HeadState(t) = "run" /\ timeouts[t].deadline > now
            /\ pollUntil' = timeouts[t].deadline
            /\ Go("check")
            /\ UNCHANGED <<timeouts, user>>
       \/ /\ Heap = {}
          /\ Go("check")
          /\ UNCHANGED <<timeouts, user, pollUntil>>
    /\ UNCHANGED <<running, stopped, batch, now, starts, closed, callbacks, handlers,
                   events, pipe, adder, clock, added, ran, regs>>

\* The timeout of poll() once the callbacks have been looked at.
PollTimeout(until) == IF callbacks # <<>> THEN 0 ELSE until

BeforePoll ==
    /\ Loop("check")
    /\ pollUntil' = PollTimeout(pollUntil)
    /\ \/ running /\ Go("poll") /\ UNCHANGED stopped
       \/ ~running /\ Go("idle") /\ stopped' = FALSE
    /\ UNCHANGED <<user, running, batch, now, starts, closed, callbacks, timeouts,
                   handlers, events, pipe, adder, clock, added, ran, regs>>

\* poll() returns the descriptors in ready, a set of registered ones.
PollReturns(ready) ==
    /\ Loop("poll")
    /\ events' = [fd \in AllFds |-> IF fd \in ready THEN handlers[fd] ELSE events[fd]]
    /\ Go("events")
    /\ UNCHANGED <<user, running, stopped, batch, now, pollUntil, starts, closed,
                   callbacks, timeouts, handlers, pipe, adder, clock, added, ran, regs>>

WakerReady == IF pipe THEN {Waker} ELSE {}

\* poll() has to return: its time is over or the waker pipe is readable.
PollEnds ==
    /\ pipe \/ clock >= pollUntil
    /\ PollReturns(WakerReady)

\* Some descriptors are ready.
PollReady ==
    \E ready \in SUBSET {fd \in Fds : handlers[fd] # 0} :
        /\ ready # {}
        /\ PollReturns(ready \cup WakerReady)

\* A signal interrupts poll(): the next iteration starts.
PollInterrupted ==
    /\ Loop("poll")
    /\ Go("swap")
    /\ UNCHANGED <<user, running, stopped, batch, now, pollUntil, starts, closed,
                   callbacks, timeouts, handlers, events, pipe, adder, clock, added, ran, regs>>

\* popitem takes any pending descriptor; the waker's handler empties the pipe.
RunHandler ==
    /\ Loop("events")
    /\ \/ \E fd \in AllFds :
            /\ events[fd] # 0
            /\ events' = [events EXCEPT ![fd] = 0]
            /\ pipe' = (pipe /\ fd # Waker)
            /\ user' = IF fd # Waker /\ handlers[fd] # 0 THEN "handler" ELSE "none"
            /\ UNCHANGED pc
       \/ /\ \A fd \in AllFds : events[fd] = 0
          /\ Go("swap")
          /\ UNCHANGED <<events, pipe, user>>
    /\ UNCHANGED <<running, stopped, batch, now, pollUntil, starts, closed, callbacks,
                   timeouts, handlers, adder, clock, added, ran, regs>>

\* The called code returns or raises; _run_callback and start() log the exception.
UserReturns ==
    /\ user # "none"
    /\ user' = "none"
    /\ UNCHANGED <<pc, running, stopped, batch, now, pollUntil, starts, closed, callbacks,
                   timeouts, handlers, events, pipe, adder, clock, added, ran, regs>>

-----------------------------------------------------------------------------
(* What the loop thread may call: from the code it runs, and between two   *)
(* calls of start().                                                       *)

UserCode == ~closed /\ (user # "none" \/ pc = "idle")

\* The mutated form of Enqueue: the newest callback runs first.
EnqueueFirst ==
    /\ added < MaxCallbacks
    /\ added' = added + 1
    /\ callbacks' = <<added + 1>> \o callbacks
\* add_callback under the lock.
Enqueue ==
    /\ added < MaxCallbacks
    /\ added' = added + 1
    /\ callbacks' = Append(callbacks, added + 1)

\* add_callback from the loop's own thread: no wake once start() recorded the thread.
AddCallback ==
    /\ UserCode
    /\ Enqueue
    /\ pipe' = (pipe \/ (callbacks = <<>> /\ starts = 0))
    /\ UNCHANGED <<loopVars, timeouts, handlers, events, adder, clock, ran, regs>>

AddTimeout(deadline) ==
    /\ UserCode /\ Len(timeouts) < MaxTimeouts
    /\ timeouts' = Append(timeouts, [deadline |-> deadline, state |-> "pending"])
    /\ UNCHANGED <<loopVars, callbacks, handlers, events, pipe, adder, clock, added, ran, regs>>

\* remove_timeout clears the callback; the heap keeps the defunct entry.
RemoveTimeout(t) ==
    /\ UserCode /\ timeouts[t].state = "pending"
    /\ timeouts' = [timeouts EXCEPT ![t].state = "cancelled"]
    /\ UNCHANGED <<loopVars, callbacks, handlers, events, pipe, adder, clock, added, ran, regs>>

AddHandler(fd) ==
    /\ UserCode /\ handlers[fd] = 0 /\ regs < MaxRegs
    /\ regs' = regs + 1
    /\ handlers' = [handlers EXCEPT ![fd] = regs + 1]
    /\ UNCHANGED <<loopVars, callbacks, timeouts, events, pipe, adder, clock, added, ran>>

\* The mutated form of EventsWithout: the polled event stays.
EventsKept(fd) == events
EventsWithout(fd) == [events EXCEPT ![fd] = 0]

RemoveHandler(fd) ==
    /\ UserCode /\ handlers[fd] # 0
    /\ handlers' = [handlers EXCEPT ![fd] = 0]
    /\ events' = EventsWithout(fd)
    /\ UNCHANGED <<loopVars, callbacks, timeouts, pipe, adder, clock, added, ran, regs>>

Stop ==
    /\ UserCode /\ ~(stopped /\ ~running)
    /\ running' = FALSE
    /\ stopped' = TRUE
    /\ pipe' = TRUE
    /\ UNCHANGED <<pc, user, batch, now, pollUntil, starts, closed, callbacks, timeouts,
                   handlers, events, adder, clock, added, ran, regs>>

\* close() after start() has returned.
Close ==
    /\ Loop("idle") /\ ~closed /\ starts > 0
    /\ closed' = TRUE
    /\ handlers' = [handlers EXCEPT ![Waker] = 0]
    /\ events' = [events EXCEPT ![Waker] = 0]
    /\ pipe' = FALSE
    /\ UNCHANGED <<pc, user, running, stopped, batch, now, pollUntil, starts, callbacks,
                   timeouts, adder, clock, added, ran, regs>>

-----------------------------------------------------------------------------
(* The other thread and the clock.                                         *)

\* The mutated form of WakeOwed: wake() is left to whoever adds the next callback.
WakeOwedLate == callbacks # <<>>
\* add_callback from another thread: wake() is owed when the list was empty.
WakeOwed == callbacks = <<>>

ThreadAddCallback ==
    /\ adder = "idle"
    /\ Enqueue
    /\ adder' = IF WakeOwed THEN "wake" ELSE "idle"
    /\ UNCHANGED <<loopVars, timeouts, handlers, events, pipe, clock, ran, regs>>

\* A write to the closed pipe raises in the calling thread.
ThreadWake ==
    /\ adder = "wake"
    /\ adder' = "idle"
    /\ pipe' = ~closed
    /\ UNCHANGED <<loopVars, callbacks, timeouts, handlers, events, clock, added, ran, regs>>

Tick ==
    /\ clock < MaxTime
    /\ clock' = clock + 1
    /\ UNCHANGED <<loopVars, callbacks, timeouts, handlers, events, pipe, adder, added, ran, regs>>

-----------------------------------------------------------------------------
LoopStep ==
    \/ Start \/ TakeCallbacks \/ RunCallback \/ ReadClock \/ RunTimeouts
    \/ BeforePoll \/ PollEnds \/ RunHandler \/ UserReturns

User ==
    \/ AddCallback
    \/ \E deadline \in 0 .. MaxTime : AddTimeout(deadline)
    \/ \E t \in DOMAIN timeouts : RemoveTimeout(t)
    \/ \E fd \in Fds : AddHandler(fd) \/ RemoveHandler(fd)
    \/ Stop
    \/ Close

Next ==
    \/ LoopStep \/ PollReady \/ PollInterrupted
    \/ User
    \/ ThreadAddCallback \/ ThreadWake \/ Tick

\* The loop thread and the adding thread are scheduled, called code returns, time passes.
Fairness == WF_vars(LoopStep) /\ WF_vars(ThreadWake) /\ WF_vars(Tick)
Spec == Init /\ [][Next]_vars /\ Fairness

-----------------------------------------------------------------------------
(* Correctness.                                                            *)

\* Callbacks run once each and in the order they were added, whichever thread
\* added them: what has run, the rest of this iteration and the queue are the
\* numbers 1, 2, ... added, without a gap.
CallbacksInOrder ==
    /\ Len(batch) + Len(callbacks) = added - ran
    /\ \A i \in 1 .. Len(batch \o callbacks) : (batch \o callbacks)[i] = ran + i

\* A polled event is only ever handed to the registration it was polled for, even
\* if a handler that ran before it removed that descriptor and registered a new
\* connection under the same number.
EventsMeetTheirHandler ==
    \A fd \in AllFds : events[fd] # 0 => events[fd] = handlers[fd]

\* While start() does not return, every queued callback runs, although poll() may
\* wait for an hour and the thread that adds one does not know whether it waits; and
\* every timeout runs that is not removed.  As there is a last callback and a last
\* timeout here, it comes to the same to say that nothing is left again and again.
NothingLeft == ran = added /\ \A t \in DOMAIN timeouts : timeouts[t].state # "pending"
LoopProgress == []<>(pc = "idle" \/ NothingLeft)
=============================================================================

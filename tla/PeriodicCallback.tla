-------------------------- MODULE PeriodicCallback --------------------------
(***************************************************************************)
(* tornado.ioloop.PeriodicCallback, on the timeouts of an IOLoop.  The     *)
(* application may start and stop it at any time, within its callback too. *)
(***************************************************************************)
EXTENDS Integers, FiniteSets

CONSTANTS
    Period,      \* callback_time
    MaxClock,    \* bound: the clock stops here
    MaxStarts    \* bound: calls of start()

VARIABLES
    periodic,    \* _running, _next_timeout, _timeout, whether the callback runs
    timers,      \* the timeouts of the loop that call _run: number and deadline
    time,        \* what time.time() returns
    started      \* calls of start() so far

periodicVars == <<periodic, timers, time, started>>

NoTimeout == [id |-> 0, at |-> 0]
PeriodicInit ==
    /\ periodic = [running |-> FALSE, next |-> 0, timeout |-> NoTimeout, inside |-> FALSE,
                 made |-> 0]
    /\ timers = {} /\ time = 0 /\ started = 0

\* The first time after now on the grid of next: periods that were missed are skipped.
NextTime(next, now) ==
    IF next > now THEN next ELSE next + Period * (((now - next) \div Period) + 1)

Timeout(p, at) ==
    [p EXCEPT !.next = at, !.made = @ + 1, !.timeout = [id |-> p.made + 1, at |-> at]]
\* The mutated form of ScheduleNext: a timeout that is known is taken to be pending.
ScheduleOnce(p) ==
    IF p.running /\ p.timeout = NoTimeout THEN Timeout(p, NextTime(p.next, time)) ELSE p
ScheduleNext(p) == IF p.running THEN Timeout(p, NextTime(p.next, time)) ELSE p

Scheduled(p) ==
    /\ periodic' = p
    /\ timers' = IF p.made > periodic.made THEN timers \cup {p.timeout} ELSE timers

Start ==
    /\ started < MaxStarts
    /\ started' = started + 1
    /\ Scheduled(ScheduleNext([periodic EXCEPT !.running = TRUE, !.next = time]))
    /\ UNCHANGED time

\* Only the last timeout is known and removed.
Stop ==
    /\ periodic.running
    /\ periodic' = [periodic EXCEPT !.running = FALSE, !.timeout = NoTimeout]
    /\ timers' = timers \ {periodic.timeout}
    /\ UNCHANGED <<time, started>>

\* The loop calls _run for a timeout that is due.
Run(t) ==
    /\ ~periodic.inside /\ t.at <= time
    /\ timers' = timers \ {t}
    /\ periodic' = [periodic EXCEPT !.inside = periodic.running]
    /\ UNCHANGED <<time, started>>

\* It returns, or what it raised is logged.
CallbackReturns ==
    /\ periodic.inside
    /\ Scheduled(ScheduleNext([periodic EXCEPT !.inside = FALSE]))
    /\ UNCHANGED <<time, started>>

Tick ==
    /\ time < MaxClock
    /\ time' = time + 1
    /\ UNCHANGED <<periodic, timers, started>>

PeriodicNext == Start \/ Stop \/ (\E t \in timers : Run(t)) \/ CallbackReturns \/ Tick
PeriodicSpec == PeriodicInit /\ [][PeriodicNext]_periodicVars
-----------------------------------------------------------------------------
\* A callback that was started and not stopped goes on: unless it is running now, one
\* of the loop's timeouts will run it within a period, whatever the callback raised,
\* however late it was and wherever it was stopped and started again.
GoesOn ==
    periodic.running /\ ~periodic.inside => \E t \in timers : t.at <= time + Period
=============================================================================

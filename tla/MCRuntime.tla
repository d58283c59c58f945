----------------------------- MODULE MCRuntime ------------------------------
(***************************************************************************)
(* The parts whose point is that something eventually happens: the event   *)
(* loop, the threads of the import script, the HTTP client, the periodic   *)
(* callback, and the pollers under the loop.  They share no state, so that *)
(* a behaviour is one of one part, chosen by the initial state; the others *)
(* stand still.                                                            *)
(***************************************************************************)
EXTENDS IOLoop, TaskRunner

CONSTANTS
    Components,                                              \* the parts of this run
    Descriptors,                                             \* of Pollers
    Period, MaxClock,                                        \* of PeriodicCallback
    MaxClients, MaxFetches, MaxRedirects, Responses, Redirected   \* of SimpleHTTPClient

VARIABLES
    component,                          \* the part that runs
    asked, sets, queue, kernel,         \* of Pollers
    periodic, timers, time, started,    \* of PeriodicCallback
    cl, fetched                         \* of SimpleHTTPClient

Poll == INSTANCE Pollers
Periodic == INSTANCE PeriodicCallback
Client == INSTANCE SimpleHTTPClient

pollerVars == <<asked, sets, queue, kernel>>
periodicVars == <<periodic, timers, time, started>>
clientVars == <<cl, fetched>>
runtimeVars == <<component, vars, taskVars, pollerVars, periodicVars, clientVars>>

-----------------------------------------------------------------------------
(* Values for the constants of a run.                                      *)

\* Two threads for three items, one of which is None.
ItemsWithNone == <<1, None, 2>>
Items == <<1, 2>>

Response(kind, framing) == [kind |-> kind, framing |-> framing]
SomeResponses ==
    {Response("ok", "chunked"), Response("ok", "close"),
     Response("redirect", "length"), Response("nowhere", "none"), Response("malformed", "none")}

ASSUME InputsAssumption ==
    /\ Responses \subseteq Client!ResponseType
    /\ MaxClients \in Nat /\ MaxFetches \in Nat
\* callback_time: with 0 the loop of _schedule_next would not end.
ASSUME PeriodAssumption == Period \in Nat \ {0}

-----------------------------------------------------------------------------
RuntimeInit ==
    /\ component \in Components
    /\ Init /\ TaskInit /\ Poll!PollersInit /\ Periodic!PeriodicInit /\ Client!Init

LoopRuns ==
    /\ component = "loop" /\ Next
    /\ UNCHANGED <<component, taskVars, pollerVars, periodicVars, clientVars>>
TasksRun ==
    /\ component = "tasks" /\ TaskNext
    /\ UNCHANGED <<component, vars, pollerVars, periodicVars, clientVars>>
PollersRun ==
    /\ component = "pollers" /\ Poll!PollersNext
    /\ UNCHANGED <<component, vars, taskVars, periodicVars, clientVars>>
PeriodicRuns ==
    /\ component = "periodic" /\ Periodic!PeriodicNext
    /\ UNCHANGED <<component, vars, taskVars, pollerVars, clientVars>>
ClientRuns ==
    /\ component = "client" /\ Client!ClientNext
    /\ UNCHANGED <<component, vars, taskVars, pollerVars, periodicVars>>

RuntimeNext == LoopRuns \/ TasksRun \/ PollersRun \/ PeriodicRuns \/ ClientRuns

\* The fairness of each part, while it is the one that runs.
RuntimeFairness ==
    /\ WF_vars(component = "loop" /\ LoopStep)
    /\ WF_vars(component = "loop" /\ ThreadWake)
    /\ WF_vars(component = "loop" /\ Tick)
    /\ WF_taskVars(component = "tasks" /\ Main)
    /\ \A t \in Tasks : WF_taskVars(component = "tasks" /\ Worker(t))
    /\ \A i \in 1 .. Client!MaxConns :
          WF_clientVars(component = "client" /\ i \in Client!Conns /\ Client!LoopStep(i))

RuntimeSpec == RuntimeInit /\ [][RuntimeNext]_runtimeVars /\ RuntimeFairness
-----------------------------------------------------------------------------
(* The properties of the parts, named for the runs.                        *)

\* See Pollers, PeriodicCallback and SimpleHTTPClient.
PollersAgree == Poll!PollersAgree
GoesOn == Periodic!GoesOn
PlacesFilled == Client!PlacesFilled
AnsweredOnce == Client!AnsweredOnce

\* LoopProgress of IOLoop, FetchesAnswered of SimpleHTTPClient and MapTaskReturns of
\* TaskRunner hold of the part that runs.
FetchesAnswered == Client!FetchesAnswered
TaskReturns == component = "tasks" => MapTaskReturns
=============================================================================

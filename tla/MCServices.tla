----------------------------- MODULE MCServices -----------------------------
(***************************************************************************)
(* The parts of the blacklist service and of the import that are checked   *)
(* for safety only: connections and servers, the processes and the curl    *)
(* client, the control flow helpers, the templates, the files of the       *)
(* browser, and the two ends of the blacklist.  They share no state, so    *)
(* that a behaviour is one of one part, chosen by the initial state; the   *)
(* others stand still.                                                     *)
(***************************************************************************)
EXTENDS TemplateBlocks, TwistedReactor

CONSTANTS
    Components,                             \* the parts of this run
    MaxBytes, Delims, MaxBuffer, MaxOps,    \* of IOStream
    Kinds, MaxRequests, MaxFlush, FlushCallbacksRaise,      \* of HTTPServer
    Frames, MaxFrames,                      \* of WebSocket
    Keys, MaxYields, MaxDuplicates,         \* of GenRunner
    MaxContexts, MaxWrapped, MaxDepth,      \* of StackContext
    Handles, MaxFetches,                    \* of CurlHTTPClient
    Descriptors, MaxStops,                  \* of TCPServer
    num_processes, max_restarts,            \* of ForkProcesses
    MaxDirectives,                          \* of TemplateParser
    DstShift, MaxClock, MaxEdits,           \* of StaticFiles
    NodeCount, DocIds,                      \* of BlacklistService
    Listable, Dumpers, Timer, MaxFaults, MaxLongs     \* of BlackList

VARIABLES
    component,                                            \* the part that runs
    stream, inCallback, due, arrived, peer, seen, ops,    \* of IOStream
    conn, handler, turn, requests, client,                \* of HTTPServer
    ws, frames, link,                                     \* of WebSocket
    runner, handed, waits,                                \* of GenRunner
    contexts, active, stack, wrapped, heard,              \* of StackContext
    curl, asked,                                          \* of CurlHTTPClient
    server, fds,                                          \* of TCPServer
    master, process,                                      \* of ForkProcesses
    parser,                                               \* of TemplateParser
    page, written, clock, copy, get, sent,                \* of StaticFiles
    loaded, listed, saved, request, outcome, dumped,      \* of BlacklistService
    blackDocs, file, output, dumper, timerEnded, faults, lone     \* of BlackList

Stream == INSTANCE IOStream
Http == INSTANCE HTTPServer
Web == INSTANCE WebSocket
Gen == INSTANCE GenRunner WITH ops <- handed
Stack == INSTANCE StackContext
Curl == INSTANCE CurlHTTPClient WITH MaxRequests <- MaxFetches
Tcp == INSTANCE TCPServer
Forks == INSTANCE ForkProcesses
Parser == INSTANCE TemplateParser
Static == INSTANCE StaticFiles WITH file <- page, answer <- sent
Service == INSTANCE BlacklistService
Black == INSTANCE BlackList

ioVars == <<stream, inCallback, due, arrived, peer, seen, ops>>
httpVars == <<conn, handler, turn, requests, client>>
wsVars == <<ws, frames, link>>
genVars == <<runner, handed, waits>>
ctxVars == <<contexts, active, stack, wrapped, heard>>
curlVars == <<curl, asked>>
serverVars == <<server, fds>>
processVars == <<master, process>>
staticVars == <<page, written, clock, copy, get, sent>>
serviceVars == <<loaded, listed, saved, request, outcome, dumped>>
blackListVars == <<blackDocs, file, output, dumper, timerEnded, faults, lone>>

\* The parts before the browser's files, and those after them.
connectionVars == <<ioVars, httpVars, wsVars, serverVars>>
helperVars == <<genVars, ctxVars, curlVars, processVars, parser, blockVars, reactorVars>>
listVars == <<staticVars, serviceVars, blackListVars>>
servicesVars == <<component, connectionVars, helperVars, listVars>>
-----------------------------------------------------------------------------
(* Values for the constants of a run.                                      *)

Request(http11, connection, method, body, expect, valid) ==
    [http11 |-> http11, connection |-> connection, method |-> method, body |-> body,
     expect |-> expect, valid |-> valid]
SomeKinds ==
    {Request(TRUE, "none", "GET", FALSE, FALSE, TRUE),
     Request(TRUE, "none", "HEAD", FALSE, FALSE, TRUE),
     Request(TRUE, "none", "POST", TRUE, TRUE, TRUE),
     Request(FALSE, "keep-alive", "GET", FALSE, FALSE, TRUE),
     Request(FALSE, "keep-alive", "POST", FALSE, FALSE, TRUE),
     Request(FALSE, "none", "GET", FALSE, FALSE, FALSE)}

Frame(op, fin, long, broken) == [op |-> op, fin |-> fin, long |-> long, broken |-> broken]
SomeFrames ==
    {Frame("text", TRUE, FALSE, FALSE), Frame("text", FALSE, TRUE, FALSE),
     Frame("cont", TRUE, FALSE, FALSE), Frame("ping", TRUE, FALSE, FALSE),
     Frame("close", TRUE, FALSE, FALSE)}
ASSUME InputsAssumption == Kinds \subseteq Http!KindType /\ Frames \subseteq Web!FrameType

\* Processes, nodes and descriptors are counted from 0, and there is a node.  The keys of
\* the program are none of the objects that gen.Task takes for keys.  A buffer has a size,
\* a client has a number of requests to send, and a pool a number of handles.
ASSUME SizesAssumption ==
    /\ MaxBuffer \in Nat /\ MaxRequests \in Nat
    /\ num_processes \in Nat /\ max_restarts \in Nat
    /\ NodeCount \in Nat \ {0} /\ DocIds \subseteq Int
    /\ Descriptors \subseteq Nat /\ Keys \subseteq Nat /\ IsFiniteSet(Handles)

-----------------------------------------------------------------------------
\* A part that stands still has one initial state.
ServicesInit ==
    /\ component \in Components
    /\ component # "iostream" => stream = Stream!Fresh(FALSE, FALSE)
    /\ component # "websocket" => ws = Web!Opened(13)
    /\ component # "service" => loaded = [n \in Service!Nodes |-> TRUE]
    /\ Stream!Init /\ Http!Init /\ Web!Init /\ Gen!GenInit /\ Stack!ContextInit
    /\ Curl!CurlInit /\ Tcp!TCPInit /\ Forks!ForkInit /\ Parser!ParserInit /\ BlocksInit
    /\ ReactorInit
    /\ Static!StaticInit /\ Service!ServiceInit /\ Black!BlackListInit

Runs(part) == component = part /\ UNCHANGED component

StreamRuns ==
    /\ Runs("iostream") /\ Stream!IONext
    /\ UNCHANGED <<httpVars, wsVars, serverVars, helperVars, listVars>>
HttpRuns ==
    /\ Runs("http") /\ Http!HTTPNext
    /\ UNCHANGED <<ioVars, wsVars, serverVars, helperVars, listVars>>
WebRuns ==
    /\ Runs("websocket") /\ Web!WSNext
    /\ UNCHANGED <<ioVars, httpVars, serverVars, helperVars, listVars>>
TcpRuns ==
    /\ Runs("tcp") /\ Tcp!TCPNext
    /\ UNCHANGED <<ioVars, httpVars, wsVars, helperVars, listVars>>

GenRuns ==
    /\ Runs("gen") /\ Gen!GenNext
    /\ UNCHANGED <<connectionVars, ctxVars, curlVars, processVars, parser, blockVars,
                   reactorVars, listVars>>
StackRuns ==
    /\ Runs("stack") /\ Stack!ContextNext
    /\ UNCHANGED <<connectionVars, genVars, curlVars, processVars, parser, blockVars,
                   reactorVars, listVars>>
CurlRuns ==
    /\ Runs("curl") /\ Curl!CurlNext
    /\ UNCHANGED <<connectionVars, genVars, ctxVars, processVars, parser, blockVars,
                   reactorVars, listVars>>
ForkRuns ==
    /\ Runs("fork") /\ Forks!ForkNext
    /\ UNCHANGED <<connectionVars, genVars, ctxVars, curlVars, parser, blockVars,
                   reactorVars, listVars>>
ParserRuns ==
    /\ Runs("parser") /\ Parser!ParserNext
    /\ UNCHANGED <<connectionVars, genVars, ctxVars, curlVars, processVars, blockVars,
                   reactorVars, listVars>>
BlocksRun ==
    /\ Runs("blocks") /\ BlocksNext
    /\ UNCHANGED <<connectionVars, genVars, ctxVars, curlVars, processVars, parser,
                   reactorVars, listVars>>
ReactorRuns ==
    /\ Runs("reactor") /\ ReactorNext
    /\ UNCHANGED <<connectionVars, genVars, ctxVars, curlVars, processVars, parser, blockVars,
                   listVars>>

StaticRuns ==
    /\ Runs("static") /\ Static!StaticNext
    /\ UNCHANGED <<connectionVars, helperVars, serviceVars, blackListVars>>
ServiceRuns ==
    /\ Runs("service") /\ Service!ServiceNext
    /\ UNCHANGED <<connectionVars, helperVars, staticVars, blackListVars>>
BlackListRuns ==
    /\ Runs("blacklist") /\ Black!BlackListNext
    /\ UNCHANGED <<connectionVars, helperVars, staticVars, serviceVars>>

ServicesNext ==
    \/ StreamRuns \/ HttpRuns \/ WebRuns \/ TcpRuns
    \/ GenRuns \/ StackRuns \/ CurlRuns \/ ForkRuns \/ ParserRuns \/ BlocksRun
    \/ ReactorRuns
    \/ StaticRuns \/ ServiceRuns \/ BlackListRuns

ServicesSpec == ServicesInit /\ [][ServicesNext]_servicesVars
-----------------------------------------------------------------------------
(* The properties of the parts, named for the runs; each is stated, and    *)
(* explained, in the module of its part.  WritingEnds is TemplateBlocks',  *)
(* and TwistedIsServed is TwistedReactor's.                                *)

BytesInOrder == Stream!BytesInOrder
Attended == Stream!Attended
CloseCallbackRuns == Stream!CloseCallbackRuns
ResponsesSeparate == Http!ResponsesSeparate
ClosedInTime == Http!ClosedInTime
NeverStalls == Http!NeverStalls
MessagesReassembled == Web!MessagesReassembled
ClosedOnce == Web!ClosedOnce
FirstStopIsClean == Tcp!FirstStopIsClean
WaitsGetTheirResults == Gen!WaitsGetTheirResults
ExceptionsGoHome == Stack!ExceptionsGoHome
HandlesServe == Curl!HandlesServe
TasksAttended == Forks!TasksAttended
NestedAsWritten == Parser!NestedAsWritten
StaleWithinASecond == Static!StaleWithinASecond
AnsweredIsDone == Service!AnsweredIsDone
NextDumpIsSound == Black!NextDumpIsSound
TimerGoesOn == Black!TimerGoesOn
=============================================================================

------------------------------ MODULE TCPServer ------------------------------
(***************************************************************************)
(* tornado.netutil.TCPServer: the listening sockets and the connections of *)
(* one process.  An IOLoop knows a handler by the number of a descriptor,  *)
(* and the kernel gives a number away again once its socket is closed.     *)
(***************************************************************************)
EXTENDS Integers, FiniteSetsExt

CONSTANTS
    Descriptors,    \* bound: the numbers that sockets may get
    MaxStops        \* bound: calls of stop

VARIABLES
    server,     \* the TCPServer, and the descriptors that have a handler
    fds         \* what each descriptor is: "free", "listening" or "connection"

serverVars == <<server, fds>>

\* sockets: the keys of _sockets; closed: those whose socket object has been closed.
TCPInit ==
    /\ server = [started |-> FALSE, pending |-> {}, sockets |-> {}, closed |-> {},
                 handlers |-> {}, stops |-> 0]
    /\ fds = [d \in Descriptors |-> "free"]

Free == {d \in Descriptors : fds[d] = "free"}
Lowest == Min(Free)

AddSockets(s, new) ==
    [s EXCEPT !.sockets = @ \cup new, !.closed = @ \ new, !.handlers = @ \cup new]

-----------------------------------------------------------------------------
\* bind_sockets, or the socket of bind_unix_socket.
BindSocket ==
    /\ Free # {}
    /\ fds' = [fds EXCEPT ![Lowest] = "listening"]

Listen ==
    /\ BindSocket
    /\ server' = AddSockets(server, {Lowest})

\* bind: a socket that start will add, or that is added now.
Bind ==
    /\ BindSocket
    /\ server' = IF server.started THEN AddSockets(server, {Lowest})
                 ELSE [server EXCEPT !.pending = @ \cup {Lowest}]

Start ==
    /\ ~server.started
    /\ server' = AddSockets([server EXCEPT !.started = TRUE, !.pending = {}], server.pending)
    /\ UNCHANGED fds

\* The mutated form of Removed: every handler of the loop goes.
AllRemoved(handlers, sockets) == {}
Removed(handlers, sockets) == handlers \ sockets

\* stop goes through all of _sockets, those of an earlier stop included: their close
\* does nothing, their numbers lose whatever handler they have now.
Stop ==
    /\ server.stops < MaxStops
    /\ fds' = [d \in Descriptors |->
                 IF d \in server.sockets \ server.closed THEN "free" ELSE fds[d]]
    /\ server' = [server EXCEPT !.handlers = Removed(@, server.sockets),
                                !.closed = server.sockets, !.stops = @ + 1]

\* The connection d gets a stream, unless its TLS layer cannot be set up and it is
\* closed at once.
HandleConnection(d) ==
    \E wrapped \in BOOLEAN :
        /\ fds' = IF wrapped THEN [fds EXCEPT ![d] = "connection"] ELSE fds
        /\ server' = IF wrapped THEN [server EXCEPT !.handlers = @ \cup {d}] ELSE server

\* accept_handler, one connection.
Accept ==
    /\ \E d \in server.handlers : fds[d] = "listening"
    /\ Free # {}
    /\ HandleConnection(Lowest)

\* A stream removes its handler and closes its socket.
ConnectionEnds ==
    \E d \in Descriptors :
        /\ fds[d] = "connection"
        /\ fds' = [fds EXCEPT ![d] = "free"]
        /\ server' = [server EXCEPT !.handlers = @ \ {d}]

TCPNext == Listen \/ Bind \/ Start \/ Stop \/ Accept \/ ConnectionEnds
TCPSpec == TCPInit /\ [][TCPNext]_serverVars
-----------------------------------------------------------------------------
\* "Requests currently in progress may still continue after the server is stopped": no
\* connection loses its handler.
RequestsContinue == \A d \in Descriptors : fds[d] = "connection" => d \in server.handlers

\* It holds for the first stop, at any time; and whatever the order of bind, listen,
\* start and stop, a listening socket is accepted from unless it waits for start.
FirstStopIsClean ==
    /\ server.stops <= 1 => RequestsContinue
    /\ \A d \in Descriptors : fds[d] = "listening" => (d \in server.handlers <=> d \notin server.pending)
=============================================================================

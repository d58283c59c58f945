------------------------------ MODULE Pollers ------------------------------
(***************************************************************************)
(* tornado.ioloop: the three implementations of poll, on select.epoll,     *)
(* select.kqueue and select.select, given the same calls of an IOLoop on   *)
(* descriptors in the same state.  The kernel calls are external.          *)
(***************************************************************************)
EXTENDS Integers

CONSTANT Descriptors

VARIABLES
    asked,      \* the events each descriptor is registered for, or Unregistered
    sets,       \* _Select: read_fds, write_fds, error_fds
    queue,      \* _KQueue: _active and the filters in the kernel
    kernel      \* what is true of a descriptor: data to read, space to write, hung up

pollVars == <<asked, sets, queue, kernel>>

Unregistered == {}
\* add_handler and update_handler always ask for errors.
Requests == {events \in SUBSET {"R", "W", "E"} : "E" \in events}

PollersInit ==
    /\ asked = [fd \in Descriptors |-> Unregistered]
    /\ sets = [read |-> {}, write |-> {}, error |-> {}]
    /\ queue = [active |-> [fd \in Descriptors |-> Unregistered], filters |-> {}]
    /\ kernel = [fd \in Descriptors |-> {}]

-----------------------------------------------------------------------------
(* _Select                                                                 *)

\* A closed connection is an error to epoll and a zero-byte read to select.
ReadsToo(events) == "R" \in events \/ "E" \in events

With(set, fd, cond) == IF cond THEN set \cup {fd} ELSE set
SelectRegister(s, fd, events) ==
    [read |-> With(s.read, fd, ReadsToo(events)),
     write |-> With(s.write, fd, "W" \in events),
     error |-> With(s.error, fd, "E" \in events)]
SelectUnregister(s, fd) ==
    [read |-> s.read \ {fd}, write |-> s.write \ {fd}, error |-> s.error \ {fd}]

-----------------------------------------------------------------------------
(* _KQueue                                                                 *)

\* Always read when there is not a write.
Filters(fd, events) ==
    {<<fd, f>> : f \in {g \in {"R", "W"} : g \in events \/ (g = "R" /\ "W" \notin events)}}
QueueRegister(q, fd, events) ==
    [active |-> [q.active EXCEPT ![fd] = events],
     filters |-> q.filters \cup Filters(fd, events)]
QueueUnregister(q, fd) ==
    [active |-> [q.active EXCEPT ![fd] = Unregistered],
     filters |-> q.filters \ Filters(fd, q.active[fd])]

-----------------------------------------------------------------------------
(* The calls of the loop, and the kernel.                                  *)

Register(fd, events) ==
    /\ asked[fd] = Unregistered
    /\ asked' = [asked EXCEPT ![fd] = events]
    /\ sets' = SelectRegister(sets, fd, events)
    /\ queue' = QueueRegister(queue, fd, events)
    /\ UNCHANGED kernel

\* The mutated form of Cleared: modify only adds.
NotCleared(s, fd) == s
Cleared(s, fd) == SelectUnregister(s, fd)

Modify(fd, events) ==
    /\ asked[fd] # Unregistered
    /\ asked' = [asked EXCEPT ![fd] = events]
    /\ sets' = SelectRegister(Cleared(sets, fd), fd, events)
    /\ queue' = QueueRegister(QueueUnregister(queue, fd), fd, events)
    /\ UNCHANGED kernel

Unregister(fd) ==
    /\ asked[fd] # Unregistered
    /\ asked' = [asked EXCEPT ![fd] = Unregistered]
    /\ sets' = SelectUnregister(sets, fd)
    /\ queue' = QueueUnregister(queue, fd)
    /\ UNCHANGED kernel

KernelChanges(fd) ==
    /\ kernel' \in {[kernel EXCEPT ![fd] = now] : now \in SUBSET {"data", "space", "hangup"}}
    /\ kernel' # kernel
    /\ UNCHANGED <<asked, sets, queue>>

PollersNext ==
    \E fd \in Descriptors :
        \/ \E events \in Requests : Register(fd, events) \/ Modify(fd, events)
        \/ Unregister(fd) \/ KernelChanges(fd)

PollersSpec == PollersInit /\ [][PollersNext]_pollVars
-----------------------------------------------------------------------------
(* What a poll with nothing in between would return for a descriptor.      *)

Readable(fd) == kernel[fd] \cap {"data", "hangup"} # {}
Writable(fd) == kernel[fd] \cap {"space", "hangup"} # {}
HungUp(fd) == "hangup" \in kernel[fd]

EPoll(fd) ==
    {e \in asked[fd] : \/ e = "R" /\ Readable(fd)
                       \/ e = "W" /\ Writable(fd)
                       \/ e = "E" /\ HungUp(fd)}
Select(fd) ==
    {e \in {"R", "W"} : \/ e = "R" /\ fd \in sets.read /\ Readable(fd)
                        \/ e = "W" /\ fd \in sets.write /\ Writable(fd)}

\* The events of the two filters are combined in the order they are reported; a write
\* event with the end of the connection replaces what there is by an error.
KQueue(fd, readFirst) ==
    LET read == IF <<fd, "R">> \in queue.filters /\ Readable(fd) THEN {"R"} ELSE {}
        writes == <<fd, "W">> \in queue.filters /\ Writable(fd)
    IN  IF ~writes THEN read
        ELSE IF ~HungUp(fd) THEN read \cup {"W"}
        ELSE {"E"} \cup IF readFirst THEN {} ELSE read

\* Programs run alike on all three: what epoll reports, the others report as well, if
\* only as an error; a hang-up is reported whatever was asked for, although neither
\* select nor kqueue has a set for it; and none reports an event that a later modify
\* or unregister took back, at which the loop would spin, but select's reads, which
\* stand for errors, and kqueue's in the place of a write.
PollersAgree ==
    \A fd \in Descriptors :
        \A got \in {Select(fd), KQueue(fd, TRUE), KQueue(fd, FALSE)} :
            /\ EPoll(fd) # {} => got # {}
            /\ \A e \in EPoll(fd) \cap {"R", "W"} : got \cap {e, "E"} # {}
            /\ "W" \in got => "W" \in asked[fd]
            /\ asked[fd] = Unregistered => got = {}
=============================================================================

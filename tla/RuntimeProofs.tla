---------------------------- MODULE RuntimeProofs ---------------------------
(***************************************************************************)
(* What the parts of the runtime guarantee to the code they call: the      *)
(* event loop, the pollers under it, the periodic callbacks, the HTTP      *)
(* client and, of the scripts, map_task, for any number of callbacks,      *)
(* timeouts, registrations, descriptors, fetches, calls and threads.       *)
(***************************************************************************)
EXTENDS MCRuntime, FiniteSetTheorems, SequenceTheorems, WellFoundedInduction, TLAPS

-----------------------------------------------------------------------------
(* Callbacks.                                                              *)

QueueTypeOK ==
    /\ callbacks \in Seq(Nat) /\ batch \in Seq(Nat)
    /\ added \in Nat /\ ran \in Nat

\* start() takes the queue only when it has run what it took before.
BatchDone == pc # "callbacks" => batch = <<>>

\* The callbacks of this iteration come next, and after them those in the queue.
Numbered ==
    /\ added = ran + Len(batch) + Len(callbacks)
    /\ \A i \in 1 .. Len(batch) : batch[i] = ran + i
    /\ \A i \in 1 .. Len(callbacks) : callbacks[i] = ran + Len(batch) + i

QueueInv == QueueTypeOK /\ BatchDone /\ Numbered

\* The numbering is what CallbacksInOrder says of the two lists together.
LEMMA NumberedIsInOrder ==
    ASSUME QueueInv
    PROVE  CallbacksInOrder
<1>1. Len(batch) + Len(callbacks) = added - ran
  BY SMT DEF QueueInv, QueueTypeOK, Numbered
<1>2. ASSUME NEW i \in 1 .. Len(batch \o callbacks)
      PROVE  (batch \o callbacks)[i] = ran + i
  <2>1. i \in Nat /\ Len(batch \o callbacks) = Len(batch) + Len(callbacks)
    BY SMT DEF QueueInv, QueueTypeOK
  <2>2. CASE i <= Len(batch)
    BY <2>1, <2>2, SMT DEF QueueInv, QueueTypeOK, Numbered
  <2>3. CASE i > Len(batch)
    <3>1. i - Len(batch) \in 1 .. Len(callbacks)
          /\ (batch \o callbacks)[i] = callbacks[i - Len(batch)]
      BY <2>1, <2>3, SMT DEF QueueInv, QueueTypeOK
    <3> QED
      BY <2>1, <3>1, SMT DEF QueueInv, QueueTypeOK, Numbered
  <2> QED
    BY <2>1, <2>2, <2>3, SMT DEF QueueInv, QueueTypeOK
<1> QED
  BY <1>1, <1>2 DEF CallbacksInOrder

\* add_callback, on whichever thread, queues the next number.
LEMMA EnqueueKeepsOrder ==
    ASSUME QueueInv, Enqueue, UNCHANGED <<pc, batch, ran>>
    PROVE  QueueInv'
<1>1. callbacks' = Append(callbacks, added + 1) /\ added' = added + 1
  BY DEF Enqueue
<1>2. QueueTypeOK' /\ BatchDone' /\ Len(callbacks') = Len(callbacks) + 1
  BY <1>1, SMT DEF QueueInv, QueueTypeOK, BatchDone
<1>3. ASSUME NEW i \in 1 .. Len(callbacks')
      PROVE  callbacks'[i] = ran + Len(batch) + i
  <2>1. CASE i = Len(callbacks) + 1
    <3>1. callbacks'[i] = added + 1
      BY <1>1, <2>1, SMT DEF QueueInv, QueueTypeOK
    <3> QED
      BY <2>1, <3>1, SMT DEF QueueInv, QueueTypeOK, Numbered
  <2>2. CASE i # Len(callbacks) + 1
    <3>1. i \in 1 .. Len(callbacks)
      BY <1>2, <2>2, SMT DEF QueueInv, QueueTypeOK
    <3>2. callbacks'[i] = callbacks[i]
      BY <1>1, <3>1, SMT DEF QueueInv, QueueTypeOK
    <3> QED
      BY <3>1, <3>2 DEF QueueInv, Numbered
  <2> QED
    BY <2>1, <2>2
<1> QED
  BY <1>1, <1>2, <1>3, SMT DEF QueueInv, QueueTypeOK, Numbered

\* A step that leaves the two lists alone, and pc outside "callbacks" if it was.
LEMMA ListsAlone ==
    ASSUME QueueInv, UNCHANGED <<batch, callbacks, added, ran>>,
           pc' = "callbacks" => pc = "callbacks" \/ batch = <<>>,
           pc' # "callbacks" => batch = <<>>
    PROVE  QueueInv'
  BY DEF QueueInv, QueueTypeOK, BatchDone, Numbered

LEMMA QueueKept == QueueInv /\ [Next]_vars => QueueInv'
<1> SUFFICES ASSUME QueueInv, [Next]_vars
             PROVE  QueueInv'
  OBVIOUS
<1>1. CASE TakeCallbacks
  <2>1. batch = <<>> /\ batch' = callbacks /\ callbacks' = <<>>
        /\ pc' = "callbacks" /\ UNCHANGED <<added, ran>>
    BY <1>1 DEF TakeCallbacks, Loop, Go, QueueInv, BatchDone
  <2> QED
    BY <2>1, SMT DEF QueueInv, QueueTypeOK, BatchDone, Numbered
<1>2. CASE RunCallback
  <2>1. CASE batch # <<>>
    <3>1. batch' = Tail(batch) /\ ran' = ran + 1 /\ pc = "callbacks"
          /\ UNCHANGED <<pc, callbacks, added>>
      BY <1>2, <2>1 DEF RunCallback, Loop
    <3>2. QueueTypeOK' /\ Len(batch') = Len(batch) - 1
          /\ \A i \in 1 .. Len(batch') : batch'[i] = batch[i + 1]
      BY <2>1, <3>1, SMT DEF QueueInv, QueueTypeOK
    <3> QED
      BY <3>1, <3>2, SMT DEF QueueInv, QueueTypeOK, BatchDone, Numbered
  <2>2. CASE batch = <<>>
    BY <1>2, <2>2, ListsAlone DEF RunCallback, Loop, Go
  <2> QED
    BY <2>1, <2>2
<1>3. CASE AddCallback
  BY <1>3, EnqueueKeepsOrder DEF AddCallback, loopVars
<1>4. CASE ThreadAddCallback
  BY <1>4, EnqueueKeepsOrder DEF ThreadAddCallback, loopVars
<1>5. CASE Start \/ ReadClock \/ RunTimeouts \/ BeforePoll \/ PollEnds \/ PollReady
           \/ PollInterrupted \/ RunHandler
  <2>1. pc # "callbacks" /\ pc' # "callbacks" /\ UNCHANGED <<batch, callbacks, added, ran>>
    BY <1>5 DEF Start, ReadClock, RunTimeouts, BeforePoll, PollEnds, PollReady, PollReturns,
                PollInterrupted, RunHandler, Loop, Go
  <2> QED
    BY <2>1, ListsAlone DEF QueueInv, BatchDone
<1>6. CASE \/ UserReturns \/ Stop \/ Close \/ ThreadWake \/ Tick
           \/ \E deadline \in 0 .. MaxTime : AddTimeout(deadline)
           \/ \E t \in DOMAIN timeouts : RemoveTimeout(t)
           \/ \E fd \in Fds : AddHandler(fd) \/ RemoveHandler(fd)
  <2>1. UNCHANGED <<pc, batch, callbacks, added, ran>>
    BY <1>6 DEF UserReturns, Stop, Close, ThreadWake, Tick, AddTimeout, RemoveTimeout,
                AddHandler, RemoveHandler, loopVars
  <2> QED
    BY <2>1 DEF QueueInv, QueueTypeOK, BatchDone, Numbered
<1>7. CASE UNCHANGED vars
  BY <1>7 DEF vars, loopVars, QueueInv, QueueTypeOK, BatchDone, Numbered
<1> QED
  BY <1>1, <1>2, <1>3, <1>4, <1>5, <1>6, <1>7 DEF Next, LoopStep, User

\* add_callback: the callbacks of all threads run once each, in the order of adding.
THEOREM CallbacksAlwaysInOrder == Spec => []CallbacksInOrder
<1>1. Init => QueueInv
  BY SMT DEF Init, QueueInv, QueueTypeOK, BatchDone, Numbered
<1>2. QueueInv => CallbacksInOrder
  BY NumberedIsInOrder
<1> QED
  BY <1>1, <1>2, QueueKept, PTL DEF Spec

-----------------------------------------------------------------------------
(* Events.                                                                 *)

EventsInv ==
    /\ handlers \in [AllFds -> Nat] /\ events \in [AllFds -> Nat]
    /\ regs \in Nat
    /\ EventsMeetTheirHandler

LEMMA EventsKeptRight == EventsInv /\ [Next]_vars => EventsInv'
<1> SUFFICES ASSUME EventsInv, [Next]_vars
             PROVE  EventsInv'
  OBVIOUS
<1> USE DEF EventsInv
<1>1. ASSUME NEW ready, PollReturns(ready)
      PROVE  EventsInv'
  BY <1>1 DEF PollReturns, EventsMeetTheirHandler
<1>2. CASE PollEnds \/ PollReady
  BY <1>1, <1>2 DEF PollEnds, PollReady
<1>3. CASE RunHandler
  BY <1>3 DEF RunHandler, EventsMeetTheirHandler
<1>4. ASSUME NEW fd \in Fds, AddHandler(fd)
      PROVE  EventsInv'
  <2>1. handlers[fd] = 0 /\ regs + 1 \in Nat /\ regs' = regs + 1
        /\ handlers' = [handlers EXCEPT ![fd] = regs + 1] /\ events' = events
    BY <1>4, SMT DEF AddHandler
  \* Nothing is left that was polled for an earlier registration.
  <2>2. events[fd] = 0
    BY <2>1 DEF EventsMeetTheirHandler, AllFds
  <2> QED
    BY <2>1, <2>2 DEF EventsMeetTheirHandler
<1>5. ASSUME NEW fd \in Fds, RemoveHandler(fd)
      PROVE  EventsInv'
  BY <1>5 DEF RemoveHandler, EventsWithout, EventsMeetTheirHandler
<1>6. CASE Close
  BY <1>6 DEF Close, EventsMeetTheirHandler
<1>7. CASE \/ Start \/ TakeCallbacks \/ RunCallback \/ ReadClock \/ RunTimeouts
           \/ BeforePoll \/ PollInterrupted \/ UserReturns \/ AddCallback \/ Stop
           \/ ThreadAddCallback \/ ThreadWake \/ Tick
           \/ \E deadline \in 0 .. MaxTime : AddTimeout(deadline)
           \/ \E t \in DOMAIN timeouts : RemoveTimeout(t)
  <2>1. UNCHANGED <<handlers, events, regs>>
    BY <1>7 DEF Start, TakeCallbacks, RunCallback, ReadClock, RunTimeouts, BeforePoll,
                PollInterrupted, UserReturns, AddCallback, Stop, ThreadAddCallback,
                ThreadWake, Tick, AddTimeout, RemoveTimeout
  <2> QED
    BY <2>1 DEF EventsMeetTheirHandler
<1>8. CASE UNCHANGED vars
  BY <1>8 DEF vars, EventsMeetTheirHandler
<1> QED
  BY <1>2, <1>3, <1>4, <1>5, <1>6, <1>7, <1>8 DEF Next, LoopStep, User

\* start() and remove_handler: an event never reaches the handler of a later
\* registration of its descriptor.
THEOREM EventsAlwaysMeetTheirHandler == Spec => []EventsMeetTheirHandler
<1>1. Init => EventsInv
  <2> SUFFICES ASSUME Init PROVE EventsInv
    OBVIOUS
  <2>1. MaxRegs + 1 \in Nat
    BY IOLoopAssumption
  <2> QED
    BY <2>1 DEF Init, EventsInv, EventsMeetTheirHandler
<1>2. EventsInv => EventsMeetTheirHandler
  BY DEF EventsInv
<1> QED
  BY <1>1, <1>2, EventsKeptRight, PTL DEF Spec

-----------------------------------------------------------------------------
(* The parts share no state: only its own steps touch one.                 *)

LEMMA PartsAlone ==
    [RuntimeNext]_runtimeVars =>
        /\ [Poll!PollersNext]_pollerVars
        /\ [Periodic!PeriodicNext]_periodicVars
        /\ [Client!ClientNext]_clientVars
BY DEF RuntimeNext, runtimeVars, LoopRuns, TasksRun, PollersRun, PeriodicRuns, ClientRuns,
       pollerVars, periodicVars, clientVars

-----------------------------------------------------------------------------
(* Pollers: three implementations, one behaviour.                          *)

\* kqueue has a filter for reads unless it has one for writes only.
Filtered(fd, f) == asked[fd] # {} /\ (f \in asked[fd] \/ (f = "R" /\ "W" \notin asked[fd]))

\* What each keeps is a function of what it was asked for.
PollersInv ==
    /\ asked \in [Descriptors -> Poll!Requests \cup {{}}]
    /\ sets.read = {fd \in Descriptors : asked[fd] # {}}
    /\ sets.write = {fd \in Descriptors : "W" \in asked[fd]}
    /\ queue.active = asked
    /\ \A fd \in Descriptors : /\ <<fd, "R">> \in queue.filters <=> Filtered(fd, "R")
                               /\ <<fd, "W">> \in queue.filters <=> Filtered(fd, "W")

LEMMA PollersBegin == Poll!PollersInit => PollersInv
BY DEF Poll!PollersInit, Poll!Unregistered, PollersInv, Filtered

\* A step gives one descriptor other wanted, and the three follow.
LEMMA AskedAnew ==
    ASSUME PollersInv, NEW fd \in Descriptors, NEW wanted \in Poll!Requests \cup {{}},
           asked' = [asked EXCEPT ![fd] = wanted],
           sets'.read = IF wanted = {} THEN sets.read \ {fd} ELSE sets.read \cup {fd},
           sets'.write = IF "W" \in wanted THEN sets.write \cup {fd} ELSE sets.write \ {fd},
           queue'.active = [queue.active EXCEPT ![fd] = wanted],
           queue'.filters = (queue.filters \ Poll!Filters(fd, asked[fd]))
                               \cup (IF wanted = {} THEN {} ELSE Poll!Filters(fd, wanted))
    PROVE  PollersInv'
<1>1. /\ asked' \in [Descriptors -> Poll!Requests \cup {{}}]
      /\ \A d \in Descriptors : asked'[d] = IF d = fd THEN wanted ELSE asked[d]
  BY DEF PollersInv
<1>2. sets'.read = {d \in Descriptors : asked'[d] # {}}
  BY <1>1 DEF PollersInv
<1>3. sets'.write = {d \in Descriptors : "W" \in asked'[d]}
  BY <1>1 DEF PollersInv
<1>4. queue'.active = asked'
  BY DEF PollersInv
<1>5. ASSUME NEW d \in Descriptors
      PROVE  /\ <<d, "R">> \in queue'.filters <=> Filtered(d, "R")'
             /\ <<d, "W">> \in queue'.filters <=> Filtered(d, "W")'
  <2>1. /\ <<d, "R">> \in queue.filters <=> Filtered(d, "R")
        /\ <<d, "W">> \in queue.filters <=> Filtered(d, "W")
    BY DEF PollersInv
  <2> DEFINE old == Poll!Filters(fd, asked[fd])
             new == IF wanted = {} THEN {} ELSE Poll!Filters(fd, wanted)
  <2>2. /\ <<d, "R">> \in old <=> d = fd /\ ("R" \in asked[fd] \/ "W" \notin asked[fd])
        /\ <<d, "W">> \in old <=> d = fd /\ "W" \in asked[fd]
    BY DEF Poll!Filters
  <2>3. /\ <<d, "R">> \in new <=> d = fd /\ wanted # {} /\ ("R" \in wanted \/ "W" \notin wanted)
        /\ <<d, "W">> \in new <=> d = fd /\ "W" \in wanted
    BY DEF Poll!Filters
  <2>4. queue'.filters = (queue.filters \ old) \cup new
    OBVIOUS
  <2> HIDE DEF old, new
  <2>5. \A x : x \in queue'.filters <=> (x \in queue.filters /\ x \notin old) \/ x \in new
    BY <2>4
  <2>6. /\ <<d, "R">> \in queue'.filters <=>
              (<<d, "R">> \in queue.filters /\ <<d, "R">> \notin old) \/ <<d, "R">> \in new
        /\ <<d, "W">> \in queue'.filters <=>
              (<<d, "W">> \in queue.filters /\ <<d, "W">> \notin old) \/ <<d, "W">> \in new
    BY <2>5
  <2>7. asked'[d] = IF d = fd THEN wanted ELSE asked[d]
    BY <1>1
  <2> QED
    BY <2>1, <2>2, <2>3, <2>6, <2>7 DEF Filtered
<1> QED
  BY <1>1, <1>2, <1>3, <1>4, <1>5 DEF PollersInv

LEMMA RegisterKeeps ==
    ASSUME PollersInv, NEW fd \in Descriptors, NEW wanted \in Poll!Requests,
           Poll!Register(fd, wanted)
    PROVE  PollersInv'
<1>1. asked[fd] = {} /\ wanted # {} /\ "E" \in wanted
  BY DEF Poll!Register, Poll!Unregistered, Poll!Requests
<1>2. /\ asked' = [asked EXCEPT ![fd] = wanted]
      /\ sets'.read = sets.read \cup {fd}
      /\ sets'.write = IF "W" \in wanted THEN sets.write \cup {fd} ELSE sets.write
      /\ queue'.active = [queue.active EXCEPT ![fd] = wanted]
      /\ queue'.filters = queue.filters \cup Poll!Filters(fd, wanted)
  BY <1>1 DEF Poll!Register, Poll!SelectRegister, Poll!QueueRegister, Poll!ReadsToo, Poll!With
<1>3. fd \notin sets.write
  BY <1>1 DEF PollersInv
<1>4. queue.filters \ Poll!Filters(fd, asked[fd]) = queue.filters
  BY <1>1 DEF PollersInv, Poll!Filters, Filtered
<1> QED
  <2>1. sets'.write = IF "W" \in wanted THEN sets.write \cup {fd} ELSE sets.write \ {fd}
    BY <1>2, <1>3
  <2>2. sets'.read = IF wanted = {} THEN sets.read \ {fd} ELSE sets.read \cup {fd}
    BY <1>1, <1>2
  <2>3. queue'.filters = (queue.filters \ Poll!Filters(fd, asked[fd]))
                            \cup (IF wanted = {} THEN {} ELSE Poll!Filters(fd, wanted))
    BY <1>1, <1>2, <1>4
  <2> QED
    BY <1>2, <2>1, <2>2, <2>3, AskedAnew

LEMMA ModifyKeeps ==
    ASSUME PollersInv, NEW fd \in Descriptors, NEW wanted \in Poll!Requests,
           Poll!Modify(fd, wanted)
    PROVE  PollersInv'
<1>1. wanted # {} /\ "E" \in wanted
  BY DEF Poll!Requests
<1>2. /\ asked' = [asked EXCEPT ![fd] = wanted]
      /\ sets' = Poll!SelectRegister(Poll!SelectUnregister(sets, fd), fd, wanted)
      /\ queue' = Poll!QueueRegister(Poll!QueueUnregister(queue, fd), fd, wanted)
  BY DEF Poll!Modify, Poll!Cleared
<1>3. /\ sets'.read = (sets.read \ {fd}) \cup {fd}
      /\ sets'.write = IF "W" \in wanted THEN (sets.write \ {fd}) \cup {fd} ELSE sets.write \ {fd}
  BY <1>1, <1>2 DEF Poll!SelectRegister, Poll!SelectUnregister, Poll!ReadsToo, Poll!With
<1>4. /\ queue'.active = [[queue.active EXCEPT ![fd] = {}] EXCEPT ![fd] = wanted]
      /\ queue'.filters = (queue.filters \ Poll!Filters(fd, queue.active[fd]))
                              \cup Poll!Filters(fd, wanted)
  BY <1>2 DEF Poll!QueueRegister, Poll!QueueUnregister, Poll!Unregistered
<1>5. queue.active = asked /\ queue'.active = [queue.active EXCEPT ![fd] = wanted]
  BY <1>4 DEF PollersInv
<1> QED
  BY <1>1, <1>2, <1>3, <1>4, <1>5, AskedAnew

LEMMA UnregisterKeeps ==
    ASSUME PollersInv, NEW fd \in Descriptors, Poll!Unregister(fd) PROVE PollersInv'
<1>1. /\ asked' = [asked EXCEPT ![fd] = {}]
      /\ sets'.read = sets.read \ {fd} /\ sets'.write = sets.write \ {fd}
      /\ queue'.active = [queue.active EXCEPT ![fd] = {}]
      /\ queue'.filters = queue.filters \ Poll!Filters(fd, queue.active[fd])
  BY DEF Poll!Unregister, Poll!Unregistered, Poll!SelectUnregister, Poll!QueueUnregister
<1>2. queue.active = asked
  BY DEF PollersInv
<1> QED
  BY <1>1, <1>2, AskedAnew

LEMMA PollersKept == PollersInv /\ [Poll!PollersNext]_pollerVars => PollersInv'
<1> SUFFICES ASSUME PollersInv, [Poll!PollersNext]_pollerVars PROVE PollersInv'
  OBVIOUS
<1>1. CASE UNCHANGED pollerVars
  BY <1>1 DEF pollerVars, PollersInv, Filtered
<1>2. ASSUME NEW fd \in Descriptors, Poll!KernelChanges(fd) PROVE PollersInv'
  BY <1>2 DEF Poll!KernelChanges, PollersInv, Filtered
<1> QED
  BY <1>1, <1>2, RegisterKeeps, ModifyKeeps, UnregisterKeeps DEF Poll!PollersNext

LEMMA PollersAlike == PollersInv => PollersAgree
<1> SUFFICES ASSUME PollersInv, NEW fd \in Descriptors,
                    NEW got \in {Poll!Select(fd), Poll!KQueue(fd, TRUE), Poll!KQueue(fd, FALSE)}
             PROVE  /\ Poll!EPoll(fd) # {} => got # {}
                    /\ \A e \in Poll!EPoll(fd) \cap {"R", "W"} : got \cap {e, "E"} # {}
                    /\ "W" \in got => "W" \in asked[fd]
                    /\ asked[fd] = {} => got = {}
  BY DEF PollersAgree, Poll!PollersAgree, Poll!Unregistered
<1>1. /\ fd \in sets.read <=> asked[fd] # {}
      /\ fd \in sets.write <=> "W" \in asked[fd]
      /\ <<fd, "W">> \in queue.filters <=> "W" \in asked[fd]
      /\ <<fd, "R">> \in queue.filters <=> asked[fd] # {} /\ ("R" \in asked[fd] \/ "W" \notin asked[fd])
      /\ asked[fd] \subseteq {"R", "W", "E"}
  BY DEF PollersInv, Filtered, Poll!Requests
<1>2. Poll!HungUp(fd) => Poll!Readable(fd) /\ Poll!Writable(fd)
  BY DEF Poll!HungUp, Poll!Readable, Poll!Writable
<1>3. CASE got = Poll!Select(fd)
  BY <1>1, <1>2, <1>3 DEF Poll!Select, Poll!EPoll
<1>4. ASSUME NEW first \in BOOLEAN, got = Poll!KQueue(fd, first)
      PROVE  /\ Poll!EPoll(fd) # {} => got # {}
             /\ \A e \in Poll!EPoll(fd) \cap {"R", "W"} : got \cap {e, "E"} # {}
             /\ "W" \in got => "W" \in asked[fd]
             /\ asked[fd] = {} => got = {}
  BY <1>1, <1>2, <1>4 DEF Poll!KQueue, Poll!EPoll
<1> QED
  BY <1>3, <1>4

(* On any descriptors and after any calls, what one of the three pollers   *)
(* reports the others report too, if only as an error, and none reports    *)
(* what was not asked for.                                                 *)
THEOREM PollersAlwaysAgree == RuntimeSpec => []PollersAgree
<1>1. RuntimeInit => PollersInv
  BY PollersBegin DEF RuntimeInit
<1>2. PollersInv /\ [RuntimeNext]_runtimeVars => PollersInv'
  BY PollersKept, PartsAlone
<1> QED
  BY <1>1, <1>2, PollersAlike, PTL DEF RuntimeSpec

-----------------------------------------------------------------------------
(* PeriodicCallback: it goes on.                                           *)

PeriodicTypeOK ==
    /\ periodic \in [running : BOOLEAN, next : Nat, timeout : [id : Nat, at : Nat],
                     inside : BOOLEAN, made : Nat]
    /\ timers \subseteq [id : Nat, at : Nat]
    /\ time \in Nat

\* The next time is never further away than a period.
PeriodicInv == PeriodicTypeOK /\ periodic.next <= time + Period /\ GoesOn

LEMMA NextTimeIsNear ==
    ASSUME NEW next \in Nat, NEW today \in Nat, next <= today + Period
    PROVE  Periodic!NextTime(next, today) \in Nat /\ Periodic!NextTime(next, today) <= today + Period
<1>1. CASE next > today
  BY <1>1 DEF Periodic!NextTime
<1>2. CASE ~(next > today)
  <2> DEFINE k == (today - next) \div Period
  <2>1. today - next \in Nat /\ Period \in Nat /\ Period > 0
    BY <1>2, PeriodAssumption
  <2>2. k \in Nat /\ Period * k <= today - next
    BY <2>1
  <2>3. Periodic!NextTime(next, today) = next + Period * (k + 1)
    BY <1>2 DEF Periodic!NextTime
  <2> HIDE DEF k
  <2>4. Period * (k + 1) = Period * k + Period /\ Period * k \in Nat
    BY <2>1, <2>2
  <2> QED
    BY <2>1, <2>2, <2>3, <2>4
<1> QED
  BY <1>1, <1>2

\* What _schedule_next leaves when the callback is to go on.
LEMMA ScheduledIsNear ==
    ASSUME NEW p \in [running : BOOLEAN, next : Nat, timeout : [id : Nat, at : Nat],
                      inside : BOOLEAN, made : Nat],
           p.made = periodic.made, p.next <= time + Period, PeriodicTypeOK, time' = time,
           Periodic!Scheduled(Periodic!ScheduleNext(p))
    PROVE  PeriodicInv'
<1>0. time \in Nat /\ Period \in Nat /\ timers \subseteq [id : Nat, at : Nat]
  BY PeriodAssumption DEF PeriodicTypeOK
<1>1. CASE p.running
  <2>1. PICK at \in Nat : at = Periodic!NextTime(p.next, time) /\ at <= time + Period
    BY <1>0, NextTimeIsNear
  <2>2. periodic' = [p EXCEPT !.next = at, !.made = @ + 1,
                              !.timeout = [id |-> p.made + 1, at |-> at]]
    BY <1>1, <2>1 DEF Periodic!Scheduled, Periodic!ScheduleNext, Periodic!Timeout
  <2>3. /\ periodic'.next = at /\ periodic'.made = p.made + 1 /\ periodic'.inside = p.inside
        /\ periodic'.timeout = [id |-> p.made + 1, at |-> at] /\ periodic'.running = p.running
    BY <2>2
  <2>4. timers' = timers \cup {periodic'.timeout}
    <3>1. periodic' = Periodic!ScheduleNext(p)
      BY DEF Periodic!Scheduled
    <3>2. periodic'.made > periodic.made
      BY <2>3
    <3> QED
      BY <3>1, <3>2 DEF Periodic!Scheduled
  <2>5. p.made + 1 \in Nat /\ [id |-> p.made + 1, at |-> at] \in [id : Nat, at : Nat]
    BY <2>1
  <2>6. periodic' \in [running : BOOLEAN, next : Nat, timeout : [id : Nat, at : Nat],
                       inside : BOOLEAN, made : Nat]
    BY <2>1, <2>2, <2>5
  <2>7. PeriodicTypeOK'
    BY <2>3, <2>4, <2>5, <2>6 DEF PeriodicTypeOK
  <2>8. \E t \in timers' : t.at <= time' + Period
    BY <2>1, <2>3, <2>4
  <2> QED
    BY <2>1, <2>3, <2>7, <2>8 DEF PeriodicInv, GoesOn, Periodic!GoesOn
<1>2. CASE ~p.running
  <2>1. periodic' = p /\ timers' = timers
    BY <1>2 DEF Periodic!Scheduled, Periodic!ScheduleNext
  <2> QED
    BY <1>0, <1>2, <2>1 DEF PeriodicInv, PeriodicTypeOK, GoesOn, Periodic!GoesOn
<1> QED
  BY <1>1, <1>2

LEMMA PeriodicKept == PeriodicInv /\ [Periodic!PeriodicNext]_periodicVars => PeriodicInv'
<1> SUFFICES ASSUME PeriodicInv, [Periodic!PeriodicNext]_periodicVars PROVE PeriodicInv'
  OBVIOUS
<1>0. time \in Nat /\ Period \in Nat /\ Period > 0
  BY PeriodAssumption DEF PeriodicInv, PeriodicTypeOK
<1>1. CASE UNCHANGED periodicVars
  BY <1>1 DEF periodicVars, PeriodicInv, PeriodicTypeOK, GoesOn, Periodic!GoesOn
<1>2. CASE Periodic!Start
  <2> DEFINE p == [periodic EXCEPT !.running = TRUE, !.next = time]
  <2>1. /\ p \in [running : BOOLEAN, next : Nat, timeout : [id : Nat, at : Nat],
                  inside : BOOLEAN, made : Nat]
        /\ p.made = periodic.made /\ p.next = time
    BY <1>0 DEF PeriodicInv, PeriodicTypeOK
  <2>2. Periodic!Scheduled(Periodic!ScheduleNext(p)) /\ time' = time
    BY <1>2 DEF Periodic!Start
  <2> HIDE DEF p
  <2> QED
    BY <1>0, <2>1, <2>2, ScheduledIsNear DEF PeriodicInv
<1>3. CASE Periodic!Stop
  BY <1>3 DEF Periodic!Stop, Periodic!NoTimeout, PeriodicInv, PeriodicTypeOK, GoesOn, Periodic!GoesOn
<1>4. ASSUME NEW t \in timers, Periodic!Run(t) PROVE PeriodicInv'
  BY <1>4 DEF Periodic!Run, PeriodicInv, PeriodicTypeOK, GoesOn, Periodic!GoesOn
<1>5. CASE Periodic!CallbackReturns
  <2> DEFINE p == [periodic EXCEPT !.inside = FALSE]
  <2>1. /\ p \in [running : BOOLEAN, next : Nat, timeout : [id : Nat, at : Nat],
                  inside : BOOLEAN, made : Nat]
        /\ p.made = periodic.made /\ p.next <= time + Period
    BY <1>0 DEF PeriodicInv, PeriodicTypeOK
  <2>2. Periodic!Scheduled(Periodic!ScheduleNext(p)) /\ time' = time
    BY <1>5 DEF Periodic!CallbackReturns
  <2> HIDE DEF p
  <2> QED
    BY <1>0, <2>1, <2>2, ScheduledIsNear DEF PeriodicInv
<1>6. CASE Periodic!Tick
  <2>1. time' = time + 1 /\ UNCHANGED <<periodic, timers>>
    BY <1>6 DEF Periodic!Tick
  <2>2. \A t \in timers : t.at <= time + Period => t.at <= time' + Period
    BY <1>0, <2>1 DEF PeriodicInv, PeriodicTypeOK
  <2> QED
    BY <1>0, <2>1, <2>2 DEF PeriodicInv, PeriodicTypeOK, GoesOn, Periodic!GoesOn
<1> QED
  BY <1>1, <1>2, <1>3, <1>4, <1>5, <1>6 DEF Periodic!PeriodicNext

(* Whatever it raises, however late it is and whenever it is stopped and   *)
(* started: a callback that was started is due within a period.            *)
THEOREM PeriodicAlwaysGoesOn == RuntimeSpec => []GoesOn
<1>1. RuntimeInit => PeriodicInv
  BY PeriodAssumption DEF RuntimeInit, Periodic!PeriodicInit, Periodic!NoTimeout, PeriodicInv,
     PeriodicTypeOK, GoesOn, Periodic!GoesOn
<1>2. PeriodicInv /\ [RuntimeNext]_runtimeVars => PeriodicInv'
  BY PeriodicKept, PartsAlone
<1>3. PeriodicInv => GoesOn
  BY DEF PeriodicInv
<1> QED
  BY <1>1, <1>2, <1>3, PTL DEF RuntimeSpec

-----------------------------------------------------------------------------
(* The HTTP client: places in the queue and in the client.                 *)

\* Sets have the size in the module of the client that they have here.
LEMMA SameSize == \A S : Client!Cardinality(S) = Cardinality(S)
BY DEF Client!Cardinality, Cardinality

LEMMA LowestExists ==
    ASSUME NEW S \in SUBSET Nat, S # {}
    PROVE  \E n \in S : \A m \in S : n <= m
<1> DEFINE R == OpToRel(<, Nat)
<1>1. IsWellFoundedOn(R, Nat)
  BY NatLessThanWellFounded
<1>2. \A i, j \in Nat : <<i, j>> \in R <=> i < j
  BY DEF OpToRel
<1> HIDE DEF R
<1>3. PICK n \in S : \A m \in S : ~(<<m, n>> \in R)
  BY <1>1, WFMin
<1>4. n \in Nat /\ \A m \in S : m \in Nat /\ ~(m < n)
  BY <1>2, <1>3
<1>5. \A m \in S : n <= m
  BY <1>4
<1> QED
  BY <1>5

UpTo(S, k) == {j \in S : j <= k}

\* Sets of places are finite.
LEMMA PlacesFinite ==
    ASSUME NEW N \in Nat, NEW S \in SUBSET (1 .. N)
    PROVE  IsFiniteSet(S) /\ Cardinality(S) \in Nat
<1>1. IsFiniteSet(1 .. N)
  BY FS_Interval
<1>2. IsFiniteSet(S)
  BY <1>1, FS_Subset
<1> QED
  BY <1>2, FS_CardinalityType

LEMMA UpToFinite ==
    ASSUME NEW N \in Nat, NEW S \in SUBSET (1 .. N), NEW k
    PROVE  /\ UpTo(S, k) \in SUBSET S /\ UpTo(S, k) \in SUBSET (1 .. N)
           /\ IsFiniteSet(UpTo(S, k)) /\ Cardinality(UpTo(S, k)) \in Nat
           /\ Cardinality(UpTo(S, k)) <= Cardinality(S)
<1>1. UpTo(S, k) \in SUBSET S /\ UpTo(S, k) \in SUBSET (1 .. N)
  BY DEF UpTo
<1>2. IsFiniteSet(S)
  BY PlacesFinite
<1> QED
  BY <1>1, <1>2, PlacesFinite, FS_Subset

\* One place more.
LEMMA UpToNext ==
    ASSUME NEW N \in Nat, NEW S \in SUBSET (1 .. N), NEW k \in Nat
    PROVE  Cardinality(UpTo(S, k + 1)) =
               IF k + 1 \in S THEN Cardinality(UpTo(S, k)) + 1 ELSE Cardinality(UpTo(S, k))
<1>0. \A j \in S : j \in Int /\ (j <= k + 1 <=> j <= k \/ j = k + 1)
  OBVIOUS
<1>1. CASE k + 1 \in S
  <2>0. \A j : j \in UpTo(S, k + 1) <=> j \in UpTo(S, k) \/ j = k + 1
    BY <1>0, <1>1 DEF UpTo
  <2>1. UpTo(S, k + 1) = UpTo(S, k) \cup {k + 1} /\ k + 1 \notin UpTo(S, k)
    <3>1. ~(k + 1 <= k)
      OBVIOUS
    <3>2. k + 1 \notin UpTo(S, k)
      BY <3>1 DEF UpTo
    <3> QED
      BY <2>0, <3>2
  <2>2. IsFiniteSet(UpTo(S, k))
    BY UpToFinite
  <2>3. Cardinality(UpTo(S, k) \cup {k + 1}) = Cardinality(UpTo(S, k)) + 1
    BY <2>1, <2>2, FS_AddElement
  <2> QED
    BY <1>1, <2>1, <2>3
<1>2. CASE k + 1 \notin S
  <2>0. \A j : j \in UpTo(S, k + 1) <=> j \in UpTo(S, k)
    BY <1>0, <1>2 DEF UpTo
  <2>1. UpTo(S, k + 1) = UpTo(S, k)
    BY <2>0
  <2> QED
    BY <1>2, <2>1
<1> QED
  BY <1>1, <1>2

LEMMA UpToEnds ==
    ASSUME NEW N \in Nat, NEW S \in SUBSET (1 .. N)
    PROVE  Cardinality(UpTo(S, 0)) = 0 /\ UpTo(S, N) = S
<1>1. \A j \in S : ~(j <= 0) /\ j <= N
  OBVIOUS
<1>2. \A j : j \notin UpTo(S, 0) /\ (j \in UpTo(S, N) <=> j \in S)
  BY <1>1 DEF UpTo
<1>3. UpTo(S, 0) = {} /\ UpTo(S, N) = S
  BY <1>2
<1> QED
  BY <1>3, FS_EmptySet

\* Every number up to the size is the rank of one member, ...
LEMMA RankTaken ==
    ASSUME NEW N \in Nat, NEW S \in SUBSET (1 .. N), NEW m \in 1 .. Cardinality(S)
    PROVE  \E k \in S : Cardinality(UpTo(S, k)) = m
<1> DEFINE C(k) == Cardinality(UpTo(S, k))
           B == {k \in Nat : m <= C(k)}
<1>1. N \in B
  <2>1. C(N) = Cardinality(S)
    BY UpToEnds
  <2> QED
    BY <2>1, PlacesFinite
<1>2. PICK k \in B : \A j \in B : k <= j
  BY <1>1, LowestExists
<1>3. k \in Nat /\ m <= C(k) /\ m \in Nat /\ m >= 1
  BY <1>2, PlacesFinite
<1>4. k # 0
  BY <1>3, UpToEnds
<1> DEFINE i == k - 1
<1>5. i \in Nat /\ k = i + 1 /\ i < k
  BY <1>3, <1>4
<1>6. C(i) \in Nat /\ C(k) \in Nat
  BY UpToFinite
<1>7. ~(m <= C(i))
  BY <1>2, <1>5, <1>6
<1>8. C(i + 1) = IF i + 1 \in S THEN C(i) + 1 ELSE C(i)
  BY <1>5, UpToNext
<1> HIDE DEF C, i
<1>9. k \in S /\ C(k) = m
  BY <1>3, <1>5, <1>6, <1>7, <1>8
<1> QED
  BY <1>9 DEF C

\* ... and no two members have the same.
LEMMA RankOwn ==
    ASSUME NEW N \in Nat, NEW S \in SUBSET (1 .. N), NEW j \in S, NEW k \in S,
           Cardinality(UpTo(S, j)) = Cardinality(UpTo(S, k))
    PROVE  j = k
<1>1. ASSUME NEW a \in S, NEW b \in S, a < b, Cardinality(UpTo(S, a)) = Cardinality(UpTo(S, b))
      PROVE  FALSE
  <2>1. a \in Int /\ b \in Int /\ \A l \in S : l \in Int
    OBVIOUS
  <2>0. \A l \in S : l <= a => l <= b
    BY <1>1, <2>1
  <2>2. UpTo(S, a) \in SUBSET UpTo(S, b)
    BY <2>0 DEF UpTo
  <2>3. b \in UpTo(S, b) /\ b \notin UpTo(S, a)
    BY <1>1, <2>1 DEF UpTo
  <2>4. IsFiniteSet(UpTo(S, b))
    BY UpToFinite
  <2>5. UpTo(S, b) = UpTo(S, a)
    BY <1>1, <2>2, <2>4, FS_Subset
  <2> QED
    BY <2>3, <2>5
<1>2. j \in Int /\ k \in Int
  OBVIOUS
<1> QED
  BY <1>1, <1>2

\* Nth counts the members of a set in their order.
LEMMA NthIs ==
    ASSUME NEW N \in Nat, NEW S \in SUBSET (1 .. N)
    PROVE  /\ \A m \in 1 .. Cardinality(S) : /\ Client!Nth(S, m) \in S
                                             /\ Cardinality(UpTo(S, Client!Nth(S, m))) = m
           /\ \A k \in S : \E m \in 1 .. Cardinality(S) : Client!Nth(S, m) = k
<1>1. ASSUME NEW m \in 1 .. Cardinality(S)
      PROVE  Client!Nth(S, m) \in S /\ Cardinality(UpTo(S, Client!Nth(S, m))) = m
  <2>1. \E k \in S : Cardinality(UpTo(S, k)) = m
    BY RankTaken
  <2>2. \A k : Client!Rank(S, k) = Cardinality(UpTo(S, k))
    BY SameSize DEF Client!Rank, UpTo
  <2>3. \E k \in S : Client!Rank(S, k) = m
    BY <2>1, <2>2
  <2>4. Client!Nth(S, m) \in S /\ Client!Rank(S, Client!Nth(S, m)) = m
    BY <2>3 DEF Client!Nth
  <2> QED
    BY <2>2, <2>4
<1>2. ASSUME NEW k \in S PROVE \E m \in 1 .. Cardinality(S) : Client!Nth(S, m) = k
  <2> DEFINE m == Cardinality(UpTo(S, k))
  <2>1. m \in Nat /\ m <= Cardinality(S) /\ Cardinality(S) \in Nat /\ IsFiniteSet(UpTo(S, k))
    BY UpToFinite, PlacesFinite
  <2>2. k \in UpTo(S, k)
    BY DEF UpTo
  <2>3. m # 0
    BY <2>1, <2>2, FS_EmptySet
  <2> HIDE DEF m
  <2>4. m \in 1 .. Cardinality(S)
    BY <2>1, <2>3
  <2>5. Client!Nth(S, m) \in S /\ Cardinality(UpTo(S, Client!Nth(S, m))) = m
    BY <1>1, <2>4
  <2>6. Client!Nth(S, m) = k
    BY <2>5, RankOwn DEF m
  <2> QED
    BY <2>4, <2>6
<1> QED
  BY <1>1, <1>2

-----------------------------------------------------------------------------
(* What the client keeps.                                                  *)

AnswerType == {"ok", "error", "timeout", "closed"}
EntryType == [fetch : Client!Fetches, hop : Nat, bad : BOOLEAN, cb : BOOLEAN]
CallbackKinds == {"connect", "headers", "line", "chunk", "data", "body", "closed"}
ReadKinds == {"none", "headers", "line", "chunk", "data", "close"}
ResponseKinds == [kind : {"none", "ok", "redirect", "nowhere", "malformed"},
                  framing : {"none", "length", "chunked", "close"}]
ConnType ==
    [fetch : Client!Fetches, hop : Nat, cb : BOOLEAN, held : BOOLEAN, timer : BOOLEAN,
     dialing : BOOLEAN, open : BOOLEAN, closeCb : BOOLEAN,
     reading : ReadKinds, queue : Seq(CallbackKinds), due : Nat, resp : ResponseKinds,
     sent : Nat, gone : {"no", "fin", "reset"}, got : Nat, used : Nat, body : Nat]
ClientType(x) ==
    /\ x = [waiting |-> x.waiting, conns |-> x.conns, answers |-> x.answers]
    /\ x.waiting \in Seq(EntryType) /\ x.conns \in Seq(ConnType)
    /\ x.answers \in [Client!Fetches -> Seq(AnswerType)]

Running(x) == Cardinality(Client!Active(x))
AtMost(x) == Running(x) \in Nat /\ Running(x) <= MaxClients
Filled(x) == AtMost(x) /\ (x.waiting # <<>> => Running(x) = MaxClients)

LEMMA ActiveFinite ==
    ASSUME NEW x, x.conns \in Seq(ConnType)
    PROVE  Client!Active(x) \in SUBSET (1 .. Len(x.conns)) /\ Running(x) \in Nat
           /\ IsFiniteSet(Client!Active(x))
<1>1. Len(x.conns) \in Nat /\ Client!Active(x) \in SUBSET (1 .. Len(x.conns))
  BY DEF Client!Active
<1> QED
  BY <1>1, PlacesFinite DEF Running

-----------------------------------------------------------------------------
(* The queue is processed.                                                 *)

\* How many connections the first n entries need.
LEMMA GoodGrows ==
    ASSUME NEW w \in Seq(EntryType)
    PROVE  /\ \A n \in 0 .. Len(w) : /\ Client!Good(w, n) \in SUBSET (1 .. n)
                                     /\ Cardinality(Client!Good(w, n)) \in Nat
           /\ Cardinality(Client!Good(w, 0)) = 0
           /\ \A n \in 0 .. Len(w) - 1 :
                 /\ Cardinality(Client!Good(w, n)) <= Cardinality(Client!Good(w, n + 1))
                 /\ Cardinality(Client!Good(w, n + 1)) <= Cardinality(Client!Good(w, n)) + 1
<1> DEFINE L == Len(w)
           S == Client!Good(w, L)
<1>1. L \in Nat /\ S \in SUBSET (1 .. L)
  BY DEF Client!Good
<1>2. ASSUME NEW n \in 0 .. L PROVE Client!Good(w, n) = UpTo(S, n)
  BY <1>1 DEF Client!Good, UpTo
<1>3. ASSUME NEW n \in 0 .. L
      PROVE  Client!Good(w, n) \in SUBSET (1 .. n) /\ Cardinality(Client!Good(w, n)) \in Nat
  <2>1. Client!Good(w, n) \in SUBSET (1 .. n) /\ n \in Nat
    BY <1>1 DEF Client!Good
  <2> QED
    BY <2>1, PlacesFinite
<1> HIDE DEF S, L
<1>4. Cardinality(Client!Good(w, 0)) = 0
  <2>1. 0 \in 0 .. L
    BY <1>1
  <2>2. Client!Good(w, 0) = UpTo(S, 0)
    BY <1>2, <2>1
  <2> QED
    BY <1>1, <2>2, UpToEnds
<1>5. ASSUME NEW n \in 0 .. L - 1
      PROVE  /\ Cardinality(Client!Good(w, n)) <= Cardinality(Client!Good(w, n + 1))
             /\ Cardinality(Client!Good(w, n + 1)) <= Cardinality(Client!Good(w, n)) + 1
  <2>1. n \in Nat /\ n \in 0 .. L /\ n + 1 \in 0 .. L
    BY <1>1
  <2>2. Client!Good(w, n) = UpTo(S, n) /\ Client!Good(w, n + 1) = UpTo(S, n + 1)
    BY <1>2, <2>1
  <2>3. Cardinality(UpTo(S, n + 1)) =
            IF n + 1 \in S THEN Cardinality(UpTo(S, n)) + 1 ELSE Cardinality(UpTo(S, n))
    BY <1>1, <2>1, UpToNext
  <2>4. Cardinality(UpTo(S, n)) \in Nat
    BY <1>3, <2>1, <2>2
  <2> QED
    BY <2>2, <2>3, <2>4
<1> QED
  BY <1>3, <1>4, <1>5 DEF L

\* As many entries are taken as get a place, or all.
LEMMA TakesIs ==
    ASSUME NEW x, x.waiting \in Seq(EntryType), Client!Capacity(x) \in Nat
    PROVE  LET n == Client!Takes(x)
               g == Cardinality(Client!Good(x.waiting, n))
           IN  /\ n \in 0 .. Len(x.waiting) /\ g \in Nat /\ g <= Client!Capacity(x)
               /\ n = Len(x.waiting) \/ g = Client!Capacity(x)
<1> DEFINE w == x.waiting
           L == Len(w)
           cap == Client!Capacity(x)
           G(n) == Cardinality(Client!Good(w, n))
           Fit(n) == Client!Fits(x, n)
           Best(n) == Fit(n) /\ \A m \in 0 .. L : Fit(m) => m <= n
<1>1. L \in Nat /\ cap \in Nat
  OBVIOUS
<1>2. /\ \A n \in 0 .. L : G(n) \in Nat
      /\ G(0) = 0
      /\ \A n \in 0 .. L - 1 : G(n) <= G(n + 1) /\ G(n + 1) <= G(n) + 1
  BY GoodGrows
<1>3. (\E n \in 0 .. L : Best(n)) => Client!Takes(x) \in 0 .. L /\ Best(Client!Takes(x))
  BY DEF Client!Takes
<1>9. \A n : Fit(n) <=> (n > 0 => G(n - 1) < cap)
  BY SameSize DEF Client!Fits
<1> HIDE DEF G, L, cap, Fit
<1>4. \E n \in 0 .. L : Best(n)
  <2> DEFINE B == {L - n : n \in {m \in 0 .. L : Fit(m)}}
  <2>1. 0 \in 0 .. L /\ Fit(0)
    BY <1>1, <1>9
  <2>2. L - 0 \in B
    BY <2>1
  <2>3. B \in SUBSET Nat
    BY <1>1
  <2>4. PICK b \in B : \A c \in B : b <= c
    BY <2>2, <2>3, LowestExists
  <2>5. PICK n \in {m \in 0 .. L : Fit(m)} : b = L - n
    BY <2>4
  <2>6. ASSUME NEW m \in 0 .. L, Fit(m) PROVE m <= n
    <3>1. L - m \in B
      BY <2>6
    <3>2. L - n <= L - m
      BY <2>4, <2>5, <3>1
    <3> QED
      BY <1>1, <2>5, <2>6, <3>2
  <2> QED
    BY <2>5, <2>6
<1> DEFINE n == Client!Takes(x)
<1>5. n \in 0 .. L /\ Best(n)
  BY <1>3, <1>4
<1> HIDE DEF n
<1>6. n \in Nat /\ G(n) \in Nat
  BY <1>1, <1>2, <1>5
<1>7. G(n) <= cap
  <2>1. CASE n = 0
    BY <1>1, <1>2, <2>1
  <2>2. CASE n > 0
    <3>1. n - 1 \in 0 .. L - 1 /\ (n - 1) + 1 = n
      BY <1>1, <1>5, <2>2
    <3>2. G(n - 1) < cap
      BY <1>5, <1>9, <2>2
    <3>3. G(n) <= G(n - 1) + 1 /\ G(n - 1) \in Nat
      BY <1>1, <1>2, <3>1
    <3> QED
      BY <1>1, <1>6, <3>2, <3>3
  <2> QED
    BY <1>6, <2>1, <2>2
<1>8. ASSUME n # L PROVE G(n) = cap
  <2>1. n + 1 \in 0 .. L /\ n + 1 > 0 /\ (n + 1) - 1 = n /\ ~(n + 1 <= n)
    BY <1>1, <1>5, <1>6, <1>8
  <2>2. ~Fit(n + 1)
    BY <1>5, <2>1
  <2>3. ~(G(n) < cap)
    BY <1>9, <2>1, <2>2
  <2> QED
    BY <1>1, <1>6, <1>7, <2>3
<1> QED
  BY <1>5, <1>6, <1>7, <1>8 DEF n, G, cap, L

\* What becomes of the first n entries: the one at place at[m] gets the m-th of g new
\* connections, and those that are bad are answered.
Moved(x, y, n, g, at) ==
    /\ ClientType(y)
    /\ n \in 0 .. Len(x.waiting) /\ g \in Nat /\ at \in [1 .. g -> 1 .. n]
    /\ Len(y.waiting) = Len(x.waiting) - n
    /\ \A k \in 1 .. Len(y.waiting) : y.waiting[k] = x.waiting[n + k]
    /\ Len(y.conns) = Len(x.conns) + g
    /\ \A i \in 1 .. Len(x.conns) : y.conns[i] = x.conns[i]
    /\ \A m \in 1 .. g : /\ y.conns[Len(x.conns) + m] = Client!NewConn(x.waiting[at[m]])
                         /\ ~x.waiting[at[m]].bad
    /\ \A l, m \in 1 .. g : at[l] = at[m] => l = m
    /\ \A k \in 1 .. n : x.waiting[k].bad \/ \E m \in 1 .. g : at[m] = k
    /\ \A f \in Client!Fetches :
          y.answers[f] = IF \E k \in 1 .. n : /\ x.waiting[k].bad /\ x.waiting[k].cb
                                              /\ x.waiting[k].fetch = f
                         THEN Append(x.answers[f], "error") ELSE x.answers[f]

LEMMA NewConnType ==
    ASSUME NEW e \in EntryType
    PROVE  LET c == Client!NewConn(e)
           IN  /\ c \in ConnType /\ c.fetch = e.fetch /\ c.cb = e.cb /\ c.held = TRUE
               /\ c.dialing = TRUE /\ c.open = TRUE /\ c.closeCb = TRUE /\ c.reading = "none"
               /\ c.queue = <<>> /\ c.due = 0 /\ c.sent = 0 /\ c.got = 0 /\ c.used = 0 /\ c.body = 0
<1>1. <<>> \in Seq(CallbackKinds)
  OBVIOUS
<1> QED
  BY <1>1 DEF Client!NewConn, Client!NoResponse, ConnType, EntryType, ReadKinds, ResponseKinds

\* The places of the new connections are taken as well.
LEMMA RunningMore ==
    ASSUME NEW x, NEW y, x.conns \in Seq(ConnType), y.conns \in Seq(ConnType), NEW g \in Nat,
           Len(y.conns) = Len(x.conns) + g,
           \A i \in 1 .. Len(x.conns) : y.conns[i].held = x.conns[i].held,
           \A i \in Len(x.conns) + 1 .. Len(x.conns) + g : y.conns[i].held
    PROVE  Running(y) = Running(x) + g
<1> DEFINE A == Client!Active(x)
           L == Len(x.conns)
           N == L + 1 .. L + g
<1>1. L \in Nat /\ \A i \in 1 .. L + g : i \in 1 .. L \/ i \in N
  OBVIOUS
<1>2. Client!Active(y) = A \cup N /\ A \cap N = {}
  <2>1. A = {i \in 1 .. L : x.conns[i].held}
    BY DEF Client!Active
  <2>2. Client!Active(y) = {i \in 1 .. L + g : y.conns[i].held}
    BY DEF Client!Active
  <2>3. \A i \in 1 .. L : i \in 1 .. L + g /\ i \notin N
    BY <1>1
  <2>4. \A i \in N : i \in 1 .. L + g
    BY <1>1
  <2>5. \A i \in 1 .. L + g : i \in Client!Active(y) <=> i \in A \/ i \in N
    BY <1>1, <2>1, <2>2, <2>3
  <2> HIDE DEF N, A, L
  <2> QED
    BY <2>1, <2>2, <2>3, <2>4, <2>5
<1>3. IsFiniteSet(A) /\ IsFiniteSet(N) /\ Cardinality(A) \in Nat
  BY ActiveFinite, FS_Interval DEF Running
<1>4. Cardinality(N) = g
  <2> DEFINE a == L + 1
             b == L + g
  <2>1. a \in Int /\ b \in Int
    BY <1>1
  <2> HIDE DEF a, b, L
  <2>2. Cardinality(a .. b) = IF a > b THEN 0 ELSE b - a + 1
    BY <2>1, FS_Interval
  <2>3. Cardinality(N) = IF a > b THEN 0 ELSE b - a + 1
    BY <2>2 DEF a, b
  <2> HIDE DEF N
  <2> QED
    BY <1>1, <2>3 DEF a, b
<1> HIDE DEF A, N
<1>5. Cardinality(A \cup N) = Cardinality(A) + Cardinality(N) - Cardinality(A \cap N)
  BY <1>3, FS_Union
<1>6. Cardinality(A \cap N) = 0
  BY <1>2, FS_EmptySet
<1> QED
  BY <1>2, <1>3, <1>4, <1>5, <1>6 DEF Running, A

LEMMA QueueMoved ==
    ASSUME NEW x, ClientType(x), AtMost(x)
    PROVE  LET y == Client!ProcessQueue(x)
           IN  (\E n, g, at : Moved(x, y, n, g, at)) /\ Filled(y)
<1> DEFINE w == x.waiting
           L == Len(w)
           n == Client!Takes(x)
           S == Client!Good(w, n)
           g == Cardinality(S)
           at == [m \in 1 .. g |-> Client!Nth(S, m)]
           new == [m \in 1 .. g |-> Client!NewConn(w[Client!Nth(S, m)])]
           Failed(f) == \E k \in (1 .. n) \ S : w[k].fetch = f /\ w[k].cb
           w2 == SubSeq(w, n + 1, L)
           c2 == x.conns \o new
           a2 == [f \in Client!Fetches |->
                     IF Failed(f) THEN Append(x.answers[f], "error") ELSE x.answers[f]]
           y == Client!ProcessQueue(x)
<1>1. /\ x = [waiting |-> w, conns |-> x.conns, answers |-> x.answers]
      /\ w \in Seq(EntryType) /\ x.conns \in Seq(ConnType) /\ L \in Nat
      /\ x.answers \in [Client!Fetches -> Seq(AnswerType)]
  BY DEF ClientType
<1>2. Running(x) \in Nat /\ MaxClients \in Nat /\ Client!Capacity(x) = MaxClients - Running(x)
      /\ Client!Capacity(x) \in Nat
  <2>1. Running(x) \in Nat /\ MaxClients \in Nat /\ Running(x) <= MaxClients
    BY InputsAssumption DEF AtMost
  <2>2. Client!Capacity(x) = MaxClients - Running(x)
    BY SameSize DEF Client!Capacity, Running
  <2> QED
    BY <2>1, <2>2
<1>3. /\ n \in 0 .. L /\ g \in Nat /\ g <= Client!Capacity(x)
      /\ n = L \/ g = Client!Capacity(x)
  BY <1>1, <1>2, TakesIs
<1>4. S = {k \in 1 .. n : ~w[k].bad} /\ S \in SUBSET (1 .. n)
  BY DEF Client!Good
<1>5. y = [x EXCEPT !.waiting = w2, !.conns = c2, !.answers = a2]
  <2>1. Client!Cardinality(S) = g
    BY SameSize
  <2> QED
    BY <2>1 DEF Client!ProcessQueue
<1> HIDE DEF n, S, L, y, w
<1>6. n \in Nat
  BY <1>1, <1>3
<1>7. /\ \A m \in 1 .. g : Client!Nth(S, m) \in S /\ Cardinality(UpTo(S, Client!Nth(S, m))) = m
      /\ \A k \in S : \E m \in 1 .. g : Client!Nth(S, m) = k
  <2>1. n \in Nat /\ S \in SUBSET (1 .. n)
    BY <1>4, <1>6
  <2> HIDE DEF at, new, Failed, w2, c2, a2
  <2> QED
    BY <2>1, NthIs DEF g
<1> HIDE DEF g
<1>8. \A k \in 1 .. n : k \in 1 .. L /\ w[k] \in EntryType
  BY <1>1, <1>3, <1>6 DEF L
<1>9. /\ w2 \in Seq(EntryType) /\ Len(w2) = L - n /\ \A k \in 1 .. Len(w2) : w2[k] = w[n + k]
  <2> DEFINE from == n + 1
  <2>1. from \in Int /\ L \in Int /\ from >= 1 /\ n \in Int /\ from <= L + 1
    BY <1>1, <1>3
  <2>2. \A k \in from .. L : w[k] \in EntryType
    BY <1>1, <2>1 DEF L
  <2>3. w2 = SubSeq(w, from, L)
    OBVIOUS
  <2> HIDE DEF from, w2
  <2>4. /\ w2 \in Seq(EntryType) /\ Len(w2) = (IF from <= L THEN L - from + 1 ELSE 0)
        /\ \A k \in 1 .. L - from + 1 : w2[k] = w[from + k - 1]
    BY <2>1, <2>2, <2>3, SubSeqProperties
  <2>5. Len(w2) = L - from + 1 /\ L - from + 1 = L - n
    BY <2>1, <2>4 DEF from
  <2>6. ASSUME NEW k \in 1 .. Len(w2) PROVE w2[k] = w[n + k]
    <3>1. from + k - 1 = n + k
      BY <2>1 DEF from
    <3> QED
      BY <2>4, <2>5, <3>1
  <2> QED
    BY <2>4, <2>5, <2>6
<1>10. at \in [1 .. g -> 1 .. n] /\ \A m \in 1 .. g : at[m] = Client!Nth(S, m) /\ at[m] \in S
  BY <1>4, <1>7
<1>11. /\ new \in Seq(ConnType) /\ Len(new) = g
       /\ \A m \in 1 .. g : new[m] = Client!NewConn(w[at[m]]) /\ new[m].held = TRUE
  <2>1. ASSUME NEW m \in 1 .. g
        PROVE  /\ new[m] = Client!NewConn(w[at[m]]) /\ new[m].held = TRUE
               /\ new[m] \in ConnType
    <3>1. new[m] = Client!NewConn(w[at[m]]) /\ at[m] \in 1 .. n
      BY <1>4, <1>10
    <3>2. w[at[m]] \in EntryType
      BY <1>8, <3>1
    <3> QED
      BY <3>1, <3>2, NewConnType
  <2>2. new \in [1 .. g -> ConnType]
    BY <2>1
  <2> HIDE DEF new
  <2>3. new \in Seq(ConnType) /\ Len(new) = g
    BY <1>3, <2>2
  <2> QED
    BY <2>1, <2>3
<1> HIDE DEF new, at, w2
<1>12. /\ c2 \in Seq(ConnType) /\ Len(c2) = Len(x.conns) + g /\ Len(x.conns) \in Nat
       /\ \A i \in 1 .. Len(x.conns) : c2[i] = x.conns[i]
       /\ \A m \in 1 .. g : c2[Len(x.conns) + m] = new[m]
  <2>1. Len(x.conns) \in Nat
    BY <1>1
  <2>0. x.conns \in Seq(ConnType) /\ new \in Seq(ConnType) /\ c2 = x.conns \o new
    BY <1>1, <1>11
  <2> HIDE DEF c2
  <2>2. /\ c2 \in Seq(ConnType) /\ Len(c2) = Len(x.conns) + Len(new)
        /\ \A i \in 1 .. Len(x.conns) + Len(new) :
              c2[i] = IF i <= Len(x.conns) THEN x.conns[i] ELSE new[i - Len(x.conns)]
    BY ONLY <2>0, ConcatProperties
  <2>3. ASSUME NEW i \in 1 .. Len(x.conns) PROVE c2[i] = x.conns[i]
    <3>1. i \in 1 .. Len(x.conns) + Len(new) /\ i <= Len(x.conns)
      BY <1>3, <1>11, <2>1
    <3> QED
      BY <2>2, <3>1
  <2>4. ASSUME NEW m \in 1 .. g PROVE c2[Len(x.conns) + m] = new[m]
    <3>1. /\ Len(x.conns) + m \in 1 .. Len(x.conns) + Len(new)
          /\ ~(Len(x.conns) + m <= Len(x.conns)) /\ Len(x.conns) + m - Len(x.conns) = m
      BY <1>3, <1>11, <2>1
    <3> QED
      BY <2>2, <3>1
  <2> QED
    BY <1>11, <2>1, <2>2, <2>3, <2>4
<1> HIDE DEF c2
<1>13. a2 \in [Client!Fetches -> Seq(AnswerType)]
  BY <1>1 DEF AnswerType
<1>14. ASSUME NEW f PROVE Failed(f) <=> \E k \in 1 .. n : w[k].bad /\ w[k].cb /\ w[k].fetch = f
  <2>1. \A k \in 1 .. n : k \in S <=> ~w[k].bad
    BY <1>4
  <2>2. \A k \in 1 .. n : w[k].bad \in BOOLEAN
    BY <1>8 DEF EntryType
  <2> QED
    BY <2>1, <2>2
<1>15. \A f \in Client!Fetches :
          a2[f] = IF \E k \in 1 .. n : w[k].bad /\ w[k].cb /\ w[k].fetch = f
                  THEN Append(x.answers[f], "error") ELSE x.answers[f]
  BY <1>14
<1> HIDE DEF a2, Failed
<1>16. y = [waiting |-> w2, conns |-> c2, answers |-> a2]
  BY <1>1, <1>5
<1>17. y.waiting = w2 /\ y.conns = c2 /\ y.answers = a2
  BY <1>16
<1>18. \A l, m \in 1 .. g : at[l] = at[m] => l = m
  BY <1>7, <1>10
<1>19. \A k \in 1 .. n : w[k].bad \/ \E m \in 1 .. g : at[m] = k
  <2> SUFFICES ASSUME NEW k \in 1 .. n, ~w[k].bad PROVE \E m \in 1 .. g : at[m] = k
    OBVIOUS
  <2>1. k \in S
    BY <1>4
  <2>2. PICK m \in 1 .. g : Client!Nth(S, m) = k
    BY ONLY <1>7, <2>1
  <2> QED
    BY ONLY <1>10, <2>2
<1>20. \A m \in 1 .. g : c2[Len(x.conns) + m] = Client!NewConn(w[at[m]]) /\ ~w[at[m]].bad
  BY <1>4, <1>10, <1>11, <1>12
<1>21. ClientType(y)
  BY <1>9, <1>12, <1>13, <1>16, <1>17 DEF ClientType
<1>22. Moved(x, y, n, g, at)
  <2>1. x.waiting = w /\ Len(w) = L
    BY DEF w, L
  <2>2. /\ Len(y.waiting) = Len(x.waiting) - n
        /\ \A k \in 1 .. Len(y.waiting) : y.waiting[k] = x.waiting[n + k]
    BY <1>9, <1>17, <2>1
  <2>3. /\ Len(y.conns) = Len(x.conns) + g
        /\ \A i \in 1 .. Len(x.conns) : y.conns[i] = x.conns[i]
    BY <1>12, <1>17
  <2>4. \A m \in 1 .. g : /\ y.conns[Len(x.conns) + m] = Client!NewConn(x.waiting[at[m]])
                          /\ ~x.waiting[at[m]].bad
    BY <1>17, <1>20, <2>1
  <2>5. \A k \in 1 .. n : x.waiting[k].bad \/ \E m \in 1 .. g : at[m] = k
    BY <1>19, <2>1
  <2>6. \A f \in Client!Fetches :
          y.answers[f] = IF \E k \in 1 .. n : /\ x.waiting[k].bad /\ x.waiting[k].cb
                                              /\ x.waiting[k].fetch = f
                         THEN Append(x.answers[f], "error") ELSE x.answers[f]
    BY <1>15, <1>17, <2>1
  <2>7. n \in 0 .. Len(x.waiting) /\ g \in Nat /\ at \in [1 .. g -> 1 .. n]
    BY <1>3, <1>10, <2>1
  <2> QED
    BY <1>18, <1>21, <2>2, <2>3, <2>4, <2>5, <2>6, <2>7 DEF Moved
<1>23. Filled(y)
  <2>1. \A i \in Len(x.conns) + 1 .. Len(x.conns) + g : y.conns[i].held
    <3> SUFFICES ASSUME NEW i \in Len(x.conns) + 1 .. Len(x.conns) + g PROVE y.conns[i].held
      OBVIOUS
    <3> DEFINE m == i - Len(x.conns)
    <3>1. m \in 1 .. g /\ i = Len(x.conns) + m
      BY <1>3, <1>12
    <3> HIDE DEF m
    <3> QED
      BY <1>11, <1>12, <1>17, <3>1
  <2>2. Running(y) = Running(x) + g
    BY <1>1, <1>3, <1>12, <1>17, <2>1, RunningMore
  <2>3. Running(y) \in Nat /\ Running(y) <= MaxClients
    BY <1>2, <1>3, <2>2
  <2>4. ASSUME y.waiting # <<>> PROVE Running(y) = MaxClients
    <3>1. Len(w2) # 0
      BY <1>9, <1>17, <2>4
    <3>2. n # L
      BY <1>1, <1>9, <3>1
    <3> QED
      BY <1>2, <1>3, <2>2, <3>2
  <2> QED
    BY <2>3, <2>4 DEF Filled, AtMost
<1> QED
  BY <1>22, <1>23 DEF y

-----------------------------------------------------------------------------
(* Who owes an answer.                                                     *)

\* Of the first F fetches, those not in T, the ones that are passed on at this moment,
\* and without an answer in a are owed one, ...
Unanswered(a, F, T, f) == f <= F /\ f \notin T /\ a[f] = <<>>
\* ... each by one connection in c or one entry in w; the others by none.
Owed(w, c, a, F, T) ==
    /\ \A i, j \in 1 .. Len(c) : c[i].cb /\ c[j].cb /\ c[i].fetch = c[j].fetch => i = j
    /\ \A k, l \in 1 .. Len(w) : w[k].cb /\ w[l].cb /\ w[k].fetch = w[l].fetch => k = l
    /\ \A i \in 1 .. Len(c), k \in 1 .. Len(w) : c[i].cb /\ w[k].cb => c[i].fetch # w[k].fetch
    /\ \A i \in 1 .. Len(c) : c[i].cb => Unanswered(a, F, T, c[i].fetch)
    /\ \A k \in 1 .. Len(w) : w[k].cb => Unanswered(a, F, T, w[k].fetch)
    /\ \A f \in Client!Fetches : Unanswered(a, F, T, f) =>
          \/ \E i \in 1 .. Len(c) : c[i].cb /\ c[i].fetch = f
          \/ \E k \in 1 .. Len(w) : w[k].cb /\ w[k].fetch = f
    /\ \A f \in Client!Fetches : /\ a[f] = <<>> \/ Len(a[f]) = 1
                                 /\ ~(f <= F) \/ f \in T => a[f] = <<>>

LEMMA OwnersFetch ==
    ASSUME NEW w \in Seq(EntryType), NEW c \in Seq(ConnType)
    PROVE  /\ \A i \in 1 .. Len(c) : c[i].fetch \in Client!Fetches /\ c[i].cb \in BOOLEAN
           /\ \A k \in 1 .. Len(w) : w[k].fetch \in Client!Fetches /\ w[k].cb \in BOOLEAN
<1>1. /\ \A i \in 1 .. Len(c) : c[i] \in ConnType
      /\ \A k \in 1 .. Len(w) : w[k] \in EntryType
  OBVIOUS
<1>2. \A d \in ConnType : d.fetch \in Client!Fetches /\ d.cb \in BOOLEAN
  BY DEF ConnType
<1>3. \A e \in EntryType : e.fetch \in Client!Fetches /\ e.cb \in BOOLEAN
  BY DEF EntryType
<1> QED
  BY <1>1, <1>2, <1>3

\* Each owner has the fetch of one owner before, and no two the same one.
LEMMA OwedMoved ==
    ASSUME NEW x, NEW y, NEW n, NEW g, NEW at, ClientType(x), Moved(x, y, n, g, at), NEW F, NEW T,
           Owed(x.waiting, x.conns, x.answers, F, T)
    PROVE  Owed(y.waiting, y.conns, y.answers, F, T)
<1> DEFINE w == x.waiting
           c == x.conns
           a == x.answers
           w2 == y.waiting
           c2 == y.conns
           a2 == y.answers
           L == Len(c)
           Failed(f) == \E k \in 1 .. n : w[k].bad /\ w[k].cb /\ w[k].fetch = f
<1>1. /\ w \in Seq(EntryType) /\ c \in Seq(ConnType) /\ a \in [Client!Fetches -> Seq(AnswerType)]
      /\ w2 \in Seq(EntryType) /\ c2 \in Seq(ConnType)
      /\ n \in 0 .. Len(w) /\ g \in Nat /\ Len(w) \in Nat /\ L \in Nat
      /\ Len(w2) = Len(w) - n /\ Len(c2) = L + g
  BY DEF Moved, ClientType
<1>2. \A k \in 1 .. n : k \in 1 .. Len(w)
  BY <1>1
<1>3. \A k \in 1 .. Len(w2) : n + k \in 1 .. Len(w) /\ n + k \notin 1 .. n /\ w2[k] = w[n + k]
  <2>1. \A k \in 1 .. Len(w2) : w2[k] = w[n + k]
    BY DEF Moved
  <2> HIDE DEF w, w2, c, c2, a, a2, L, Failed
  <2>2. n \in Nat /\ Len(w2) \in Nat /\ Len(w) = n + Len(w2)
    BY <1>1
  <2>3. \A k \in 1 .. Len(w2) : n + k \in 1 .. Len(w) /\ n + k \notin 1 .. n
    BY <2>2
  <2> QED
    BY <2>1, <2>3
<1>4. \A i \in 1 .. L : i \in 1 .. Len(c2) /\ c2[i] = c[i]
  BY <1>1 DEF Moved
<1>5. ASSUME NEW m \in 1 .. g
      PROVE  /\ at[m] \in 1 .. n /\ at[m] \in 1 .. Len(w) /\ ~w[at[m]].bad
             /\ L + m \in 1 .. Len(c2)
             /\ c2[L + m].fetch = w[at[m]].fetch /\ c2[L + m].cb = w[at[m]].cb
  <2>1. at[m] \in 1 .. n /\ ~w[at[m]].bad /\ c2[L + m] = Client!NewConn(w[at[m]])
    BY DEF Moved
  <2>2. at[m] \in 1 .. Len(w) /\ w[at[m]] \in EntryType
    BY <1>1, <1>2, <2>1
  <2>3. L + m \in 1 .. Len(c2)
    BY <1>1
  <2> QED
    BY <2>1, <2>2, <2>3, NewConnType
<1>6. \A l, m \in 1 .. g : at[l] = at[m] => l = m
  BY DEF Moved
<1>7. \A k \in 1 .. n : w[k].bad \/ \E m \in 1 .. g : at[m] = k
  BY DEF Moved
<1>8. \A f \in Client!Fetches : a2[f] = IF Failed(f) THEN Append(a[f], "error") ELSE a[f]
  BY DEF Moved
<1>9. \A i \in 1 .. Len(c2) : i \in 1 .. L \/ \E m \in 1 .. g : i = L + m
  <2> SUFFICES ASSUME NEW i \in 1 .. Len(c2), i \notin 1 .. L PROVE \E m \in 1 .. g : i = L + m
    OBVIOUS
  <2>1. i - L \in 1 .. g /\ i = L + (i - L)
    BY <1>1
  <2> QED
    BY <2>1
<1>10. \A k \in 1 .. Len(w) : k \in 1 .. n \/ \E l \in 1 .. Len(w2) : k = n + l
  <2> SUFFICES ASSUME NEW k \in 1 .. Len(w), k \notin 1 .. n
               PROVE  \E l \in 1 .. Len(w2) : k = n + l
    OBVIOUS
  <2>1. k - n \in 1 .. Len(w2) /\ k = n + (k - n)
    BY <1>1
  <2> QED
    BY <2>1
<1>11. /\ \A i, j \in 1 .. Len(c) : c[i].cb /\ c[j].cb /\ c[i].fetch = c[j].fetch => i = j
       /\ \A k, l \in 1 .. Len(w) : w[k].cb /\ w[l].cb /\ w[k].fetch = w[l].fetch => k = l
       /\ \A i \in 1 .. Len(c), k \in 1 .. Len(w) : c[i].cb /\ w[k].cb => c[i].fetch # w[k].fetch
       /\ \A i \in 1 .. Len(c) : c[i].cb => Unanswered(a, F, T, c[i].fetch)
       /\ \A k \in 1 .. Len(w) : w[k].cb => Unanswered(a, F, T, w[k].fetch)
  BY DEF Owed
<1>12. /\ \A f \in Client!Fetches : Unanswered(a, F, T, f) =>
             \/ \E i \in 1 .. Len(c) : c[i].cb /\ c[i].fetch = f
             \/ \E k \in 1 .. Len(w) : w[k].cb /\ w[k].fetch = f
       /\ \A f \in Client!Fetches : /\ a[f] = <<>> \/ Len(a[f]) = 1
                                    /\ ~(f <= F) \/ f \in T => a[f] = <<>>
  BY DEF Owed
<1>13. /\ \A i \in 1 .. Len(c2) : c2[i].fetch \in Client!Fetches
       /\ \A i \in 1 .. Len(c) : c[i].fetch \in Client!Fetches
       /\ \A k \in 1 .. Len(w) : w[k].fetch \in Client!Fetches
       /\ \A k \in 1 .. Len(w2) : w2[k].fetch \in Client!Fetches
       /\ \A f \in Client!Fetches : a[f] \in Seq(AnswerType)
  <2> HIDE DEF w, w2, c, c2, a, a2, L, Failed
  <2>1. \A f \in Client!Fetches : a[f] \in Seq(AnswerType)
    BY <1>1
  <2> QED
    BY <1>1, <2>1, OwnersFetch
<1> HIDE DEF w, c, a, w2, c2, a2, L, Failed
<1>14. ASSUME NEW f \in Client!Fetches PROVE ~Failed(f) => a2[f] = a[f]
  BY <1>8
<1>15. ASSUME NEW f \in Client!Fetches, Failed(f)
       PROVE  a[f] = <<>> /\ a2[f] # <<>> /\ Len(a2[f]) = 1 /\ f <= F /\ f \notin T
  <2>1. PICK k \in 1 .. n : w[k].bad /\ w[k].cb /\ w[k].fetch = f
    BY <1>15 DEF Failed
  <2>2. Unanswered(a, F, T, f)
    BY <1>2, <1>11, <2>1
  <2>3. a[f] = <<>> /\ f <= F /\ f \notin T
    BY <2>2 DEF Unanswered
  <2>4. a2[f] = Append(a[f], "error")
    BY <1>8, <1>15
  <2>5. a2[f] = <<"error">>
    BY <2>3, <2>4
  <2> QED
    BY <2>3, <2>5
\* A bad entry owes nothing that any other one owes.
<1>16. ASSUME NEW k \in 1 .. Len(w), w[k].cb, k \notin 1 .. n \/ ~w[k].bad
       PROVE  ~Failed(w[k].fetch)
  <2> SUFFICES ASSUME NEW l \in 1 .. n, w[l].bad, w[l].cb, w[l].fetch = w[k].fetch PROVE FALSE
    BY DEF Failed
  <2>1. l \in 1 .. Len(w)
    BY <1>2
  <2>2. l = k
    BY <1>11, <1>16, <2>1
  <2> QED
    BY <1>16, <2>2
<1>17. ASSUME NEW i \in 1 .. Len(c), c[i].cb PROVE ~Failed(c[i].fetch)
  <2> SUFFICES ASSUME NEW l \in 1 .. n, w[l].bad, w[l].cb, w[l].fetch = c[i].fetch PROVE FALSE
    BY DEF Failed
  <2>1. l \in 1 .. Len(w)
    BY <1>2
  <2> QED
    BY <1>11, <1>17, <2>1
<1>18. ASSUME NEW f \in Client!Fetches, Unanswered(a, F, T, f), ~Failed(f)
       PROVE  Unanswered(a2, F, T, f)
  BY <1>14, <1>18 DEF Unanswered
<1>19. L = Len(c)
  BY DEF L
<1>20. ASSUME NEW i \in 1 .. Len(c2), NEW j \in 1 .. Len(c2), c2[i].cb, c2[j].cb,
              c2[i].fetch = c2[j].fetch
       PROVE  i = j
  <2>1. ASSUME NEW p \in 1 .. L, NEW m \in 1 .. g, c2[p].cb, c2[L + m].cb,
               c2[p].fetch = c2[L + m].fetch
        PROVE  FALSE
    <3>1. c2[p] = c[p] /\ p \in 1 .. Len(c)
      BY <1>4, <1>19
    <3>2. at[m] \in 1 .. Len(w) /\ w[at[m]].cb /\ w[at[m]].fetch = c[p].fetch
      BY <1>5, <2>1, <3>1
    <3> QED
      BY <1>11, <2>1, <3>1, <3>2
  <2>2. CASE i \in 1 .. L /\ j \in 1 .. L
    <3>1. c2[i] = c[i] /\ c2[j] = c[j] /\ i \in 1 .. Len(c) /\ j \in 1 .. Len(c)
      BY <1>4, <1>19, <2>2
    <3> QED
      BY <1>11, <1>20, <3>1
  <2>3. CASE i \in 1 .. L /\ j \notin 1 .. L
    <3>1. PICK m \in 1 .. g : j = L + m
      BY <1>9, <2>3
    <3> QED
      BY <1>20, <2>1, <2>3, <3>1
  <2>4. CASE i \notin 1 .. L /\ j \in 1 .. L
    <3>1. PICK m \in 1 .. g : i = L + m
      BY <1>9, <2>4
    <3> QED
      BY <1>20, <2>1, <2>4, <3>1
  <2>5. CASE i \notin 1 .. L /\ j \notin 1 .. L
    <3>1. PICK l \in 1 .. g : i = L + l
      BY <1>9, <2>5
    <3>2. PICK m \in 1 .. g : j = L + m
      BY <1>9, <2>5
    <3>3. /\ at[l] \in 1 .. Len(w) /\ w[at[l]].cb /\ w[at[l]].fetch = c2[i].fetch
          /\ at[m] \in 1 .. Len(w) /\ w[at[m]].cb /\ w[at[m]].fetch = c2[j].fetch
      BY <1>5, <1>20, <3>1, <3>2
    <3>4. at[l] = at[m]
      BY <1>11, <1>20, <3>3
    <3>5. l = m
      BY <1>6, <3>4
    <3> QED
      BY <3>1, <3>2, <3>5
  <2> QED
    BY <2>2, <2>3, <2>4, <2>5
<1>21. ASSUME NEW k \in 1 .. Len(w2), NEW l \in 1 .. Len(w2), w2[k].cb, w2[l].cb,
              w2[k].fetch = w2[l].fetch
       PROVE  k = l
  <2>1. /\ n + k \in 1 .. Len(w) /\ w2[k] = w[n + k]
        /\ n + l \in 1 .. Len(w) /\ w2[l] = w[n + l]
    BY <1>3
  <2>2. n + k = n + l
    BY <1>11, <1>21, <2>1
  <2> QED
    BY <1>1, <2>2
<1>22. ASSUME NEW i \in 1 .. Len(c2), NEW k \in 1 .. Len(w2), c2[i].cb, w2[k].cb
       PROVE  c2[i].fetch # w2[k].fetch
  <2>1. n + k \in 1 .. Len(w) /\ w2[k] = w[n + k] /\ n + k \notin 1 .. n
    BY <1>3
  <2>2. CASE i \in 1 .. L
    <3>1. c2[i] = c[i] /\ i \in 1 .. Len(c)
      BY <1>4, <1>19, <2>2
    <3> QED
      BY <1>11, <1>22, <2>1, <3>1
  <2>3. CASE i \notin 1 .. L
    <3>1. PICK m \in 1 .. g : i = L + m
      BY <1>9, <2>3
    <3>2. at[m] \in 1 .. n /\ at[m] \in 1 .. Len(w) /\ w[at[m]].cb /\ c2[i].fetch = w[at[m]].fetch
      BY <1>5, <1>22, <3>1
    <3>3. at[m] # n + k
      BY <2>1, <3>2
    <3> QED
      BY <1>11, <1>22, <2>1, <3>2, <3>3
  <2> QED
    BY <2>2, <2>3
<1>23. ASSUME NEW i \in 1 .. Len(c2), c2[i].cb PROVE Unanswered(a2, F, T, c2[i].fetch)
  <2>1. CASE i \in 1 .. L
    <3>1. c2[i] = c[i] /\ i \in 1 .. Len(c)
      BY <1>4, <1>19, <2>1
    <3>2. Unanswered(a, F, T, c[i].fetch) /\ ~Failed(c[i].fetch)
      BY <1>11, <1>17, <1>23, <3>1
    <3> QED
      BY <1>13, <1>18, <3>1, <3>2
  <2>2. CASE i \notin 1 .. L
    <3>1. PICK m \in 1 .. g : i = L + m
      BY <1>9, <2>2
    <3>2. /\ at[m] \in 1 .. Len(w) /\ w[at[m]].cb /\ ~w[at[m]].bad
          /\ c2[i].fetch = w[at[m]].fetch
      BY <1>5, <1>23, <3>1
    <3>3. Unanswered(a, F, T, w[at[m]].fetch)
      BY <1>11, <3>2
    <3>4. ~Failed(w[at[m]].fetch)
      BY <1>16, <3>2
    <3> QED
      BY <1>13, <1>18, <3>2, <3>3, <3>4
  <2> QED
    BY <2>1, <2>2
<1>24. ASSUME NEW k \in 1 .. Len(w2), w2[k].cb PROVE Unanswered(a2, F, T, w2[k].fetch)
  <2>1. n + k \in 1 .. Len(w) /\ w2[k] = w[n + k] /\ n + k \notin 1 .. n
    BY <1>3
  <2>2. Unanswered(a, F, T, w[n + k].fetch)
    BY <1>11, <1>24, <2>1
  <2>3. ~Failed(w[n + k].fetch)
    BY <1>16, <1>24, <2>1
  <2> QED
    BY <1>13, <1>18, <2>1, <2>2, <2>3
<1>25. ASSUME NEW f \in Client!Fetches, Unanswered(a2, F, T, f)
       PROVE  \/ \E i \in 1 .. Len(c2) : c2[i].cb /\ c2[i].fetch = f
              \/ \E k \in 1 .. Len(w2) : w2[k].cb /\ w2[k].fetch = f
  <2>1. ~Failed(f)
    BY <1>15, <1>25 DEF Unanswered
  <2>2. Unanswered(a, F, T, f)
    BY <1>14, <1>25, <2>1 DEF Unanswered
  <2>3. CASE \E i \in 1 .. Len(c) : c[i].cb /\ c[i].fetch = f
    BY <1>4, <1>19, <2>3
  <2>4. CASE \E k \in 1 .. Len(w) : w[k].cb /\ w[k].fetch = f
    <3>1. PICK k \in 1 .. Len(w) : w[k].cb /\ w[k].fetch = f
      BY <2>4
    <3>2. CASE k \in 1 .. n
      <4>1. ~w[k].bad
        BY <2>1, <3>1, <3>2 DEF Failed
      <4>2. PICK m \in 1 .. g : at[m] = k
        BY <1>7, <3>2, <4>1
      <4>3. L + m \in 1 .. Len(c2) /\ c2[L + m].cb /\ c2[L + m].fetch = f
        BY <1>5, <3>1, <4>2
      <4> QED
        BY <4>3
    <3>3. CASE k \notin 1 .. n
      <4>1. PICK l \in 1 .. Len(w2) : k = n + l
        BY <1>10, <3>3
      <4>2. w2[l].cb /\ w2[l].fetch = f
        BY <1>3, <3>1, <4>1
      <4> QED
        BY <4>2
    <3> QED
      BY <3>2, <3>3
  <2> QED
    BY <1>12, <2>2, <2>3, <2>4
<1>26. ASSUME NEW f \in Client!Fetches
       PROVE  /\ a2[f] = <<>> \/ Len(a2[f]) = 1
              /\ ~(f <= F) \/ f \in T => a2[f] = <<>>
  BY <1>12, <1>14, <1>15
<1>27. Owed(w2, c2, a2, F, T)
  BY <1>20, <1>21, <1>22, <1>23, <1>24, <1>25, <1>26 DEF Owed
<1> QED
  BY <1>27 DEF w2, c2, a2

\* A step that changes no owner.
LEMMA OwedSame ==
    ASSUME NEW w, NEW c, NEW a, NEW F, NEW T, Owed(w, c, a, F, T), NEW c2, Len(c2) = Len(c),
           \A i \in 1 .. Len(c) : c2[i].fetch = c[i].fetch /\ c2[i].cb = c[i].cb
    PROVE  Owed(w, c2, a, F, T)
<1>1. \A i, j \in 1 .. Len(c2) : c2[i].cb /\ c2[j].cb /\ c2[i].fetch = c2[j].fetch => i = j
  BY DEF Owed
<1>2. \A i \in 1 .. Len(c2), k \in 1 .. Len(w) : c2[i].cb /\ w[k].cb => c2[i].fetch # w[k].fetch
  BY DEF Owed
<1>3. \A i \in 1 .. Len(c2) : c2[i].cb => Unanswered(a, F, T, c2[i].fetch)
  BY DEF Owed
<1>4. ASSUME NEW f \in Client!Fetches, Unanswered(a, F, T, f)
      PROVE  \/ \E i \in 1 .. Len(c2) : c2[i].cb /\ c2[i].fetch = f
             \/ \E k \in 1 .. Len(w) : w[k].cb /\ w[k].fetch = f
  BY <1>4 DEF Owed
<1> QED
  BY <1>1, <1>2, <1>3, <1>4 DEF Owed

\* A connection gives up the final callback: its fetch is passed on.
LEMMA OwedSpent ==
    ASSUME NEW w \in Seq(EntryType), NEW c \in Seq(ConnType), NEW a, NEW F, Owed(w, c, a, F, {}),
           NEW c2 \in Seq(ConnType), Len(c2) = Len(c), NEW i \in 1 .. Len(c), c[i].cb,
           \A j \in 1 .. Len(c) : j # i => c2[j].fetch = c[j].fetch /\ c2[j].cb = c[j].cb,
           c2[i].fetch = c[i].fetch, c2[i].cb = FALSE
    PROVE  Owed(w, c2, a, F, {c[i].fetch}) /\ c[i].fetch <= F
<1> DEFINE f0 == c[i].fetch
           T == {f0}
<1>1. /\ \A j, k \in 1 .. Len(c) : c[j].cb /\ c[k].cb /\ c[j].fetch = c[k].fetch => j = k
      /\ \A k, l \in 1 .. Len(w) : w[k].cb /\ w[l].cb /\ w[k].fetch = w[l].fetch => k = l
      /\ \A j \in 1 .. Len(c), k \in 1 .. Len(w) : c[j].cb /\ w[k].cb => c[j].fetch # w[k].fetch
      /\ \A j \in 1 .. Len(c) : c[j].cb => Unanswered(a, F, {}, c[j].fetch)
      /\ \A k \in 1 .. Len(w) : w[k].cb => Unanswered(a, F, {}, w[k].fetch)
  BY DEF Owed
<1>2. f0 <= F /\ a[f0] = <<>>
  BY <1>1 DEF Unanswered
<1>3. \A f : f # f0 => (Unanswered(a, F, T, f) <=> Unanswered(a, F, {}, f))
  BY DEF Unanswered
<1>4. \A f : Unanswered(a, F, T, f) => f # f0 /\ Unanswered(a, F, {}, f)
  BY DEF Unanswered
<1>5. ASSUME NEW j \in 1 .. Len(c2), c2[j].cb
      PROVE  j \in 1 .. Len(c) /\ j # i /\ c[j].cb /\ c2[j].fetch = c[j].fetch /\ c2[j].fetch # f0
  <2>1. j \in 1 .. Len(c) /\ j # i
    BY <1>5
  <2>2. c[j].cb /\ c2[j].fetch = c[j].fetch
    BY <1>5, <2>1
  <2> QED
    BY <1>1, <2>1, <2>2
<1>6. ASSUME NEW k \in 1 .. Len(w), w[k].cb PROVE w[k].fetch # f0
  BY <1>1, <1>6
<1> HIDE DEF T, f0
<1>7. \A j, k \in 1 .. Len(c2) : c2[j].cb /\ c2[k].cb /\ c2[j].fetch = c2[k].fetch => j = k
  BY <1>1, <1>5
<1>8. \A j \in 1 .. Len(c2), k \in 1 .. Len(w) : c2[j].cb /\ w[k].cb => c2[j].fetch # w[k].fetch
  BY <1>1, <1>5
<1>9. ASSUME NEW j \in 1 .. Len(c2), c2[j].cb PROVE Unanswered(a, F, T, c2[j].fetch)
  <2>1. j \in 1 .. Len(c) /\ c[j].cb /\ c2[j].fetch = c[j].fetch /\ c2[j].fetch # f0
    BY <1>5, <1>9
  <2>2. Unanswered(a, F, {}, c[j].fetch)
    BY <1>1, <2>1
  <2> QED
    BY <1>3, <2>1, <2>2
<1>10. \A k \in 1 .. Len(w) : w[k].cb => Unanswered(a, F, T, w[k].fetch)
  BY <1>1, <1>3, <1>6
<1>11. ASSUME NEW f \in Client!Fetches, Unanswered(a, F, T, f)
       PROVE  \/ \E j \in 1 .. Len(c2) : c2[j].cb /\ c2[j].fetch = f
              \/ \E k \in 1 .. Len(w) : w[k].cb /\ w[k].fetch = f
  <2>1. f # f0 /\ Unanswered(a, F, {}, f)
    BY <1>4, <1>11
  <2>2. \/ \E j \in 1 .. Len(c) : c[j].cb /\ c[j].fetch = f
        \/ \E k \in 1 .. Len(w) : w[k].cb /\ w[k].fetch = f
    BY <2>1 DEF Owed
  <2>3. CASE \E j \in 1 .. Len(c) : c[j].cb /\ c[j].fetch = f
    <3>1. PICK j \in 1 .. Len(c) : c[j].cb /\ c[j].fetch = f
      BY <2>3
    <3>2. j # i
      BY <2>1, <3>1 DEF f0
    <3>3. j \in 1 .. Len(c2) /\ c2[j].cb /\ c2[j].fetch = f
      BY <3>1, <3>2
    <3> QED
      BY <3>3
  <2> QED
    BY <2>2, <2>3
<1>12. ASSUME NEW f \in Client!Fetches
       PROVE  /\ a[f] = <<>> \/ Len(a[f]) = 1
              /\ ~(f <= F) \/ f \in T => a[f] = <<>>
  <2>1. /\ a[f] = <<>> \/ Len(a[f]) = 1
        /\ ~(f <= F) => a[f] = <<>>
    BY DEF Owed
  <2>2. f \in T => a[f] = <<>>
    BY <1>2 DEF T
  <2> QED
    BY <2>1, <2>2
<1>13. \A k, l \in 1 .. Len(w) : w[k].cb /\ w[l].cb /\ w[k].fetch = w[l].fetch => k = l
  BY <1>1
<1>14. Owed(w, c2, a, F, T)
  BY <1>7, <1>8, <1>9, <1>10, <1>11, <1>12, <1>13 DEF Owed
<1> QED
  BY <1>2, <1>14 DEF T, f0

\* What is passed on is answered, ...
LEMMA OwedAnswered ==
    ASSUME NEW w \in Seq(EntryType), NEW c \in Seq(ConnType), NEW F,
           NEW a \in [Client!Fetches -> Seq(AnswerType)],
           NEW f0 \in Client!Fetches, Owed(w, c, a, F, {f0}), f0 <= F, NEW r \in AnswerType
    PROVE  LET a2 == [a EXCEPT ![f0] = Append(a[f0], r)]
           IN  a2 \in [Client!Fetches -> Seq(AnswerType)] /\ Owed(w, c, a2, F, {})
<1> DEFINE a2 == [a EXCEPT ![f0] = Append(a[f0], r)]
<1>1. a[f0] = <<>>
  BY DEF Owed
<1>2. /\ a2 \in [Client!Fetches -> Seq(AnswerType)] /\ a2[f0] = Append(a[f0], r)
      /\ \A f \in Client!Fetches : f # f0 => a2[f] = a[f]
  OBVIOUS
<1>3. a2[f0] # <<>> /\ Len(a2[f0]) = 1
  <2>1. a[f0] \in Seq(AnswerType) /\ Len(a[f0]) = 0 /\ a2[f0] = Append(a[f0], r)
    BY <1>1, <1>2
  <2> HIDE DEF a2
  <2>2. Len(a2[f0]) = 1 /\ a2[f0] \in Seq(AnswerType)
    BY <2>1
  <2>3. Len(<<>>) = 0
    OBVIOUS
  <2> DEFINE s == a2[f0]
  <2>4. Len(s) = 1
    BY <2>2
  <2> HIDE DEF s
  <2>5. s # <<>>
    <3>1. 1 # 0
      OBVIOUS
    <3> QED
      BY ONLY <2>3, <2>4, <3>1, Zenon
  <2> QED
    BY <2>4, <2>5 DEF s
<1> HIDE DEF a2
<1>4. ASSUME NEW f \in Client!Fetches
      PROVE  Unanswered(a2, F, {}, f) <=> Unanswered(a, F, {f0}, f)
  BY <1>2, <1>3 DEF Unanswered
<1>5. /\ \A i \in 1 .. Len(c) : c[i].fetch \in Client!Fetches
      /\ \A k \in 1 .. Len(w) : w[k].fetch \in Client!Fetches
  BY OwnersFetch
<1>6. \A i \in 1 .. Len(c) : c[i].cb => Unanswered(a2, F, {}, c[i].fetch)
  BY <1>4, <1>5 DEF Owed
<1>7. \A k \in 1 .. Len(w) : w[k].cb => Unanswered(a2, F, {}, w[k].fetch)
  BY <1>4, <1>5 DEF Owed
<1>8. ASSUME NEW f \in Client!Fetches, Unanswered(a2, F, {}, f)
      PROVE  \/ \E i \in 1 .. Len(c) : c[i].cb /\ c[i].fetch = f
             \/ \E k \in 1 .. Len(w) : w[k].cb /\ w[k].fetch = f
  BY <1>4, <1>8 DEF Owed
<1>9. ASSUME NEW f \in Client!Fetches
      PROVE  /\ a2[f] = <<>> \/ Len(a2[f]) = 1
             /\ ~(f <= F) \/ f \in {} => a2[f] = <<>>
  <2>1. CASE f = f0
    BY <1>3, <2>1
  <2>2. CASE f # f0
    <3>1. /\ a[f] = <<>> \/ Len(a[f]) = 1
          /\ ~(f <= F) => a[f] = <<>>
      BY DEF Owed
    <3> QED
      BY <1>2, <2>2, <3>1
  <2> QED
    BY <2>1, <2>2
<1>10. Owed(w, c, a2, F, {})
  BY <1>6, <1>7, <1>8, <1>9 DEF Owed
<1> QED
  BY <1>2, <1>10 DEF a2

\* ... or queued again.
LEMMA OwedQueued ==
    ASSUME NEW w \in Seq(EntryType), NEW c \in Seq(ConnType), NEW a, NEW F,
           NEW e \in EntryType, e.cb, Owed(w, c, a, F, {e.fetch}), e.fetch <= F
    PROVE  Owed(Append(w, e), c, a, F, {})
<1> DEFINE w2 == Append(w, e)
           f0 == e.fetch
           T == {f0}
<1>1. /\ w2 \in Seq(EntryType) /\ Len(w2) = Len(w) + 1 /\ w2[Len(w) + 1] = e /\ Len(w) \in Nat
      /\ \A k \in 1 .. Len(w) : w2[k] = w[k] /\ k \in 1 .. Len(w2)
      /\ Len(w) + 1 \in 1 .. Len(w2)
      /\ \A k \in 1 .. Len(w2) : k \in 1 .. Len(w) \/ k = Len(w) + 1
  OBVIOUS
<1> HIDE DEF w2
<1>2. f0 \in Client!Fetches
  BY DEF EntryType
<1>3. a[f0] = <<>>
  BY <1>2 DEF Owed
<1>4. \A f : Unanswered(a, F, {}, f) <=> Unanswered(a, F, T, f) \/ f = f0
  BY <1>3 DEF Unanswered
<1>5. ~Unanswered(a, F, T, f0)
  BY DEF Unanswered
<1> HIDE DEF f0
<1>6. \A i \in 1 .. Len(c) : c[i].cb => Unanswered(a, F, T, c[i].fetch) /\ c[i].fetch # f0
  BY <1>5 DEF Owed, f0
<1>7. \A k \in 1 .. Len(w) : w[k].cb => Unanswered(a, F, T, w[k].fetch) /\ w[k].fetch # f0
  BY <1>5 DEF Owed, f0
<1> HIDE DEF T
<1>8. ASSUME NEW k \in 1 .. Len(w2), NEW l \in 1 .. Len(w2), w2[k].cb, w2[l].cb,
             w2[k].fetch = w2[l].fetch
      PROVE  k = l
  <2>1. CASE k \in 1 .. Len(w) /\ l \in 1 .. Len(w)
    BY <1>1, <1>8, <2>1 DEF Owed
  <2>2. CASE k \in 1 .. Len(w) /\ l = Len(w) + 1
    <3>1. w[k].cb /\ w[k].fetch = f0
      BY <1>1, <1>8, <2>2 DEF f0
    <3> QED
      BY <1>7, <2>2, <3>1
  <2>3. CASE k = Len(w) + 1 /\ l \in 1 .. Len(w)
    <3>1. w[l].cb /\ w[l].fetch = f0
      BY <1>1, <1>8, <2>3 DEF f0
    <3> QED
      BY <1>7, <2>3, <3>1
  <2> QED
    BY <1>1, <2>1, <2>2, <2>3
<1>9. ASSUME NEW i \in 1 .. Len(c), NEW k \in 1 .. Len(w2), c[i].cb, w2[k].cb
      PROVE  c[i].fetch # w2[k].fetch
  <2>1. CASE k \in 1 .. Len(w)
    BY <1>1, <1>9, <2>1 DEF Owed
  <2>2. CASE k = Len(w) + 1
    BY <1>1, <1>6, <1>9, <2>2 DEF f0
  <2> QED
    BY <1>1, <2>1, <2>2
<1>10. \A k \in 1 .. Len(w2) : w2[k].cb => Unanswered(a, F, {}, w2[k].fetch)
  BY <1>1, <1>4, <1>7 DEF f0
<1>11. \A i \in 1 .. Len(c) : c[i].cb => Unanswered(a, F, {}, c[i].fetch)
  BY <1>4, <1>6
<1>12. ASSUME NEW f \in Client!Fetches, Unanswered(a, F, {}, f)
       PROVE  \/ \E i \in 1 .. Len(c) : c[i].cb /\ c[i].fetch = f
              \/ \E k \in 1 .. Len(w2) : w2[k].cb /\ w2[k].fetch = f
  <2>1. CASE f = f0
    BY <1>1, <2>1 DEF f0
  <2>2. CASE Unanswered(a, F, T, f)
    <3>1. \/ \E i \in 1 .. Len(c) : c[i].cb /\ c[i].fetch = f
          \/ \E k \in 1 .. Len(w) : w[k].cb /\ w[k].fetch = f
      BY <2>2 DEF Owed, T, f0
    <3>2. CASE \E k \in 1 .. Len(w) : w[k].cb /\ w[k].fetch = f
      BY <1>1, <3>2
    <3> QED
      BY <3>1, <3>2
  <2> QED
    BY <1>4, <1>12, <2>1, <2>2
<1>13. ASSUME NEW f \in Client!Fetches
       PROVE  /\ a[f] = <<>> \/ Len(a[f]) = 1
              /\ ~(f <= F) \/ f \in {} => a[f] = <<>>
  BY DEF Owed
<1>14. \A i, j \in 1 .. Len(c) : c[i].cb /\ c[j].cb /\ c[i].fetch = c[j].fetch => i = j
  BY DEF Owed
<1>15. Owed(w2, c, a, F, {})
  BY <1>8, <1>9, <1>10, <1>11, <1>12, <1>13, <1>14 DEF Owed
<1> QED
  BY <1>15 DEF w2

\* An entry that owes nothing changes nothing.
LEMMA OwedIdle ==
    ASSUME NEW w \in Seq(EntryType), NEW c, NEW a, NEW F, NEW T,
           NEW e \in EntryType, ~e.cb, Owed(w, c, a, F, T)
    PROVE  Owed(Append(w, e), c, a, F, T)
<1> DEFINE w2 == Append(w, e)
<1>1. /\ \A k \in 1 .. Len(w) : w2[k] = w[k] /\ k \in 1 .. Len(w2)
      /\ \A k \in 1 .. Len(w2) : w2[k].cb => k \in 1 .. Len(w)
  <2>1. /\ Len(w2) = Len(w) + 1 /\ w2[Len(w) + 1] = e /\ Len(w) \in Nat
        /\ \A k \in 1 .. Len(w) : w2[k] = w[k] /\ k \in 1 .. Len(w2)
        /\ \A k \in 1 .. Len(w2) : k \in 1 .. Len(w) \/ k = Len(w) + 1
    OBVIOUS
  <2> HIDE DEF w2
  <2> QED
    BY <2>1
<1> HIDE DEF w2
<1>2. \A k, l \in 1 .. Len(w2) : w2[k].cb /\ w2[l].cb /\ w2[k].fetch = w2[l].fetch => k = l
  BY <1>1 DEF Owed
<1>3. \A i \in 1 .. Len(c), k \in 1 .. Len(w2) : c[i].cb /\ w2[k].cb => c[i].fetch # w2[k].fetch
  BY <1>1 DEF Owed
<1>4. \A k \in 1 .. Len(w2) : w2[k].cb => Unanswered(a, F, T, w2[k].fetch)
  BY <1>1 DEF Owed
<1>5. ASSUME NEW f \in Client!Fetches, Unanswered(a, F, T, f)
      PROVE  \/ \E i \in 1 .. Len(c) : c[i].cb /\ c[i].fetch = f
             \/ \E k \in 1 .. Len(w2) : w2[k].cb /\ w2[k].fetch = f
  <2>1. \/ \E i \in 1 .. Len(c) : c[i].cb /\ c[i].fetch = f
        \/ \E k \in 1 .. Len(w) : w[k].cb /\ w[k].fetch = f
    BY <1>5 DEF Owed
  <2> QED
    BY <1>1, <2>1
<1>6. Owed(w2, c, a, F, T)
  BY <1>2, <1>3, <1>4, <1>5 DEF Owed
<1> QED
  BY <1>6 DEF w2

\* The application fetches once more.
LEMMA OwedMore ==
    ASSUME NEW w \in Seq(EntryType), NEW c \in Seq(ConnType), NEW a, NEW F \in Nat,
           Owed(w, c, a, F, {})
    PROVE  Owed(w, c, a, F + 1, {F + 1})
<1> DEFINE T == {F + 1}
<1>1. /\ \A f \in Client!Fetches : f \in Nat
      /\ \A i \in 1 .. Len(c) : c[i].fetch \in Client!Fetches
      /\ \A k \in 1 .. Len(w) : w[k].fetch \in Client!Fetches
  <2>1. \A f \in Client!Fetches : f \in Nat
    BY InputsAssumption DEF Client!Fetches
  <2> QED
    BY <2>1, OwnersFetch
<1>2. \A f \in Client!Fetches : Unanswered(a, F + 1, T, f) <=> Unanswered(a, F, {}, f)
  BY <1>1 DEF Unanswered
<1>3. ASSUME NEW f \in Client!Fetches
      PROVE  /\ a[f] = <<>> \/ Len(a[f]) = 1
             /\ ~(f <= F + 1) \/ f \in T => a[f] = <<>>
  <2>1. /\ a[f] = <<>> \/ Len(a[f]) = 1
        /\ ~(f <= F) => a[f] = <<>>
    BY DEF Owed
  <2>2. ~(f <= F + 1) \/ f \in T => ~(f <= F)
    BY <1>1
  <2> QED
    BY <2>1, <2>2
<1> HIDE DEF T
<1>4. \A i \in 1 .. Len(c) : c[i].cb => Unanswered(a, F + 1, T, c[i].fetch)
  BY <1>1, <1>2 DEF Owed
<1>5. \A k \in 1 .. Len(w) : w[k].cb => Unanswered(a, F + 1, T, w[k].fetch)
  BY <1>1, <1>2 DEF Owed
<1>6. ASSUME NEW f \in Client!Fetches, Unanswered(a, F + 1, T, f)
      PROVE  \/ \E i \in 1 .. Len(c) : c[i].cb /\ c[i].fetch = f
             \/ \E k \in 1 .. Len(w) : w[k].cb /\ w[k].fetch = f
  BY <1>2, <1>6 DEF Owed
<1>7. Owed(w, c, a, F + 1, T)
  BY <1>3, <1>4, <1>5, <1>6 DEF Owed
<1> QED
  BY <1>7 DEF T

-----------------------------------------------------------------------------
(* A connection: its fields, one step at a time.                           *)

LEMMA SetQueue ==
    ASSUME NEW c \in ConnType, NEW q \in Seq(CallbackKinds)
    PROVE  LET d == [c EXCEPT !.queue = q]
           IN  /\ d \in ConnType /\ d.queue = q
               /\ d.fetch = c.fetch /\ d.hop = c.hop /\ d.cb = c.cb /\ d.held = c.held
               /\ d.timer = c.timer /\ d.dialing = c.dialing /\ d.open = c.open
               /\ d.closeCb = c.closeCb /\ d.reading = c.reading /\ d.due = c.due
               /\ d.resp = c.resp /\ d.sent = c.sent /\ d.gone = c.gone /\ d.got = c.got
               /\ d.used = c.used /\ d.body = c.body
BY DEF ConnType

LEMMA SetCloseCb ==
    ASSUME NEW c \in ConnType, NEW b \in BOOLEAN
    PROVE  LET d == [c EXCEPT !.closeCb = b]
           IN  /\ d \in ConnType /\ d.closeCb = b
               /\ d.fetch = c.fetch /\ d.hop = c.hop /\ d.cb = c.cb /\ d.held = c.held
               /\ d.timer = c.timer /\ d.dialing = c.dialing /\ d.open = c.open
               /\ d.reading = c.reading /\ d.queue = c.queue /\ d.due = c.due /\ d.resp = c.resp
               /\ d.sent = c.sent /\ d.gone = c.gone /\ d.got = c.got /\ d.used = c.used
               /\ d.body = c.body
BY DEF ConnType

LEMMA SetReading ==
    ASSUME NEW c \in ConnType, NEW r \in ReadKinds
    PROVE  LET d == [c EXCEPT !.reading = r]
           IN  /\ d \in ConnType /\ d.reading = r
               /\ d.fetch = c.fetch /\ d.hop = c.hop /\ d.cb = c.cb /\ d.held = c.held
               /\ d.timer = c.timer /\ d.dialing = c.dialing /\ d.open = c.open
               /\ d.closeCb = c.closeCb /\ d.queue = c.queue /\ d.due = c.due /\ d.resp = c.resp
               /\ d.sent = c.sent /\ d.gone = c.gone /\ d.got = c.got /\ d.used = c.used
               /\ d.body = c.body
BY DEF ConnType

LEMMA SetOpen ==
    ASSUME NEW c \in ConnType, NEW b \in BOOLEAN
    PROVE  LET d == [c EXCEPT !.open = b]
           IN  /\ d \in ConnType /\ d.open = b
               /\ d.fetch = c.fetch /\ d.hop = c.hop /\ d.cb = c.cb /\ d.held = c.held
               /\ d.timer = c.timer /\ d.dialing = c.dialing /\ d.closeCb = c.closeCb
               /\ d.reading = c.reading /\ d.queue = c.queue /\ d.due = c.due /\ d.resp = c.resp
               /\ d.sent = c.sent /\ d.gone = c.gone /\ d.got = c.got /\ d.used = c.used
               /\ d.body = c.body
BY DEF ConnType

LEMMA SetGot ==
    ASSUME NEW c \in ConnType, NEW n \in Nat
    PROVE  LET d == [c EXCEPT !.got = n]
           IN  /\ d \in ConnType /\ d.got = n
               /\ d.fetch = c.fetch /\ d.hop = c.hop /\ d.cb = c.cb /\ d.held = c.held
               /\ d.timer = c.timer /\ d.dialing = c.dialing /\ d.open = c.open
               /\ d.closeCb = c.closeCb /\ d.reading = c.reading /\ d.queue = c.queue
               /\ d.due = c.due /\ d.resp = c.resp /\ d.sent = c.sent /\ d.gone = c.gone
               /\ d.used = c.used /\ d.body = c.body
BY DEF ConnType

LEMMA SetBody ==
    ASSUME NEW c \in ConnType, NEW n \in Nat
    PROVE  LET d == [c EXCEPT !.body = n]
           IN  /\ d \in ConnType /\ d.body = n
               /\ d.fetch = c.fetch /\ d.hop = c.hop /\ d.cb = c.cb /\ d.held = c.held
               /\ d.timer = c.timer /\ d.dialing = c.dialing /\ d.open = c.open
               /\ d.closeCb = c.closeCb /\ d.reading = c.reading /\ d.queue = c.queue
               /\ d.due = c.due /\ d.resp = c.resp /\ d.sent = c.sent /\ d.gone = c.gone
               /\ d.got = c.got /\ d.used = c.used
BY DEF ConnType

LEMMA SetDialing ==
    ASSUME NEW c \in ConnType, NEW b \in BOOLEAN
    PROVE  LET d == [c EXCEPT !.dialing = b]
           IN  /\ d \in ConnType /\ d.dialing = b
               /\ d.fetch = c.fetch /\ d.hop = c.hop /\ d.cb = c.cb /\ d.held = c.held
               /\ d.timer = c.timer /\ d.open = c.open /\ d.closeCb = c.closeCb
               /\ d.reading = c.reading /\ d.queue = c.queue /\ d.due = c.due /\ d.resp = c.resp
               /\ d.sent = c.sent /\ d.gone = c.gone /\ d.got = c.got /\ d.used = c.used
               /\ d.body = c.body
BY DEF ConnType

LEMMA SetDue ==
    ASSUME NEW c \in ConnType, NEW n \in Nat
    PROVE  LET d == [c EXCEPT !.due = n]
           IN  /\ d \in ConnType /\ d.due = n
               /\ d.fetch = c.fetch /\ d.hop = c.hop /\ d.cb = c.cb /\ d.held = c.held
               /\ d.timer = c.timer /\ d.dialing = c.dialing /\ d.open = c.open
               /\ d.closeCb = c.closeCb /\ d.reading = c.reading /\ d.queue = c.queue
               /\ d.resp = c.resp /\ d.sent = c.sent /\ d.gone = c.gone /\ d.got = c.got
               /\ d.used = c.used /\ d.body = c.body
BY DEF ConnType

LEMMA SetSent ==
    ASSUME NEW c \in ConnType, NEW n \in Nat
    PROVE  LET d == [c EXCEPT !.sent = n]
           IN  /\ d \in ConnType /\ d.sent = n
               /\ d.fetch = c.fetch /\ d.hop = c.hop /\ d.cb = c.cb /\ d.held = c.held
               /\ d.timer = c.timer /\ d.dialing = c.dialing /\ d.open = c.open
               /\ d.closeCb = c.closeCb /\ d.reading = c.reading /\ d.queue = c.queue
               /\ d.due = c.due /\ d.resp = c.resp /\ d.gone = c.gone /\ d.got = c.got
               /\ d.used = c.used /\ d.body = c.body
BY DEF ConnType

LEMMA SetHeld ==
    ASSUME NEW c \in ConnType, NEW b \in BOOLEAN
    PROVE  LET d == [c EXCEPT !.held = b]
           IN  /\ d \in ConnType /\ d.held = b
               /\ d.fetch = c.fetch /\ d.hop = c.hop /\ d.cb = c.cb /\ d.timer = c.timer
               /\ d.dialing = c.dialing /\ d.open = c.open /\ d.closeCb = c.closeCb
               /\ d.reading = c.reading /\ d.queue = c.queue /\ d.due = c.due /\ d.resp = c.resp
               /\ d.sent = c.sent /\ d.gone = c.gone /\ d.got = c.got /\ d.used = c.used
               /\ d.body = c.body
BY DEF ConnType

LEMMA SetCb ==
    ASSUME NEW c \in ConnType, NEW b \in BOOLEAN
    PROVE  LET d == [c EXCEPT !.cb = b]
           IN  /\ d \in ConnType /\ d.cb = b
               /\ d.fetch = c.fetch /\ d.hop = c.hop /\ d.held = c.held /\ d.timer = c.timer
               /\ d.dialing = c.dialing /\ d.open = c.open /\ d.closeCb = c.closeCb
               /\ d.reading = c.reading /\ d.queue = c.queue /\ d.due = c.due /\ d.resp = c.resp
               /\ d.sent = c.sent /\ d.gone = c.gone /\ d.got = c.got /\ d.used = c.used
               /\ d.body = c.body
BY DEF ConnType

LEMMA SetTimer ==
    ASSUME NEW c \in ConnType, NEW b \in BOOLEAN
    PROVE  LET d == [c EXCEPT !.timer = b]
           IN  /\ d \in ConnType /\ d.timer = b
               /\ d.fetch = c.fetch /\ d.hop = c.hop /\ d.cb = c.cb /\ d.held = c.held
               /\ d.dialing = c.dialing /\ d.open = c.open /\ d.closeCb = c.closeCb
               /\ d.reading = c.reading /\ d.queue = c.queue /\ d.due = c.due /\ d.resp = c.resp
               /\ d.sent = c.sent /\ d.gone = c.gone /\ d.got = c.got /\ d.used = c.used
               /\ d.body = c.body
BY DEF ConnType

-----------------------------------------------------------------------------
(* What a connection reads.                                                *)

\* The reads of a response come one after the other: what has been taken of it and the
\* part of the body passed on, when a read waits ...
AskedFor(what, framing, used, body) ==
    CASE what = "none" -> TRUE
      [] what = "headers" -> used = 0
      [] what = "line" -> framing = "chunked" /\ ((used = 1 /\ body = 0) \/ (used = 3 /\ body = 1))
      [] what = "chunk" -> framing = "chunked" /\ used = 2 /\ body = 0
      [] what = "data" -> framing = "length" /\ used = 1 /\ body = 0
      [] what = "close" -> framing = "close" /\ used >= 1
\* ... and when its callback is queued.
OfRead(kind, framing, used, body) ==
    CASE kind = "closed" -> TRUE
      [] kind = "connect" -> used = 0 /\ body = 0
      [] kind = "headers" -> used = 1 /\ body = 0
      [] kind = "line" -> framing = "chunked" /\ ((used = 2 /\ body = 0) \/ (used = 4 /\ body = 1))
      [] kind = "chunk" -> framing = "chunked" /\ used = 3 /\ body = 0
      [] kind = "data" -> framing = "length" /\ used = 2 /\ body = 0
      [] kind = "body" -> framing = "close" /\ used >= 1

\* Nothing but the close callback is queued.
NoneQueued(q) == \A k \in 1 .. Len(q) : q[k] = "closed"
\* One callback at most is, beside it.
OneQueued(q) == \A k, l \in 1 .. Len(q) : q[k] # "closed" /\ q[l] # "closed" => k = l
Sized(c) ==
    /\ c.used <= c.got /\ c.got <= c.sent /\ (c.used = 0 => c.body = 0)
    /\ c.due <= Len(c.queue)
Reads(c) ==
    /\ Sized(c)
    /\ AskedFor(c.reading, c.resp.framing, c.used, c.body)
    /\ \A k \in 1 .. Len(c.queue) : OfRead(c.queue[k], c.resp.framing, c.used, c.body)
    /\ OneQueued(c.queue)
    /\ NoneQueued(c.queue) \/ c.reading = "none"
    /\ c.dialing => c.sent = 0 /\ c.reading = "none" /\ NoneQueued(c.queue)

\* Neither a read nor a callback of one is under way.
Quiet(c) == c.reading = "none" /\ NoneQueued(c.queue) /\ ~c.dialing

\* What a step of the stream leaves alone, and what holds after it.
Kept(c, d) ==
    /\ d \in ConnType /\ Reads(d)
    /\ d.fetch = c.fetch /\ d.cb = c.cb /\ d.held = c.held

LEMMA QuietReads ==
    ASSUME NEW c \in ConnType, Quiet(c), Sized(c)
    PROVE  Reads(c)
<1>1. \A k \in 1 .. Len(c.queue) : c.queue[k] = "closed"
  BY DEF Quiet, NoneQueued
<1>2. \A k \in 1 .. Len(c.queue) : OfRead(c.queue[k], c.resp.framing, c.used, c.body)
  BY <1>1 DEF OfRead
<1>3. OneQueued(c.queue)
  BY <1>1 DEF OneQueued
<1>4. AskedFor(c.reading, c.resp.framing, c.used, c.body)
  BY DEF Quiet, AskedFor
<1> QED
  BY <1>2, <1>3, <1>4 DEF Reads, Quiet

\* One more callback at the end of the queue.
LEMMA Appended ==
    ASSUME NEW q \in Seq(CallbackKinds), NEW kind \in CallbackKinds
    PROVE  LET r == Append(q, kind)
           IN  /\ r \in Seq(CallbackKinds) /\ Len(r) = Len(q) + 1 /\ Len(q) \in Nat
               /\ \A k \in 1 .. Len(q) : r[k] = q[k] /\ k \in 1 .. Len(r)
               /\ r[Len(q) + 1] = kind /\ Len(q) + 1 \in 1 .. Len(r)
               /\ \A k \in 1 .. Len(r) : k \in 1 .. Len(q) \/ k = Len(q) + 1
<1>1. Len(q) \in Nat
  OBVIOUS
<1> QED
  BY <1>1

LEMMA QueueOneMore ==
    ASSUME NEW c \in ConnType, NEW kind \in CallbackKinds, Sized(c)
    PROVE  LET d == Client!Queue(c, kind)
           IN  /\ d \in ConnType /\ Sized(d) /\ d.queue = Append(c.queue, kind)
               /\ d.fetch = c.fetch /\ d.hop = c.hop /\ d.cb = c.cb /\ d.held = c.held
               /\ d.timer = c.timer /\ d.dialing = c.dialing /\ d.open = c.open
               /\ d.closeCb = c.closeCb /\ d.reading = c.reading /\ d.due = c.due
               /\ d.resp = c.resp /\ d.sent = c.sent /\ d.gone = c.gone /\ d.got = c.got
               /\ d.used = c.used /\ d.body = c.body
<1> DEFINE d == Client!Queue(c, kind)
           r == Append(c.queue, kind)
<1>1. c.queue \in Seq(CallbackKinds) /\ c.due \in Nat
  BY DEF ConnType
<1>2. r \in Seq(CallbackKinds) /\ Len(r) = Len(c.queue) + 1 /\ Len(c.queue) \in Nat
  BY <1>1, Appended
<1>3. d = [c EXCEPT !.queue = r]
  BY DEF Client!Queue
<1> HIDE DEF r, d
<1>4. /\ d \in ConnType /\ d.queue = r
      /\ d.fetch = c.fetch /\ d.hop = c.hop /\ d.cb = c.cb /\ d.held = c.held
      /\ d.timer = c.timer /\ d.dialing = c.dialing /\ d.open = c.open
      /\ d.closeCb = c.closeCb /\ d.reading = c.reading /\ d.due = c.due
      /\ d.resp = c.resp /\ d.sent = c.sent /\ d.gone = c.gone /\ d.got = c.got
      /\ d.used = c.used /\ d.body = c.body
  BY <1>2, <1>3, SetQueue
<1>5. Sized(d)
  BY <1>1, <1>2, <1>4 DEF Sized
<1> QED
  BY <1>4, <1>5 DEF d, r

\* The close callback is queued.
LEMMA QueueClosed ==
    ASSUME NEW c \in ConnType, Reads(c)
    PROVE  LET d == Client!Queue(c, "closed")
           IN  Kept(c, d) /\ (Quiet(c) => Quiet(d))
<1> DEFINE d == Client!Queue(c, "closed")
           q == c.queue
           r == d.queue
<1>1. "closed" \in CallbackKinds /\ c.queue \in Seq(CallbackKinds) /\ Sized(c)
  BY DEF CallbackKinds, ConnType, Reads
<1>2. /\ d \in ConnType /\ Sized(d) /\ r = Append(q, "closed")
      /\ d.fetch = c.fetch /\ d.cb = c.cb /\ d.held = c.held
      /\ d.dialing = c.dialing /\ d.reading = c.reading /\ d.resp = c.resp
      /\ d.sent = c.sent /\ d.used = c.used /\ d.body = c.body
  BY <1>1, QueueOneMore
<1>3. /\ \A k \in 1 .. Len(q) : r[k] = q[k] /\ k \in 1 .. Len(r)
      /\ r[Len(q) + 1] = "closed"
      /\ \A k \in 1 .. Len(r) : k \in 1 .. Len(q) \/ k = Len(q) + 1
  BY <1>1, <1>2, Appended
<1>4. \A k \in 1 .. Len(r) : (k \in 1 .. Len(q) /\ r[k] = q[k]) \/ r[k] = "closed"
  BY <1>3
<1> HIDE DEF d, q, r
<1>5. NoneQueued(q) => NoneQueued(r)
  BY <1>4 DEF NoneQueued
<1>6. OneQueued(r)
  <2>1. OneQueued(q)
    BY DEF Reads, q
  <2> QED
    BY <1>4, <2>1 DEF OneQueued
<1>7. ASSUME NEW k \in 1 .. Len(r) PROVE OfRead(r[k], d.resp.framing, d.used, d.body)
  <2>1. CASE k \in 1 .. Len(q) /\ r[k] = q[k]
    <3>1. OfRead(q[k], c.resp.framing, c.used, c.body)
      BY <2>1 DEF Reads, q
    <3> QED
      BY <1>2, <2>1, <3>1
  <2>2. CASE r[k] = "closed"
    BY <2>2 DEF OfRead
  <2> QED
    BY <1>4, <2>1, <2>2
<1>8. AskedFor(d.reading, d.resp.framing, d.used, d.body)
  BY <1>2 DEF Reads
<1>9. /\ NoneQueued(r) \/ d.reading = "none"
      /\ d.dialing => d.sent = 0 /\ d.reading = "none" /\ NoneQueued(r)
  BY <1>2, <1>5 DEF Reads, q
<1>10. Reads(d)
  BY <1>2, <1>6, <1>7, <1>8, <1>9 DEF Reads, r
<1>11. Kept(c, d)
  BY <1>2, <1>10 DEF Kept
<1>12. Quiet(c) => Quiet(d)
  BY <1>2, <1>5 DEF Quiet, q, r
<1> QED
  BY <1>11, <1>12 DEF d

\* The callback of a read is queued.
LEMMA QueueRead ==
    ASSUME NEW c \in ConnType, Quiet(c), Sized(c), NEW kind \in CallbackKinds, kind # "closed",
           OfRead(kind, c.resp.framing, c.used, c.body)
    PROVE  Kept(c, Client!Queue(c, kind))
<1> DEFINE d == Client!Queue(c, kind)
           q == c.queue
           r == d.queue
<1>1. c.queue \in Seq(CallbackKinds)
  BY DEF ConnType
<1>2. /\ d \in ConnType /\ Sized(d) /\ r = Append(q, kind)
      /\ d.fetch = c.fetch /\ d.cb = c.cb /\ d.held = c.held
      /\ d.dialing = c.dialing /\ d.reading = c.reading /\ d.resp = c.resp
      /\ d.used = c.used /\ d.body = c.body
  BY QueueOneMore
<1>3. /\ \A k \in 1 .. Len(q) : r[k] = q[k] /\ k \in 1 .. Len(r)
      /\ r[Len(q) + 1] = kind
      /\ \A k \in 1 .. Len(r) : k \in 1 .. Len(q) \/ k = Len(q) + 1
  BY <1>1, <1>2, Appended
<1>4. \A k \in 1 .. Len(q) : q[k] = "closed"
  BY DEF Quiet, NoneQueued
<1>5. \A k \in 1 .. Len(r) : r[k] = "closed" \/ (k = Len(q) + 1 /\ r[k] = kind)
  BY <1>3, <1>4
<1> HIDE DEF d, q, r
<1>6. OneQueued(r)
  BY <1>5 DEF OneQueued
<1>7. ASSUME NEW k \in 1 .. Len(r) PROVE OfRead(r[k], d.resp.framing, d.used, d.body)
  <2>1. CASE r[k] = "closed"
    BY <2>1 DEF OfRead
  <2>2. CASE r[k] = kind
    BY <1>2, <2>2
  <2> QED
    BY <1>5, <2>1, <2>2
<1>8. d.reading = "none" /\ ~d.dialing
  BY <1>2 DEF Quiet
<1>9. AskedFor(d.reading, d.resp.framing, d.used, d.body)
  BY <1>8 DEF AskedFor
<1>10. Reads(d)
  BY <1>2, <1>6, <1>7, <1>8, <1>9 DEF Reads, r
<1> QED
  BY <1>2, <1>10 DEF Kept, d

LEMMA KeptMore ==
    ASSUME NEW c, NEW d, NEW e, Kept(c, d), Kept(d, e)
    PROVE  Kept(c, e)
BY DEF Kept

LEMMA MaybeRunCloseKeeps ==
    ASSUME NEW c \in ConnType, Reads(c)
    PROVE  Kept(c, Client!MaybeRunClose(c)) /\ (Quiet(c) => Quiet(Client!MaybeRunClose(c)))
<1> DEFINE b == [c EXCEPT !.closeCb = FALSE]
           run == ~c.open /\ c.closeCb /\ c.queue = <<>>
<1>1. Client!MaybeRunClose(c) = IF run THEN Client!Queue(b, "closed") ELSE c
  BY DEF Client!MaybeRunClose
<1>2. /\ b \in ConnType
      /\ b.fetch = c.fetch /\ b.cb = c.cb /\ b.held = c.held /\ b.dialing = c.dialing
      /\ b.reading = c.reading /\ b.queue = c.queue /\ b.due = c.due /\ b.resp = c.resp
      /\ b.sent = c.sent /\ b.got = c.got /\ b.used = c.used /\ b.body = c.body
  BY SetCloseCb
<1> HIDE DEF b, run
<1>3. Reads(b) /\ (Quiet(c) => Quiet(b))
  BY <1>2 DEF Reads, Sized, Quiet
<1>4. Kept(c, b) /\ Kept(c, c)
  BY <1>2, <1>3 DEF Kept
<1>5. Kept(b, Client!Queue(b, "closed")) /\ (Quiet(b) => Quiet(Client!Queue(b, "closed")))
  BY <1>2, <1>3, QueueClosed
<1>6. CASE run
  BY <1>1, <1>3, <1>4, <1>5, <1>6, KeptMore
<1>7. CASE ~run
  BY <1>1, <1>4, <1>7
<1> QED
  BY <1>6, <1>7

\* The rest of the buffer is the body.
LEMMA DeliverBodyKeeps ==
    ASSUME NEW c \in ConnType, Sized(c), NoneQueued(c.queue), ~c.dialing,
           c.resp.framing = "close", c.used >= 1
    PROVE  Kept(c, Client!DeliverBody(c))
<1> DEFINE m == c.body + c.got - c.used
           b == [c EXCEPT !.reading = "none", !.body = m, !.used = c.got]
<1>1. /\ c.body \in Nat /\ c.got \in Nat /\ c.used \in Nat /\ c.used <= c.got /\ c.got <= c.sent
      /\ c.due <= Len(c.queue)
  BY DEF ConnType, Sized
<1>2. m \in Nat
  BY <1>1
<1>3. Client!DeliverBody(c) = Client!Queue(b, "body")
  BY DEF Client!DeliverBody
<1> HIDE DEF m
<1>4. "none" \in ReadKinds /\ "body" \in CallbackKinds /\ "body" # "closed"
  BY DEF ReadKinds, CallbackKinds
<1>5. /\ b \in ConnType /\ b.reading = "none" /\ b.used = c.got
      /\ b.fetch = c.fetch /\ b.cb = c.cb /\ b.held = c.held
      /\ b.dialing = c.dialing /\ b.queue = c.queue /\ b.due = c.due
      /\ b.resp = c.resp /\ b.sent = c.sent /\ b.got = c.got
  <2> DEFINE r == "none"
             n == c.got
  <2>1. r \in ReadKinds /\ n \in Nat /\ b = [c EXCEPT !.reading = r, !.body = m, !.used = n]
    BY <1>1, <1>4
  <2> HIDE DEF b, r, n
  <2>2. /\ b \in ConnType /\ b.reading = r /\ b.used = n
        /\ b.fetch = c.fetch /\ b.cb = c.cb /\ b.held = c.held
        /\ b.dialing = c.dialing /\ b.queue = c.queue /\ b.due = c.due
        /\ b.resp = c.resp /\ b.sent = c.sent /\ b.got = c.got
    BY <1>2, <2>1 DEF ConnType
  <2> QED
    BY <2>2 DEF r, n
<1> HIDE DEF b
<1>6. b.used >= 1 /\ b.used # 0
  BY <1>1, <1>5
<1>7. Quiet(b) /\ Sized(b)
  <2>1. Quiet(b)
    BY <1>5 DEF Quiet
  <2>2. b.used <= b.got /\ b.got <= b.sent
    BY <1>1, <1>5
  <2> QED
    BY <1>1, <1>5, <1>6, <2>1, <2>2 DEF Sized
<1>8. OfRead("body", b.resp.framing, b.used, b.body)
  BY <1>5, <1>6 DEF OfRead
<1>9. Kept(b, Client!Queue(b, "body"))
  BY <1>4, <1>5, <1>7, <1>8, QueueRead
<1> QED
  BY <1>3, <1>5, <1>9 DEF Kept

\* What the field open is, no read depends on.
LEMMA OpenKeeps ==
    ASSUME NEW c \in ConnType, Reads(c), NEW b \in BOOLEAN
    PROVE  LET d == [c EXCEPT !.open = b]
           IN  /\ Kept(c, d) /\ (Quiet(c) => Quiet(d)) /\ d.open = b
               /\ d.reading = c.reading /\ d.got = c.got /\ d.used = c.used /\ d.gone = c.gone
               /\ d.resp = c.resp /\ d.body = c.body
<1> DEFINE d == [c EXCEPT !.open = b]
<1>1. /\ d \in ConnType /\ d.open = b
      /\ d.fetch = c.fetch /\ d.cb = c.cb /\ d.held = c.held /\ d.dialing = c.dialing
      /\ d.reading = c.reading /\ d.queue = c.queue /\ d.due = c.due /\ d.resp = c.resp
      /\ d.sent = c.sent /\ d.gone = c.gone /\ d.got = c.got /\ d.used = c.used /\ d.body = c.body
  BY SetOpen
<1> HIDE DEF d
<1>2. Reads(d) /\ (Quiet(c) => Quiet(d))
  BY <1>1 DEF Reads, Sized, Quiet
<1>3. Kept(c, d)
  BY <1>1, <1>2 DEF Kept
<1> QED
  BY <1>1, <1>2, <1>3 DEF d

LEMMA CloseSocketKeeps ==
    ASSUME NEW c \in ConnType, Reads(c)
    PROVE  Kept(c, Client!CloseSocket(c)) /\ (Quiet(c) => Quiet(Client!CloseSocket(c)))
<1> DEFINE whole == c.reading = "close" /\ c.open
           b == IF whole THEN Client!DeliverBody(c) ELSE c
<1>1. Client!CloseSocket(c) = [b EXCEPT !.open = FALSE]
  BY DEF Client!CloseSocket
<1>2. Kept(c, b) /\ (Quiet(c) => b = c)
  <2>1. CASE whole
    <3>1. c.reading = "close" /\ c.reading # "none"
      BY <2>1
    <3>2. c.resp.framing = "close" /\ c.used >= 1
      BY <3>1 DEF Reads, AskedFor
    <3>3. Sized(c) /\ NoneQueued(c.queue) /\ ~c.dialing
      BY <3>1 DEF Reads
    <3>4. Kept(c, Client!DeliverBody(c))
      BY <3>2, <3>3, DeliverBodyKeeps
    <3>5. ~Quiet(c)
      BY <3>1 DEF Quiet
    <3> QED
      BY <2>1, <3>4, <3>5
  <2>2. CASE ~whole
    BY <2>2 DEF Kept
  <2> QED
    BY <2>1, <2>2
<1> HIDE DEF b, whole
<1>3. b \in ConnType /\ Reads(b)
  BY <1>2 DEF Kept
<1>4. Kept(b, [b EXCEPT !.open = FALSE]) /\ (Quiet(b) => Quiet([b EXCEPT !.open = FALSE]))
  BY <1>3, OpenKeeps
<1>5. Kept(c, [b EXCEPT !.open = FALSE])
  BY <1>2, <1>4, KeptMore
<1> QED
  BY <1>1, <1>2, <1>4, <1>5

LEMMA CloseStreamKeeps ==
    ASSUME NEW c \in ConnType, Reads(c)
    PROVE  Kept(c, Client!CloseStream(c)) /\ (Quiet(c) => Quiet(Client!CloseStream(c)))
<1> DEFINE b == Client!CloseSocket(c)
<1>1. Client!CloseStream(c) = Client!MaybeRunClose(b)
  BY DEF Client!CloseStream
<1>2. Kept(c, b) /\ (Quiet(c) => Quiet(b))
  BY CloseSocketKeeps
<1> HIDE DEF b
<1>3. b \in ConnType /\ Reads(b)
  BY <1>2 DEF Kept
<1>4. Kept(b, Client!MaybeRunClose(b)) /\ (Quiet(b) => Quiet(Client!MaybeRunClose(b)))
  BY <1>3, MaybeRunCloseKeeps
<1> QED
  BY <1>1, <1>2, <1>4, KeptMore

LEMMA FillKeeps ==
    ASSUME NEW c \in ConnType, Reads(c)
    PROVE  LET d == Client!Fill(c)
           IN  /\ Kept(c, d) /\ (Quiet(c) => Quiet(d)) /\ d.reading = c.reading /\ d.resp = c.resp
               /\ d.used = c.used /\ d.body = c.body
<1> DEFINE b == [c EXCEPT !.got = c.sent]
<1>1. Client!Fill(c) = IF c.gone = "reset" THEN c ELSE b
  BY DEF Client!Fill
<1>2. /\ c.sent \in Nat /\ c.got \in Nat /\ c.used \in Nat
      /\ c.used <= c.got /\ c.got <= c.sent
  BY DEF ConnType, Reads, Sized
<1>3. /\ b \in ConnType /\ b.got = c.sent
      /\ b.fetch = c.fetch /\ b.cb = c.cb /\ b.held = c.held /\ b.dialing = c.dialing
      /\ b.reading = c.reading /\ b.queue = c.queue /\ b.due = c.due /\ b.resp = c.resp
      /\ b.sent = c.sent /\ b.used = c.used /\ b.body = c.body
  BY <1>2, SetGot
<1> HIDE DEF b
<1>4. b.used <= b.got /\ b.got <= b.sent
  BY <1>2, <1>3
<1>5. Sized(b)
  BY <1>3, <1>4 DEF Reads, Sized
<1>6. Reads(b) /\ (Quiet(c) => Quiet(b))
  BY <1>3, <1>5 DEF Reads, Quiet
<1>7. Kept(c, b) /\ Kept(c, c)
  BY <1>3, <1>6 DEF Kept
<1> QED
  BY <1>1, <1>3, <1>6, <1>7

LEMMA TakenRead ==
    ASSUME NEW what \in {"headers", "line", "chunk", "data"}, NEW framing, NEW used \in Nat,
           NEW body, used = 0 => body = 0, AskedFor(what, framing, used, body)
    PROVE  OfRead(what, framing, used + 1, body)
<1> DEFINE n == used + 1
<1>1. /\ used = 0 => n = 1
      /\ used = 1 => n = 2
      /\ used = 2 => n = 3
      /\ used = 3 => n = 4
  OBVIOUS
<1> HIDE DEF n
<1>2. CASE what = "headers"
  BY <1>1, <1>2 DEF AskedFor, OfRead
<1>3. CASE what = "line"
  BY <1>1, <1>3 DEF AskedFor, OfRead
<1>4. CASE what = "chunk"
  BY <1>1, <1>4 DEF AskedFor, OfRead
<1>5. CASE what = "data"
  BY <1>1, <1>5 DEF AskedFor, OfRead
<1> QED
  BY <1>2, <1>3, <1>4, <1>5

\* A read that waits takes the next piece, if it is there.
LEMMA DeliverKeeps ==
    ASSUME NEW c \in ConnType, Reads(c)
    PROVE  Kept(c, Client!Deliver(c))
<1> DEFINE idle == c.reading \in {"none", "close"} \/ c.got = c.used
           n == c.used + 1
           b == [c EXCEPT !.reading = "none", !.used = n]
<1>1. Client!Deliver(c) = IF idle THEN c ELSE Client!Queue(b, c.reading)
  BY DEF Client!Deliver
<1>2. CASE idle
  BY <1>1, <1>2 DEF Kept
<1>3. CASE ~idle
  <2>1. /\ c.reading \in {"headers", "line", "chunk", "data"} /\ c.got # c.used
    BY <1>3 DEF ConnType, ReadKinds
  <2>2. /\ c.got \in Nat /\ c.used \in Nat /\ c.sent \in Nat /\ c.body \in Nat
        /\ c.used <= c.got /\ c.got <= c.sent /\ (c.used = 0 => c.body = 0)
        /\ c.due <= Len(c.queue)
    BY DEF ConnType, Reads, Sized
  <2>3. n \in Nat /\ n <= c.got /\ n # 0
    BY <2>1, <2>2
  <2>4. "none" \in ReadKinds /\ c.reading \in CallbackKinds /\ c.reading # "closed"
        /\ c.reading # "none"
    BY <2>1 DEF ReadKinds, CallbackKinds
  <2>5. /\ b \in ConnType /\ b.reading = "none" /\ b.used = n
        /\ b.fetch = c.fetch /\ b.cb = c.cb /\ b.held = c.held
        /\ b.dialing = c.dialing /\ b.queue = c.queue /\ b.due = c.due
        /\ b.resp = c.resp /\ b.sent = c.sent /\ b.got = c.got /\ b.body = c.body
    <3> DEFINE r == "none"
    <3>1. r \in ReadKinds /\ b = [c EXCEPT !.reading = r, !.used = n]
      BY <2>4
    <3> HIDE DEF b, r, n
    <3>2. /\ b \in ConnType /\ b.reading = r /\ b.used = n
          /\ b.fetch = c.fetch /\ b.cb = c.cb /\ b.held = c.held
          /\ b.dialing = c.dialing /\ b.queue = c.queue /\ b.due = c.due
          /\ b.resp = c.resp /\ b.sent = c.sent /\ b.got = c.got /\ b.body = c.body
      BY <2>3, <3>1 DEF ConnType
    <3> QED
      BY <3>2 DEF r
  <2>6. OfRead(c.reading, c.resp.framing, n, c.body)
    <3>1. AskedFor(c.reading, c.resp.framing, c.used, c.body)
      BY DEF Reads
    <3> QED
      BY <2>1, <2>2, <3>1, TakenRead
  <2> HIDE DEF b, n
  <2>7. Quiet(b)
    BY <2>4, <2>5 DEF Reads, Quiet
  <2>8. Sized(b)
    BY <2>2, <2>3, <2>5 DEF Sized
  <2>9. Kept(b, Client!Queue(b, c.reading))
    BY <2>4, <2>5, <2>6, <2>7, <2>8, QueueRead
  <2> QED
    BY <1>1, <1>3, <2>5, <2>9 DEF Kept
<1> QED
  BY <1>2, <1>3

\* A read event.
LEMMA HandleReadKeeps ==
    ASSUME NEW c \in ConnType, Reads(c)
    PROVE  Kept(c, Client!HandleRead(c))
<1> DEFINE f == Client!Fill(c)
           b == IF c.gone = "no" THEN f ELSE Client!CloseSocket(f)
           d == Client!Deliver(b)
<1>1. Client!HandleRead(c) =
          IF c.gone = "reset" THEN Client!CloseStream(c) ELSE Client!MaybeRunClose(d)
  BY DEF Client!HandleRead
<1>2. Kept(c, f)
  BY FillKeeps
<1> HIDE DEF f
<1>3. f \in ConnType /\ Reads(f)
  BY <1>2 DEF Kept
<1>4. Kept(f, Client!CloseSocket(f)) /\ Kept(f, f)
  BY <1>3, CloseSocketKeeps DEF Kept
<1>5. Kept(c, b)
  BY <1>2, <1>4, KeptMore
<1> HIDE DEF b
<1>6. b \in ConnType /\ Reads(b)
  BY <1>5 DEF Kept
<1>7. Kept(b, d)
  BY <1>6, DeliverKeeps
<1>8. Kept(c, d)
  BY <1>5, <1>7, KeptMore
<1> HIDE DEF d
<1>9. d \in ConnType /\ Reads(d)
  BY <1>8 DEF Kept
<1>10. Kept(d, Client!MaybeRunClose(d))
  BY <1>9, MaybeRunCloseKeeps
<1>11. Kept(c, Client!MaybeRunClose(d))
  BY <1>8, <1>10, KeptMore
<1>12. Kept(c, Client!CloseStream(c))
  BY CloseStreamKeeps
<1> QED
  BY <1>1, <1>11, <1>12

\* A callback asks for the next piece.
LEMMA StartReadKeeps ==
    ASSUME NEW c \in ConnType, Reads(c), Quiet(c), NEW what \in ReadKinds,
           AskedFor(what, c.resp.framing, c.used, c.body)
    PROVE  Kept(c, Client!StartRead(c, what))
<1> DEFINE d == [c EXCEPT !.reading = what]
           f == Client!Fill(d)
           none == c.gone = "no"
           b == [f EXCEPT !.open = none]
<1>1. Client!StartRead(c, what) =
          IF c.got > c.used THEN Client!Deliver(d) ELSE Client!Deliver([f EXCEPT !.open = c.gone = "no"])
  BY DEF Client!StartRead
<1>2. /\ d \in ConnType /\ d.reading = what
      /\ d.fetch = c.fetch /\ d.cb = c.cb /\ d.held = c.held /\ d.dialing = c.dialing
      /\ d.queue = c.queue /\ d.due = c.due /\ d.resp = c.resp
      /\ d.sent = c.sent /\ d.gone = c.gone /\ d.got = c.got /\ d.used = c.used /\ d.body = c.body
  BY SetReading
<1> HIDE DEF d, none
<1>3. Sized(d)
  BY <1>2 DEF Reads, Sized
<1>4. Reads(d)
  <2>1. \A k \in 1 .. Len(d.queue) : OfRead(d.queue[k], d.resp.framing, d.used, d.body)
    BY <1>2 DEF Reads
  <2>2. OneQueued(d.queue) /\ NoneQueued(d.queue) /\ ~d.dialing
    BY <1>2 DEF Reads, Quiet
  <2>3. AskedFor(d.reading, d.resp.framing, d.used, d.body)
    BY <1>2
  <2> QED
    BY <1>3, <2>1, <2>2, <2>3 DEF Reads
<1>5. Kept(c, d)
  BY <1>2, <1>4 DEF Kept
<1>6. Kept(d, Client!Deliver(d)) /\ Kept(d, f)
  BY <1>2, <1>4, DeliverKeeps, FillKeeps
<1> HIDE DEF f
<1>7. f \in ConnType /\ Reads(f) /\ none \in BOOLEAN
  BY <1>6 DEF Kept, none
<1>8. Kept(f, b)
  BY <1>7, OpenKeeps
<1>9. b = [f EXCEPT !.open = c.gone = "no"]
  BY DEF none
<1> HIDE DEF b
<1>10. b \in ConnType /\ Reads(b)
  BY <1>8 DEF Kept
<1>11. Kept(b, Client!Deliver(b))
  BY <1>10, DeliverKeeps
<1>12. Kept(c, Client!Deliver(d))
  BY <1>5, <1>6, KeptMore
<1>13. Kept(c, Client!Deliver(b))
  <2>1. Kept(c, f)
    BY <1>5, <1>6, KeptMore
  <2>2. Kept(c, b)
    BY <1>8, <2>1, KeptMore
  <2> QED
    BY <1>11, <2>2, KeptMore
<1> QED
  BY <1>1, <1>9, <1>12, <1>13

LEMMA ReadUntilCloseKeeps ==
    ASSUME NEW c \in ConnType, Reads(c), Quiet(c), c.resp.framing = "close", c.used >= 1
    PROVE  Kept(c, Client!ReadUntilClose(c))
<1> DEFINE d == [c EXCEPT !.reading = "close"]
<1>1. Client!ReadUntilClose(c) = IF c.open THEN d ELSE Client!DeliverBody(c)
  BY DEF Client!ReadUntilClose
<1>2. "close" \in ReadKinds
  BY DEF ReadKinds
<1>3. /\ d \in ConnType /\ d.reading = "close"
      /\ d.fetch = c.fetch /\ d.cb = c.cb /\ d.held = c.held /\ d.dialing = c.dialing
      /\ d.queue = c.queue /\ d.due = c.due /\ d.resp = c.resp
      /\ d.sent = c.sent /\ d.got = c.got /\ d.used = c.used /\ d.body = c.body
  BY <1>2, SetReading
<1> HIDE DEF d
<1>4. Sized(d)
  BY <1>3 DEF Reads, Sized
<1>5. Reads(d)
  <2>1. \A k \in 1 .. Len(d.queue) : OfRead(d.queue[k], d.resp.framing, d.used, d.body)
    BY <1>3 DEF Reads
  <2>2. OneQueued(d.queue) /\ NoneQueued(d.queue) /\ ~d.dialing
    BY <1>3 DEF Reads, Quiet
  <2>3. AskedFor(d.reading, d.resp.framing, d.used, d.body)
    BY <1>3 DEF AskedFor
  <2> QED
    BY <1>4, <2>1, <2>2, <2>3 DEF Reads
<1>6. Kept(c, d)
  BY <1>3, <1>5 DEF Kept
<1>7. Sized(c) /\ NoneQueued(c.queue) /\ ~c.dialing
  BY DEF Reads, Quiet
<1>8. Kept(c, Client!DeliverBody(c))
  BY <1>7, DeliverBodyKeeps
<1> QED
  BY <1>1, <1>6, <1>8

\* What cannot be read any more is forgotten.
LEMMA CollectedKeeps ==
    ASSUME NEW c \in ConnType, Reads(c)
    PROVE  Kept(c, Client!Collected(c))
<1> DEFINE d == [c EXCEPT !.resp = Client!NoResponse, !.reading = "none", !.gone = "no",
                          !.dialing = FALSE, !.sent = 0, !.got = 0, !.used = 0, !.body = 0]
           keep == c.open \/ Client!Range(c.queue) \ {"closed"} # {}
<1>1. Client!Collected(c) = IF keep THEN c ELSE d
  BY DEF Client!Collected
<1>2. CASE keep
  BY <1>1, <1>2 DEF Kept
<1>3. CASE ~keep
  <2>1. NoneQueued(c.queue)
    <3>1. c.queue \in Seq(CallbackKinds)
      BY DEF ConnType
    <3>2. \A k \in 1 .. Len(c.queue) : c.queue[k] \in Client!Range(c.queue)
      BY <3>1 DEF Client!Range
    <3>3. \A k \in Client!Range(c.queue) : k = "closed"
      BY <1>3
    <3> QED
      BY <3>2, <3>3 DEF NoneQueued
  <2>2. Client!NoResponse \in ResponseKinds /\ "none" \in ReadKinds
    BY DEF Client!NoResponse, ResponseKinds, ReadKinds
  <2>3. /\ d \in ConnType /\ d.reading = "none" /\ d.dialing = FALSE /\ d.sent = 0 /\ d.got = 0
        /\ d.used = 0 /\ d.body = 0
        /\ d.fetch = c.fetch /\ d.cb = c.cb /\ d.held = c.held
        /\ d.queue = c.queue /\ d.due = c.due
    BY <2>2 DEF ConnType
  <2> HIDE DEF d, keep
  <2>4. Quiet(d)
    BY <2>1, <2>3 DEF Quiet
  <2>5. Sized(d)
    BY <2>3 DEF Reads, Sized
  <2>6. Reads(d)
    BY <2>3, <2>4, <2>5, QuietReads
  <2> QED
    BY <1>1, <1>3, <2>3, <2>6 DEF Kept
<1> QED
  BY <1>2, <1>3

-----------------------------------------------------------------------------
(* The client keeps its places filled and its answers owed.                *)

\* What is true of the client while its queue is processed, and after it.
Base(x, F, T) ==
    /\ ClientType(x) /\ AtMost(x)
    /\ Owed(x.waiting, x.conns, x.answers, F, T)
    /\ \A j \in 1 .. Len(x.conns) : Reads(x.conns[j])
Core(x, F, T) == Base(x, F, T) /\ Filled(x)
Has(x, i) == i \in 1 .. Len(x.conns)

\* The connection i becomes d.
With(x, i, d) == [x EXCEPT !.conns[i] = d]

LEMMA WithIs ==
    ASSUME NEW x, ClientType(x), NEW i, Has(x, i), NEW d \in ConnType
    PROVE  LET y == With(x, i, d)
           IN  /\ ClientType(y) /\ y.waiting = x.waiting /\ y.answers = x.answers
               /\ Len(y.conns) = Len(x.conns) /\ Has(y, i) /\ y.conns[i] = d
               /\ \A j \in 1 .. Len(x.conns) : j # i => y.conns[j] = x.conns[j]
<1> DEFINE y == With(x, i, d)
           c == [x.conns EXCEPT ![i] = d]
<1>1. /\ x = [waiting |-> x.waiting, conns |-> x.conns, answers |-> x.answers]
      /\ x.waiting \in Seq(EntryType) /\ x.conns \in Seq(ConnType)
      /\ x.answers \in [Client!Fetches -> Seq(AnswerType)] /\ i \in 1 .. Len(x.conns)
  BY DEF ClientType, Has
<1>2. /\ c \in Seq(ConnType) /\ Len(c) = Len(x.conns) /\ c[i] = d
      /\ \A j \in 1 .. Len(x.conns) : j # i => c[j] = x.conns[j]
  BY <1>1, ExceptSeq
<1>3. y = [x EXCEPT !.conns = c]
  BY DEF With
<1> HIDE DEF c, y
<1>4. y = [waiting |-> x.waiting, conns |-> c, answers |-> x.answers]
  BY <1>1, <1>3
<1>5. y.waiting = x.waiting /\ y.conns = c /\ y.answers = x.answers
  BY <1>4
<1>6. ClientType(y)
  BY <1>1, <1>2, <1>4, <1>5 DEF ClientType
<1>7. Len(y.conns) = Len(x.conns) /\ Has(y, i) /\ y.conns[i] = d
  BY <1>1, <1>2, <1>5 DEF Has
<1> QED
  BY <1>2, <1>5, <1>6, <1>7 DEF y

\* A step of a stream.
LEMMA CoreWith ==
    ASSUME NEW x, NEW F, NEW T, Core(x, F, T), NEW i, Has(x, i), NEW d, Kept(x.conns[i], d)
    PROVE  Core(With(x, i, d), F, T) /\ Has(With(x, i, d), i)
<1> DEFINE y == With(x, i, d)
<1>1. /\ ClientType(x) /\ Filled(x) /\ Owed(x.waiting, x.conns, x.answers, F, T)
      /\ \A j \in 1 .. Len(x.conns) : Reads(x.conns[j])
  BY DEF Core, Base
<1>2. d \in ConnType /\ Reads(d) /\ d.fetch = x.conns[i].fetch /\ d.cb = x.conns[i].cb
      /\ d.held = x.conns[i].held
  BY DEF Kept
<1>3. /\ ClientType(y) /\ y.waiting = x.waiting /\ y.answers = x.answers
      /\ Len(y.conns) = Len(x.conns) /\ Has(y, i) /\ y.conns[i] = d
      /\ \A j \in 1 .. Len(x.conns) : j # i => y.conns[j] = x.conns[j]
  BY <1>1, <1>2, WithIs
<1> HIDE DEF y
<1>4. \A j \in 1 .. Len(x.conns) :
          y.conns[j].fetch = x.conns[j].fetch /\ y.conns[j].cb = x.conns[j].cb
          /\ y.conns[j].held = x.conns[j].held
  BY <1>2, <1>3
<1>5. Owed(y.waiting, y.conns, y.answers, F, T)
  BY <1>1, <1>3, <1>4, OwedSame
<1>6. \A j \in 1 .. Len(y.conns) : Reads(y.conns[j])
  BY <1>1, <1>2, <1>3
<1>7. Running(y) = Running(x)
  <2>1. /\ Client!Active(x) = {j \in 1 .. Len(x.conns) : x.conns[j].held}
        /\ Client!Active(y) = {j \in 1 .. Len(y.conns) : y.conns[j].held}
    <3>1. /\ DOMAIN x.conns = 1 .. Len(x.conns) /\ DOMAIN y.conns = 1 .. Len(y.conns)
      BY <1>1, <1>3 DEF ClientType
    <3> QED
      BY <3>1 DEF Client!Active
  <2>2. Client!Active(y) = Client!Active(x)
    BY <1>3, <1>4, <2>1
  <2> QED
    BY <2>2 DEF Running
<1>8. Filled(y) /\ AtMost(y)
  BY <1>1, <1>3, <1>7 DEF Filled, AtMost
<1>9. Core(y, F, T)
  BY <1>3, <1>5, <1>6, <1>8 DEF Core, Base
<1> QED
  BY <1>3, <1>9 DEF y

LEMMA NewReads ==
    ASSUME NEW e \in EntryType
    PROVE  Reads(Client!NewConn(e))
<1> DEFINE c == Client!NewConn(e)
<1>1. /\ c \in ConnType /\ c.dialing = TRUE /\ c.reading = "none"
      /\ c.queue = <<>> /\ c.due = 0 /\ c.sent = 0 /\ c.got = 0 /\ c.used = 0 /\ c.body = 0
  BY NewConnType
<1> HIDE DEF c
<1>2. Len(c.queue) = 0 /\ \A k : k \notin 1 .. Len(c.queue)
  BY <1>1
<1>3. Sized(c)
  BY <1>1, <1>2 DEF Sized
<1>4. NoneQueued(c.queue) /\ OneQueued(c.queue)
  BY <1>2 DEF NoneQueued, OneQueued
<1>5. AskedFor(c.reading, c.resp.framing, c.used, c.body)
  BY <1>1 DEF AskedFor
<1>6. Reads(c)
  BY <1>1, <1>2, <1>3, <1>4, <1>5 DEF Reads
<1> QED
  BY <1>6 DEF c

\* The queue is processed.
LEMMA CoreProcessed ==
    ASSUME NEW x, NEW F, NEW T, Base(x, F, T)
    PROVE  LET y == Client!ProcessQueue(x)
           IN  Core(y, F, T) /\ \A i : Has(x, i) => Has(y, i)
<1> DEFINE y == Client!ProcessQueue(x)
<1>1. /\ ClientType(x) /\ AtMost(x) /\ Owed(x.waiting, x.conns, x.answers, F, T)
      /\ \A j \in 1 .. Len(x.conns) : Reads(x.conns[j])
  BY DEF Base
<1>2. (\E n, g, at : Moved(x, y, n, g, at)) /\ Filled(y)
  BY <1>1, QueueMoved
<1> HIDE DEF y
<1>3. PICK n, g, at : Moved(x, y, n, g, at)
  BY <1>2
<1>4. Owed(y.waiting, y.conns, y.answers, F, T)
  BY <1>1, <1>3, OwedMoved
<1>5. /\ ClientType(y) /\ Len(y.conns) = Len(x.conns) + g /\ g \in Nat
      /\ n \in 0 .. Len(x.waiting)
      /\ \A i \in 1 .. Len(x.conns) : y.conns[i] = x.conns[i]
      /\ \A m \in 1 .. g : /\ y.conns[Len(x.conns) + m] = Client!NewConn(x.waiting[at[m]])
                           /\ at[m] \in 1 .. n
  BY <1>3 DEF Moved
<1>6. Len(x.conns) \in Nat /\ Len(x.waiting) \in Nat
      /\ \A k \in 1 .. Len(x.waiting) : x.waiting[k] \in EntryType
  BY <1>1 DEF ClientType
<1>7. ASSUME NEW j \in 1 .. Len(y.conns) PROVE Reads(y.conns[j])
  <2>1. CASE j \in 1 .. Len(x.conns)
    BY <1>1, <1>5, <2>1
  <2>2. CASE j \notin 1 .. Len(x.conns)
    <3> DEFINE m == j - Len(x.conns)
    <3>1. m \in 1 .. g /\ j = Len(x.conns) + m
      BY <1>5, <1>6, <2>2
    <3> HIDE DEF m
    <3>2. y.conns[j] = Client!NewConn(x.waiting[at[m]]) /\ at[m] \in 1 .. n
      BY <1>5, <3>1
    <3>3. at[m] \in 1 .. Len(x.waiting)
      BY <1>5, <1>6, <3>2
    <3>4. x.waiting[at[m]] \in EntryType
      BY <1>6, <3>3
    <3> QED
      BY <3>2, <3>4, NewReads
  <2> QED
    BY <2>1, <2>2
<1>8. Core(y, F, T)
  BY <1>2, <1>4, <1>5, <1>7 DEF Core, Base, Filled
<1>9. ASSUME NEW i, Has(x, i) PROVE Has(y, i)
  BY <1>5, <1>6, <1>9 DEF Has
<1> QED
  BY <1>8, <1>9 DEF y

\* A place is given back.
LEMMA CoreRelease ==
    ASSUME NEW x, NEW F, NEW T, Core(x, F, T), NEW i, Has(x, i)
    PROVE  Core(Client!Release(x, i), F, T) /\ Has(Client!Release(x, i), i)
<1> DEFINE c == x.conns[i]
           d == [c EXCEPT !.held = FALSE]
           y == With(x, i, d)
<1>1. Client!Release(x, i) = IF c.held THEN Client!ProcessQueue(y) ELSE x
  BY DEF Client!Release, With
<1>2. /\ ClientType(x) /\ AtMost(x) /\ Owed(x.waiting, x.conns, x.answers, F, T)
      /\ \A j \in 1 .. Len(x.conns) : Reads(x.conns[j])
  BY DEF Core, Base
<1>3. c \in ConnType /\ Reads(c)
  BY <1>2 DEF ClientType, Has
<1>4. /\ d \in ConnType /\ d.held = FALSE /\ d.fetch = c.fetch /\ d.cb = c.cb
      /\ d.dialing = c.dialing /\ d.reading = c.reading /\ d.queue = c.queue /\ d.due = c.due
      /\ d.resp = c.resp /\ d.sent = c.sent /\ d.got = c.got /\ d.used = c.used
      /\ d.body = c.body
  BY <1>3, SetHeld
<1> HIDE DEF d
<1>5. /\ ClientType(y) /\ y.waiting = x.waiting /\ y.answers = x.answers
      /\ Len(y.conns) = Len(x.conns) /\ Has(y, i) /\ y.conns[i] = d
      /\ \A j \in 1 .. Len(x.conns) : j # i => y.conns[j] = x.conns[j]
  BY <1>2, <1>4, WithIs
<1> HIDE DEF y
<1>6. \A j \in 1 .. Len(x.conns) :
          y.conns[j].fetch = x.conns[j].fetch /\ y.conns[j].cb = x.conns[j].cb
  BY <1>4, <1>5
<1>7. Owed(y.waiting, y.conns, y.answers, F, T)
  BY <1>2, <1>5, <1>6, OwedSame
<1>8. Reads(d)
  BY <1>3, <1>4 DEF Reads, Sized
<1>9. \A j \in 1 .. Len(y.conns) : Reads(y.conns[j])
  BY <1>2, <1>5, <1>8
<1>10. AtMost(y)
  <2>1. DOMAIN x.conns = 1 .. Len(x.conns) /\ DOMAIN y.conns = 1 .. Len(y.conns)
    BY <1>2, <1>5 DEF ClientType
  <2>2. Client!Active(y) \in SUBSET Client!Active(x)
    BY <1>4, <1>5, <2>1 DEF Client!Active
  <2>3. IsFiniteSet(Client!Active(x)) /\ Running(y) \in Nat /\ Running(x) \in Nat
    BY <1>2, <1>5, ActiveFinite DEF ClientType
  <2>4. Running(y) <= Running(x)
    BY <2>2, <2>3, FS_Subset DEF Running
  <2>5. Running(x) <= MaxClients /\ MaxClients \in Nat
    BY <1>2, InputsAssumption DEF AtMost
  <2> QED
    BY <2>3, <2>4, <2>5 DEF AtMost
<1>11. Base(y, F, T)
  BY <1>5, <1>7, <1>9, <1>10 DEF Base
<1>12. Core(Client!ProcessQueue(y), F, T) /\ Has(Client!ProcessQueue(y), i)
  BY <1>5, <1>11, CoreProcessed
<1> QED
  BY <1>1, <1>12

\* An entry is queued; if it owes an answer, its fetch was passed on to it.
LEMMA CoreFetched ==
    ASSUME NEW x, NEW F, NEW T, Core(x, F, T), NEW e \in EntryType,
           T = IF e.cb THEN {e.fetch} ELSE {}, e.cb => e.fetch <= F
    PROVE  LET y == Client!FetchEntry(x, e)
           IN  Core(y, F, {}) /\ \A i : Has(x, i) => Has(y, i)
<1> DEFINE w == Append(x.waiting, e)
           y == [x EXCEPT !.waiting = w]
<1>1. /\ x = [waiting |-> x.waiting, conns |-> x.conns, answers |-> x.answers]
      /\ x.waiting \in Seq(EntryType) /\ x.conns \in Seq(ConnType)
      /\ x.answers \in [Client!Fetches -> Seq(AnswerType)]
      /\ AtMost(x) /\ Owed(x.waiting, x.conns, x.answers, F, T)
      /\ \A j \in 1 .. Len(x.conns) : Reads(x.conns[j])
  BY DEF Core, Base, ClientType
<1>2. Client!FetchEntry(x, e) = Client!ProcessQueue(y)
  BY DEF Client!FetchEntry
<1>3. w \in Seq(EntryType)
  BY <1>1
<1>4. Owed(w, x.conns, x.answers, F, {})
  <2>1. CASE e.cb
    <3>1. T = {e.fetch} /\ e.fetch <= F
      BY <2>1
    <3>2. Owed(x.waiting, x.conns, x.answers, F, {e.fetch})
      BY <1>1, <3>1
    <3> QED
      BY <1>1, <2>1, <3>1, <3>2, OwedQueued
  <2>2. CASE ~e.cb
    <3>1. Owed(x.waiting, x.conns, x.answers, F, {})
      BY <1>1, <2>2
    <3> QED
      BY <1>1, <2>2, <3>1, OwedIdle
  <2> QED
    BY <2>1, <2>2
<1> HIDE DEF w
<1>5. y = [waiting |-> w, conns |-> x.conns, answers |-> x.answers]
  BY <1>1
<1> HIDE DEF y
<1>6. y.waiting = w /\ y.conns = x.conns /\ y.answers = x.answers
  BY <1>5
<1>7. ClientType(y)
  BY <1>1, <1>3, <1>5, <1>6 DEF ClientType
<1>8. Running(y) = Running(x)
  BY <1>6 DEF Running, Client!Active
<1>9. Base(y, F, {})
  BY <1>1, <1>4, <1>6, <1>7, <1>8 DEF Base, AtMost
<1>10. Core(Client!ProcessQueue(y), F, {})
       /\ \A i : Has(y, i) => Has(Client!ProcessQueue(y), i)
  BY <1>9, CoreProcessed
<1> QED
  BY <1>2, <1>6, <1>10 DEF Has

\* A connection that owed the answer gives the final callback up.
LEMMA CoreSpent ==
    ASSUME NEW x, NEW F, Core(x, F, {}), NEW i, Has(x, i), NEW d \in ConnType, Reads(d),
           d.fetch = x.conns[i].fetch, d.cb = FALSE, d.held = x.conns[i].held, NEW T,
           T = IF x.conns[i].cb THEN {x.conns[i].fetch} ELSE {}
    PROVE  /\ Core(With(x, i, d), F, T) /\ Has(With(x, i, d), i)
           /\ x.conns[i].cb => x.conns[i].fetch <= F
<1> DEFINE y == With(x, i, d)
           c == x.conns[i]
<1>1. /\ ClientType(x) /\ Filled(x) /\ Owed(x.waiting, x.conns, x.answers, F, {})
      /\ \A j \in 1 .. Len(x.conns) : Reads(x.conns[j])
      /\ x.waiting \in Seq(EntryType) /\ x.conns \in Seq(ConnType)
      /\ i \in 1 .. Len(x.conns)
  BY DEF Core, Base, ClientType, Has
<1>2. c \in ConnType /\ Reads(c)
  BY <1>1
<1>3. CASE ~c.cb
  <2>1. c.cb = FALSE
    BY <1>2, <1>3 DEF ConnType
  <2>2. Kept(c, d)
    BY <2>1 DEF Kept
  <2>3. T = {}
    BY <1>3
  <2> QED
    BY <1>3, <2>2, <2>3, CoreWith
<1>4. CASE c.cb
  <2>0. ClientType(x) /\ Has(x, i) /\ d \in ConnType
    BY <1>1
  <2>1. /\ ClientType(y) /\ y.waiting = x.waiting /\ y.answers = x.answers
        /\ Len(y.conns) = Len(x.conns) /\ Has(y, i) /\ y.conns[i] = d
        /\ \A j \in 1 .. Len(x.conns) : j # i => y.conns[j] = x.conns[j]
    BY ONLY <2>0, WithIs
  <2> HIDE DEF y
  <2>2. y.conns \in Seq(ConnType)
    BY <2>1 DEF ClientType
  <2>3. /\ \A j \in 1 .. Len(x.conns) : j # i => y.conns[j].fetch = x.conns[j].fetch
                                                 /\ y.conns[j].cb = x.conns[j].cb
        /\ y.conns[i].fetch = x.conns[i].fetch /\ y.conns[i].cb = FALSE /\ x.conns[i].cb
    BY <1>4, <2>1
  <2>4. Owed(x.waiting, y.conns, x.answers, F, {x.conns[i].fetch}) /\ x.conns[i].fetch <= F
    BY <1>1, <2>1, <2>2, <2>3, OwedSpent
  <2>5. T = {x.conns[i].fetch}
    BY <1>4
  <2>6. Owed(y.waiting, y.conns, y.answers, F, T)
    BY <2>1, <2>4, <2>5
  <2>7. \A j \in 1 .. Len(y.conns) : Reads(y.conns[j])
    BY <1>1, <2>1
  <2>8. Running(y) = Running(x)
    <3>1. DOMAIN x.conns = 1 .. Len(x.conns) /\ DOMAIN y.conns = 1 .. Len(y.conns)
      BY <1>1, <2>2
    <3>2. \A j \in 1 .. Len(x.conns) : y.conns[j].held = x.conns[j].held
      BY <2>1
    <3>3. Client!Active(y) = Client!Active(x)
      BY <2>1, <3>1, <3>2 DEF Client!Active
    <3> QED
      BY <3>3 DEF Running
  <2>9. Filled(y) /\ AtMost(y)
    BY <1>1, <2>1, <2>8 DEF Filled, AtMost
  <2>10. Core(y, F, T)
    BY <2>1, <2>6, <2>7, <2>9 DEF Core, Base
  <2> QED
    BY <2>1, <2>4, <2>10 DEF y
<1> QED
  BY <1>3, <1>4

\* The answer that was passed on arrives.
LEMMA CoreAnswered ==
    ASSUME NEW x, NEW F, NEW f \in Client!Fetches, Core(x, F, {f}), f <= F, NEW r \in AnswerType
    PROVE  Core(Client!Answer(x, f, r), F, {}) /\ \A i : Has(x, i) => Has(Client!Answer(x, f, r), i)
<1> DEFINE a == [x.answers EXCEPT ![f] = Append(x.answers[f], r)]
           y == Client!Answer(x, f, r)
<1>1. /\ x = [waiting |-> x.waiting, conns |-> x.conns, answers |-> x.answers]
      /\ x.waiting \in Seq(EntryType) /\ x.conns \in Seq(ConnType)
      /\ x.answers \in [Client!Fetches -> Seq(AnswerType)]
      /\ Filled(x) /\ AtMost(x) /\ Owed(x.waiting, x.conns, x.answers, F, {f})
      /\ \A j \in 1 .. Len(x.conns) : Reads(x.conns[j])
  BY DEF Core, Base, ClientType
<1>2. y = [x EXCEPT !.answers = a]
  BY DEF Client!Answer
<1>3. a \in [Client!Fetches -> Seq(AnswerType)] /\ Owed(x.waiting, x.conns, a, F, {})
  BY <1>1, OwedAnswered
<1> HIDE DEF a, y
<1>4. y = [waiting |-> x.waiting, conns |-> x.conns, answers |-> a]
  BY <1>1, <1>2
<1>5. y.waiting = x.waiting /\ y.conns = x.conns /\ y.answers = a
  BY <1>4
<1>6. ClientType(y)
  BY <1>1, <1>3, <1>4, <1>5 DEF ClientType
<1>7. Running(y) = Running(x)
  BY <1>5 DEF Running, Client!Active
<1>8. Core(y, F, {})
  BY <1>1, <1>3, <1>5, <1>6, <1>7 DEF Core, Base, Filled, AtMost
<1> QED
  BY <1>5, <1>8 DEF Has, y

\* The place first, then the answer, if it is still owed.
LEMMA CoreCallback ==
    ASSUME NEW x, NEW F, Core(x, F, {}), NEW i, Has(x, i), NEW result \in AnswerType
    PROVE  Core(Client!RunCallback(x, i, result), F, {}) /\ Has(Client!RunCallback(x, i, result), i)
<1> DEFINE y == Client!Release(x, i)
           c == y.conns[i]
           d == [c EXCEPT !.cb = FALSE]
           s == With(y, i, d)
<1>1. Client!RunCallback(x, i, result) =
          IF c.cb THEN Client!Answer(Client!Spent(y, i), c.fetch, result) ELSE y
  BY DEF Client!RunCallback
<1>2. Client!Spent(y, i) = s
  BY DEF Client!Spent, With
<1>3. Core(y, F, {}) /\ Has(y, i)
  BY CoreRelease
<1> HIDE DEF y
<1>4. c \in ConnType /\ Reads(c)
  BY <1>3 DEF Core, Base, ClientType, Has
<1>5. /\ d \in ConnType /\ d.cb = FALSE /\ d.fetch = c.fetch /\ d.held = c.held
      /\ d.dialing = c.dialing /\ d.reading = c.reading /\ d.queue = c.queue /\ d.due = c.due
      /\ d.resp = c.resp /\ d.sent = c.sent /\ d.got = c.got /\ d.used = c.used
      /\ d.body = c.body
  BY <1>4, SetCb
<1> HIDE DEF d
<1>6. Reads(d)
  BY <1>4, <1>5 DEF Reads, Sized
<1>7. c.fetch \in Client!Fetches
  BY <1>4 DEF ConnType
<1>8. CASE c.cb
  <2> DEFINE T == {c.fetch}
  <2>1. T = IF y.conns[i].cb THEN {y.conns[i].fetch} ELSE {}
    BY <1>8
  <2> HIDE DEF T
  <2>2. Core(s, F, T) /\ Has(s, i) /\ c.fetch <= F
    BY <1>3, <1>5, <1>6, <1>8, <2>1, CoreSpent
  <2> HIDE DEF s
  <2>3. Core(s, F, {c.fetch})
    BY <2>2 DEF T
  <2>4. Core(Client!Answer(s, c.fetch, result), F, {}) /\ Has(Client!Answer(s, c.fetch, result), i)
    BY <1>7, <2>2, <2>3, CoreAnswered
  <2> QED
    BY <1>1, <1>2, <1>8, <2>4
<1>9. CASE ~c.cb
  BY <1>1, <1>3, <1>9
<1> QED
  BY <1>8, <1>9

LEMMA CoreConn ==
    ASSUME NEW x, NEW F, NEW T, Core(x, F, T), NEW i, Has(x, i)
    PROVE  x.conns[i] \in ConnType /\ Reads(x.conns[i])
BY DEF Core, Base, ClientType, Has

LEMMA CoreClosed ==
    ASSUME NEW x, NEW F, Core(x, F, {}), NEW i, Has(x, i)
    PROVE  Core(Client!CloseConn(x, i), F, {}) /\ Has(Client!CloseConn(x, i), i)
<1> DEFINE d == Client!CloseStream(x.conns[i])
<1>1. Client!CloseConn(x, i) = With(x, i, d)
  BY DEF Client!CloseConn, With
<1>2. Kept(x.conns[i], d)
  BY CoreConn, CloseStreamKeeps
<1> QED
  BY <1>1, <1>2, CoreWith

LEMMA CoreFailed ==
    ASSUME NEW x, NEW F, Core(x, F, {}), NEW i, Has(x, i)
    PROVE  Core(Client!Fail(x, i), F, {}) /\ Has(Client!Fail(x, i), i)
<1> DEFINE y == Client!CloseConn(x, i)
           z == Client!RunCallback(y, i, "error")
<1>1. Client!Fail(x, i) = Client!CloseConn(z, i)
  BY DEF Client!Fail
<1>2. Core(y, F, {}) /\ Has(y, i)
  BY CoreClosed
<1>3. "error" \in AnswerType
  BY DEF AnswerType
<1> HIDE DEF y
<1>4. Core(z, F, {}) /\ Has(z, i)
  BY <1>2, <1>3, CoreCallback
<1> HIDE DEF z
<1> QED
  BY <1>1, <1>4, CoreClosed

\* The timer, on or off.
TimerSet(x, i, b) == [x EXCEPT !.conns[i].timer = b]
LEMMA CoreTimer ==
    ASSUME NEW x, NEW F, Core(x, F, {}), NEW i, Has(x, i), NEW b \in BOOLEAN
    PROVE  LET y == TimerSet(x, i, b)
               c == x.conns[i]
               d == y.conns[i]
           IN  /\ Core(y, F, {}) /\ Has(y, i) /\ y = With(x, i, d)
               /\ d \in ConnType /\ d.held = c.held /\ d.fetch = c.fetch /\ d.cb = c.cb
               /\ d.dialing = c.dialing /\ d.open = c.open /\ d.gone = c.gone
               /\ d.reading = c.reading /\ d.queue = c.queue
               /\ d.due = c.due /\ d.resp = c.resp /\ d.sent = c.sent /\ d.got = c.got
               /\ d.used = c.used /\ d.body = c.body
<1> DEFINE c == x.conns[i]
           d == [c EXCEPT !.timer = b]
           y == With(x, i, d)
<1>1. TimerSet(x, i, b) = y
  BY DEF TimerSet, With
<1>2. c \in ConnType /\ Reads(c)
  BY CoreConn
<1>3. /\ d \in ConnType /\ d.held = c.held /\ d.fetch = c.fetch /\ d.cb = c.cb
      /\ d.dialing = c.dialing /\ d.open = c.open /\ d.gone = c.gone
      /\ d.reading = c.reading /\ d.queue = c.queue
      /\ d.due = c.due /\ d.resp = c.resp /\ d.sent = c.sent /\ d.got = c.got
      /\ d.used = c.used /\ d.body = c.body
  BY <1>2, SetTimer
<1> HIDE DEF d
<1>4. Kept(c, d)
  BY <1>2, <1>3 DEF Kept, Reads, Sized
<1>5. Core(y, F, {}) /\ Has(y, i)
  BY <1>4, CoreWith
<1>6. y.conns[i] = d
  <2>1. ClientType(x)
    BY DEF Core, Base
  <2> QED
    BY <1>3, <2>1, WithIs
<1> HIDE DEF y
<1> QED
  BY <1>1, <1>3, <1>5, <1>6 DEF y

LEMMA CoreTimedOut ==
    ASSUME NEW x, NEW F, Core(x, F, {}), NEW i, Has(x, i)
    PROVE  Core(Client!OnTimeout(x, i), F, {}) /\ Has(Client!OnTimeout(x, i), i)
<1> DEFINE y == TimerSet(x, i, FALSE)
           z == Client!RunCallback(y, i, "timeout")
<1>1. Client!OnTimeout(x, i) = Client!CloseConn(z, i)
  BY DEF Client!OnTimeout, TimerSet
<1>2. Core(y, F, {}) /\ Has(y, i)
  BY CoreTimer
<1>3. "timeout" \in AnswerType
  BY DEF AnswerType
<1> HIDE DEF y
<1>4. Core(z, F, {}) /\ Has(z, i)
  BY <1>2, <1>3, CoreCallback
<1> HIDE DEF z
<1> QED
  BY <1>1, <1>4, CoreClosed

-----------------------------------------------------------------------------
(* The callbacks of a stream.                                              *)

LEMMA CoreReads ==
    ASSUME NEW x, NEW F, Core(x, F, {}), NEW i, Has(x, i), Quiet(x.conns[i]), NEW what \in ReadKinds,
           AskedFor(what, x.conns[i].resp.framing, x.conns[i].used, x.conns[i].body)
    PROVE  /\ Core(Client!ReadOrFail(x, i, what), F, {}) /\ Has(Client!ReadOrFail(x, i, what), i)
           /\ Core(With(x, i, Client!StartRead(x.conns[i], what)), F, {})
           /\ Has(With(x, i, Client!StartRead(x.conns[i], what)), i)
<1> DEFINE d == Client!StartRead(x.conns[i], what)
<1>1. Client!ReadOrFail(x, i, what) =
          IF Client!ReadRaises(x.conns[i]) THEN Client!Fail(x, i) ELSE With(x, i, d)
  BY DEF Client!ReadOrFail, With
<1>2. Kept(x.conns[i], d)
  BY CoreConn, StartReadKeeps
<1> HIDE DEF d
<1>3. Core(With(x, i, d), F, {}) /\ Has(With(x, i, d), i)
  BY <1>2, CoreWith
<1>4. Core(Client!Fail(x, i), F, {}) /\ Has(Client!Fail(x, i), i)
  BY CoreFailed
<1> QED
  BY <1>1, <1>3, <1>4 DEF d

LEMMA CoreConnected ==
    ASSUME NEW x, NEW F, Core(x, F, {}), NEW i, Has(x, i), Quiet(x.conns[i]), x.conns[i].used = 0
    PROVE  Core(Client!OnConnect(x, i), F, {}) /\ Has(Client!OnConnect(x, i), i)
<1> DEFINE on == TRUE
           y == TimerSet(x, i, on)
           c == y.conns[i]
           what == "headers"
           d == Client!StartRead(c, what)
<1>1. Client!OnConnect(x, i) =
          IF ~c.open \/ Client!ReadRaises(c) THEN Client!Fail(y, i) ELSE With(y, i, d)
  BY DEF Client!OnConnect, Client!Rearm, TimerSet, With
<1>2. /\ Core(y, F, {}) /\ Has(y, i)
      /\ c.dialing = x.conns[i].dialing /\ c.reading = x.conns[i].reading
      /\ c.queue = x.conns[i].queue /\ c.used = x.conns[i].used
  <2>1. on \in BOOLEAN
    OBVIOUS
  <2> HIDE DEF on
  <2> QED
    BY <2>1, CoreTimer
<1> HIDE DEF y
<1>3. Quiet(c) /\ c.used = 0
  BY <1>2 DEF Quiet
<1>4. what \in ReadKinds /\ AskedFor(what, c.resp.framing, c.used, c.body)
  BY <1>3 DEF ReadKinds, AskedFor
<1> HIDE DEF what
<1>5. Core(With(y, i, d), F, {}) /\ Has(With(y, i, d), i)
  BY <1>2, <1>3, <1>4, CoreReads
<1>6. Core(Client!Fail(y, i), F, {}) /\ Has(Client!Fail(y, i), i)
  BY <1>2, CoreFailed
<1> HIDE DEF d
<1> QED
  BY <1>1, <1>5, <1>6

\* The body is there: the answer, or the next hop.
LEMMA CoreBody ==
    ASSUME NEW x, NEW F, Core(x, F, {}), NEW i, Has(x, i), Client!Result(x.conns[i]) # "part"
    PROVE  Core(Client!OnBody(x, i), F, {}) /\ Has(Client!OnBody(x, i), i)
<1> DEFINE c == x.conns[i]
           off == FALSE
           y == TimerSet(x, i, off)
           b == y.conns[i]
           d == [b EXCEPT !.cb = FALSE]
           s == With(y, i, d)
           moved == Client!Release(s, i)
           e == Client!Entry(c.fetch, c.hop + 1, c.resp.kind = "nowhere", c.cb)
           queued == Client!FetchEntry(moved, e)
           answered == Client!RunCallback(y, i, Client!Result(c))
<1>1. Client!OnBody(x, i) =
          IF Client!Redirects(c) THEN Client!CloseConn(queued, i) ELSE Client!CloseConn(answered, i)
  BY DEF Client!OnBody, TimerSet, With
<1>2. /\ Core(y, F, {}) /\ Has(y, i)
      /\ b \in ConnType /\ b.held = c.held /\ b.fetch = c.fetch /\ b.cb = c.cb
  <2>1. off \in BOOLEAN
    OBVIOUS
  <2> HIDE DEF off
  <2> QED
    BY <2>1, CoreTimer
<1>3. c \in ConnType /\ c.fetch \in Client!Fetches /\ c.hop \in Nat /\ c.cb \in BOOLEAN
  <2>1. c \in ConnType
    BY CoreConn
  <2> QED
    BY <2>1 DEF ConnType
<1> HIDE DEF y
<1>4. Client!Result(c) \in AnswerType
  BY DEF Client!Result, AnswerType
<1>5. Core(answered, F, {}) /\ Has(answered, i)
  BY <1>2, <1>4, CoreCallback
<1> HIDE DEF answered
<1>6. Core(Client!CloseConn(answered, i), F, {}) /\ Has(Client!CloseConn(answered, i), i)
  BY <1>5, CoreClosed
<1>7. /\ d \in ConnType /\ d.cb = FALSE /\ d.fetch = b.fetch /\ d.held = b.held
      /\ d.dialing = b.dialing /\ d.reading = b.reading /\ d.queue = b.queue /\ d.due = b.due
      /\ d.resp = b.resp /\ d.sent = b.sent /\ d.got = b.got /\ d.used = b.used
      /\ d.body = b.body
  BY <1>2, SetCb
<1> HIDE DEF d
<1>8. Reads(d)
  <2>1. Reads(b)
    BY <1>2, CoreConn
  <2> QED
    BY <1>7, <2>1 DEF Reads, Sized
<1> DEFINE T == IF c.cb THEN {c.fetch} ELSE {}
<1>9. T = IF y.conns[i].cb THEN {y.conns[i].fetch} ELSE {}
  BY <1>2
<1> HIDE DEF T
<1>10. Core(s, F, T) /\ Has(s, i) /\ (c.cb => c.fetch <= F)
  BY <1>2, <1>7, <1>8, <1>9, CoreSpent
<1> HIDE DEF s
<1>11. Core(moved, F, T) /\ Has(moved, i)
  BY <1>10, CoreRelease
<1> HIDE DEF moved
<1>12. e \in EntryType /\ e.fetch = c.fetch /\ e.cb = c.cb
  <2> DEFINE bad == c.resp.kind = "nowhere"
             hop == c.hop + 1
  <2>1. bad \in BOOLEAN /\ hop \in Nat
    BY <1>3
  <2>2. e = [fetch |-> c.fetch, hop |-> hop, bad |-> bad, cb |-> c.cb]
    BY DEF Client!Entry
  <2> HIDE DEF bad, hop, e
  <2> QED
    BY <1>3, <2>1, <2>2 DEF EntryType
<1> HIDE DEF e
<1>13. T = IF e.cb THEN {e.fetch} ELSE {}
  BY <1>12 DEF T
<1>14. Core(queued, F, {}) /\ Has(queued, i)
  <2>1. e.cb => e.fetch <= F
    BY <1>10, <1>12
  <2> QED
    BY <1>11, <1>12, <1>13, <2>1, CoreFetched
<1> HIDE DEF queued
<1>15. Core(Client!CloseConn(queued, i), F, {}) /\ Has(Client!CloseConn(queued, i), i)
  BY <1>14, CoreClosed
<1> QED
  BY <1>1, <1>6, <1>15

LEMMA CoreHeaders ==
    ASSUME NEW x, NEW F, Core(x, F, {}), NEW i, Has(x, i), Quiet(x.conns[i]),
           x.conns[i].used = 1, x.conns[i].body = 0
    PROVE  Core(Client!OnHeaders(x, i), F, {}) /\ Has(Client!OnHeaders(x, i), i)
<1> DEFINE c == x.conns[i]
           framing == c.resp.framing
           d == Client!ReadUntilClose(c)
<1>1. c \in ConnType /\ Reads(c) /\ c.used = 1 /\ c.body = 0
  BY CoreConn
<1>2. framing \in {"none", "length", "chunked", "close"}
  <2>1. c.resp \in ResponseKinds
    BY <1>1 DEF ConnType
  <2> QED
    BY <2>1 DEF ResponseKinds
<1>3. Core(Client!Fail(x, i), F, {}) /\ Has(Client!Fail(x, i), i)
  BY CoreFailed
<1>4. ASSUME framing = "none"
      PROVE  Core(Client!OnBody(x, i), F, {}) /\ Has(Client!OnBody(x, i), i)
  <2>1. Client!Result(c) # "part"
    BY <1>4 DEF Client!Result
  <2> QED
    BY <2>1, CoreBody
<1>5. ASSUME framing = "length"
      PROVE  Core(Client!ReadOrFail(x, i, "data"), F, {}) /\ Has(Client!ReadOrFail(x, i, "data"), i)
  <2>1. "data" \in ReadKinds /\ AskedFor("data", c.resp.framing, c.used, c.body)
    BY <1>1, <1>5 DEF ReadKinds, AskedFor
  <2> QED
    BY <2>1, CoreReads
<1>6. ASSUME framing = "chunked"
      PROVE  Core(Client!ReadOrFail(x, i, "line"), F, {}) /\ Has(Client!ReadOrFail(x, i, "line"), i)
  <2>1. "line" \in ReadKinds /\ AskedFor("line", c.resp.framing, c.used, c.body)
    BY <1>1, <1>6 DEF ReadKinds, AskedFor
  <2> QED
    BY <2>1, CoreReads
<1>7. ASSUME framing = "close"
      PROVE  Core(With(x, i, d), F, {}) /\ Has(With(x, i, d), i)
  <2>1. c.resp.framing = "close" /\ c.used >= 1
    BY <1>1, <1>7
  <2>2. Kept(c, d)
    BY <1>1, <2>1, ReadUntilCloseKeeps
  <2> QED
    BY <2>2, CoreWith
<1>8. CASE c.resp.kind = "malformed"
  <2>1. Client!OnHeaders(x, i) = Client!Fail(x, i)
    BY <1>8 DEF Client!OnHeaders
  <2> QED
    BY <1>3, <2>1
<1>9. CASE c.resp.kind # "malformed"
  <2>1. CASE framing = "none"
    <3>1. Client!OnHeaders(x, i) = Client!OnBody(x, i)
      BY <1>9, <2>1 DEF Client!OnHeaders
    <3> QED
      BY <1>4, <2>1, <3>1
  <2>2. CASE framing = "length"
    <3>1. Client!OnHeaders(x, i) = Client!ReadOrFail(x, i, "data")
      BY <1>9, <2>2 DEF Client!OnHeaders
    <3> QED
      BY <1>5, <2>2, <3>1
  <2>3. CASE framing = "chunked"
    <3>1. Client!OnHeaders(x, i) = Client!ReadOrFail(x, i, "line")
      BY <1>9, <2>3 DEF Client!OnHeaders
    <3> QED
      BY <1>6, <2>3, <3>1
  <2>4. CASE framing = "close"
    <3>1. Client!OnHeaders(x, i) = With(x, i, d)
      BY <1>9, <2>4 DEF Client!OnHeaders, With
    <3> QED
      BY <1>7, <2>4, <3>1
  <2> QED
    BY <1>2, <2>1, <2>2, <2>3, <2>4
<1> QED
  BY <1>8, <1>9

LEMMA CoreLine ==
    ASSUME NEW x, NEW F, Core(x, F, {}), NEW i, Has(x, i), Quiet(x.conns[i]),
           OfRead("line", x.conns[i].resp.framing, x.conns[i].used, x.conns[i].body)
    PROVE  Core(Client!OnChunkLength(x, i), F, {}) /\ Has(Client!OnChunkLength(x, i), i)
<1> DEFINE c == x.conns[i]
<1>1. c.resp.framing = "chunked" /\ ((c.used = 2 /\ c.body = 0) \/ (c.used = 4 /\ c.body = 1))
  BY DEF OfRead
<1>2. Client!NoMoreChunks(c) <=> c.used = 4
  <2>1. Client!Pieces(c.resp) = <<"headers", "line", "chunk", "line">>
    BY <1>1 DEF Client!Pieces
  <2>2. Len(Client!Pieces(c.resp)) = 4
    BY <2>1
  <2> QED
    BY <2>2 DEF Client!NoMoreChunks
<1>3. CASE c.used = 4
  <2>1. c.body = 1
    BY <1>1, <1>3
  <2>2. Client!Result(c) # "part"
    BY <2>1 DEF Client!Result
  <2>3. Core(Client!OnBody(x, i), F, {}) /\ Has(Client!OnBody(x, i), i)
    BY <2>2, CoreBody
  <2> QED
    BY <1>2, <1>3, <2>3 DEF Client!OnChunkLength
<1>4. CASE c.used # 4
  <2>1. c.used = 2 /\ c.body = 0
    BY <1>1, <1>4
  <2>2. "chunk" \in ReadKinds /\ AskedFor("chunk", c.resp.framing, c.used, c.body)
    BY <1>1, <2>1 DEF ReadKinds, AskedFor
  <2>3. /\ Core(Client!ReadOrFail(x, i, "chunk"), F, {})
        /\ Has(Client!ReadOrFail(x, i, "chunk"), i)
    BY <2>2, CoreReads
  <2> QED
    BY <1>2, <1>4, <2>3 DEF Client!OnChunkLength
<1> QED
  BY <1>3, <1>4

\* A part of the body is passed on.
LEMMA CoreData ==
    ASSUME NEW x, NEW F, Core(x, F, {}), NEW i, Has(x, i), Quiet(x.conns[i]),
           x.conns[i].body = 0, x.conns[i].used >= 1
    PROVE  LET y == Client!OnData(x, i)
               c == x.conns[i]
               d == y.conns[i]
           IN  /\ Core(y, F, {}) /\ Has(y, i) /\ Quiet(d)
               /\ d.body = 1 /\ d.used = c.used /\ d.resp = c.resp
<1> DEFINE c == x.conns[i]
           n == c.body + 1
           d == [c EXCEPT !.body = n]
           y == With(x, i, d)
<1>1. Client!OnData(x, i) = y
  BY DEF Client!OnData, With
<1>2. c \in ConnType /\ Reads(c) /\ ClientType(x) /\ c.body = 0 /\ c.used >= 1
  BY CoreConn DEF Core, Base
<1>3. n = 1 /\ n \in Nat /\ c.used # 0
  <2>1. c.used \in Nat
    BY <1>2 DEF ConnType
  <2> QED
    BY <1>2, <2>1
<1> HIDE DEF n
<1>4. /\ d \in ConnType /\ d.body = n /\ d.held = c.held /\ d.fetch = c.fetch /\ d.cb = c.cb
      /\ d.dialing = c.dialing /\ d.reading = c.reading /\ d.queue = c.queue
      /\ d.due = c.due /\ d.resp = c.resp /\ d.sent = c.sent /\ d.got = c.got
      /\ d.used = c.used
  BY <1>2, <1>3, SetBody
<1> HIDE DEF d
<1>5. Quiet(d)
  BY <1>4 DEF Quiet
<1>6. Sized(d)
  BY <1>2, <1>3, <1>4 DEF Reads, Sized
<1>7. Reads(d)
  BY <1>4, <1>5, <1>6, QuietReads
<1>8. Kept(c, d)
  BY <1>4, <1>7 DEF Kept
<1>9. Core(y, F, {}) /\ Has(y, i)
  BY <1>8, CoreWith
<1>10. y.conns[i] = d
  BY <1>2, <1>4, WithIs
<1> HIDE DEF y
<1> QED
  BY <1>1, <1>3, <1>4, <1>5, <1>9, <1>10

\* A callback of a stream finds the stream as the read of it left it.
LEMMA CoreRun ==
    ASSUME NEW x, NEW F, Core(x, F, {}), NEW i, Has(x, i), NEW kind \in CallbackKinds,
           kind = "closed" \/ Quiet(x.conns[i]),
           OfRead(kind, x.conns[i].resp.framing, x.conns[i].used, x.conns[i].body)
    PROVE  Core(Client!Run(x, i, kind), F, {}) /\ Has(Client!Run(x, i, kind), i)
<1> DEFINE c == x.conns[i]
<1>1. CASE kind = "connect"
  <2>1. Quiet(c) /\ c.used = 0
    BY <1>1 DEF OfRead
  <2>2. Core(Client!OnConnect(x, i), F, {}) /\ Has(Client!OnConnect(x, i), i)
    BY <2>1, CoreConnected
  <2> QED
    BY <1>1, <2>2 DEF Client!Run
<1>2. CASE kind = "headers"
  <2>1. Quiet(c) /\ c.used = 1 /\ c.body = 0
    BY <1>2 DEF OfRead
  <2>2. Core(Client!OnHeaders(x, i), F, {}) /\ Has(Client!OnHeaders(x, i), i)
    BY <2>1, CoreHeaders
  <2> QED
    BY <1>2, <2>2 DEF Client!Run
<1>3. CASE kind = "line"
  <2>1. Quiet(c) /\ OfRead("line", c.resp.framing, c.used, c.body)
    BY <1>3
  <2>2. Core(Client!OnChunkLength(x, i), F, {}) /\ Has(Client!OnChunkLength(x, i), i)
    BY <2>1, CoreLine
  <2> QED
    BY <1>3, <2>2 DEF Client!Run
<1>4. CASE kind = "chunk"
  <2> DEFINE y == Client!OnData(x, i)
             d == y.conns[i]
  <2>1. Quiet(c) /\ c.resp.framing = "chunked" /\ c.used = 3 /\ c.body = 0
    BY <1>4 DEF OfRead
  <2>2. c.used >= 1
    BY <2>1
  <2>3. /\ Core(y, F, {}) /\ Has(y, i) /\ Quiet(d)
        /\ d.body = 1 /\ d.used = c.used /\ d.resp = c.resp
    BY <2>1, <2>2, CoreData
  <2> HIDE DEF y
  <2>4. "line" \in ReadKinds /\ AskedFor("line", d.resp.framing, d.used, d.body)
    BY <2>1, <2>3 DEF ReadKinds, AskedFor
  <2>5. Core(Client!ReadOrFail(y, i, "line"), F, {}) /\ Has(Client!ReadOrFail(y, i, "line"), i)
    BY <2>3, <2>4, CoreReads
  <2> QED
    BY <1>4, <2>5 DEF Client!Run, y
<1>5. CASE kind = "data"
  <2> DEFINE y == Client!OnData(x, i)
             d == y.conns[i]
  <2>1. Quiet(c) /\ c.used = 2 /\ c.body = 0
    BY <1>5 DEF OfRead
  <2>2. c.used >= 1
    BY <2>1
  <2>3. /\ Core(y, F, {}) /\ Has(y, i) /\ d.body = 1
    BY <2>1, <2>2, CoreData
  <2> HIDE DEF y
  <2>4. Client!Result(d) # "part"
    BY <2>3 DEF Client!Result
  <2>5. Core(Client!OnBody(y, i), F, {}) /\ Has(Client!OnBody(y, i), i)
    BY <2>3, <2>4, CoreBody
  <2> QED
    BY <1>5, <2>5 DEF Client!Run, y
<1>6. CASE kind = "body"
  <2>1. c.resp.framing = "close"
    BY <1>6 DEF OfRead
  <2>2. Client!Result(c) # "part"
    BY <2>1 DEF Client!Result
  <2>3. Core(Client!OnBody(x, i), F, {}) /\ Has(Client!OnBody(x, i), i)
    BY <2>2, CoreBody
  <2> QED
    BY <1>6, <2>3 DEF Client!Run
<1>7. CASE kind = "closed"
  <2>1. "closed" \in AnswerType
    BY DEF AnswerType
  <2>2. Core(Client!RunCallback(x, i, "closed"), F, {}) /\ Has(Client!RunCallback(x, i, "closed"), i)
    BY <2>1, CoreCallback
  <2> QED
    BY <1>7, <2>2 DEF Client!Run, Client!OnClose
<1> QED
  BY <1>1, <1>2, <1>3, <1>4, <1>5, <1>6, <1>7 DEF CallbackKinds

-----------------------------------------------------------------------------
(* The steps of the client.                                                *)

ClientInv == Core(cl, fetched, {}) /\ fetched \in Nat

LEMMA ClientBegins == Client!Init => ClientInv
<1> SUFFICES ASSUME Client!Init PROVE ClientInv
  OBVIOUS
<1> DEFINE x == cl
           F == fetched
<1>1. x = [waiting |-> <<>>, conns |-> <<>>, answers |-> [f \in Client!Fetches |-> <<>>]] /\ F = 0
  BY DEF Client!Init
<1> HIDE DEF x, F
<1>2. x.waiting = <<>> /\ x.conns = <<>> /\ \A f \in Client!Fetches : x.answers[f] = <<>>
  BY <1>1
<1>3. /\ x.waiting \in Seq(EntryType) /\ x.conns \in Seq(ConnType)
      /\ x.answers \in [Client!Fetches -> Seq(AnswerType)]
      /\ x = [waiting |-> x.waiting, conns |-> x.conns, answers |-> x.answers]
  BY <1>1
<1>4. ClientType(x)
  BY <1>3 DEF ClientType
<1>5. \A k : k \notin 1 .. Len(x.waiting) /\ k \notin 1 .. Len(x.conns) /\ k \notin DOMAIN x.conns
  <2>1. Len(x.waiting) = 0 /\ Len(x.conns) = 0 /\ DOMAIN x.conns = {}
    BY <1>2
  <2> QED
    BY <2>1
<1>6. Client!Active(x) = {}
  BY <1>5 DEF Client!Active
<1>7. Running(x) = 0
  BY <1>6, FS_EmptySet DEF Running
<1>8. AtMost(x) /\ Filled(x)
  BY <1>2, <1>7, InputsAssumption DEF AtMost, Filled
<1>9. \A f \in Client!Fetches : ~(f <= F)
  BY <1>1, InputsAssumption DEF Client!Fetches
<1>10. Owed(x.waiting, x.conns, x.answers, F, {})
  BY <1>2, <1>5, <1>9 DEF Owed, Unanswered
<1>11. \A j \in 1 .. Len(x.conns) : Reads(x.conns[j])
  BY <1>5
<1>12. Core(x, F, {}) /\ F \in Nat
  BY <1>1, <1>4, <1>8, <1>10, <1>11 DEF Core, Base
<1> QED
  BY <1>12 DEF ClientInv, x, F

LEMMA FetchKeeps ==
    ASSUME ClientInv, NEW bad \in BOOLEAN, Client!Fetch(bad)
    PROVE  ClientInv'
<1> DEFINE F == fetched
           G == F + 1
           T == {G}
           yes == TRUE
           e == Client!Entry(G, 0, bad, yes)
<1>1. /\ Core(cl, F, {}) /\ F \in Nat /\ F < MaxFetches
      /\ fetched' = G /\ cl' = Client!FetchEntry(cl, e)
  BY DEF ClientInv, Client!Fetch
<1> HIDE DEF F
<1>2. G \in Nat /\ G \in Client!Fetches
  BY <1>1, InputsAssumption DEF Client!Fetches
<1>3. yes \in BOOLEAN /\ yes
  OBVIOUS
<1> HIDE DEF yes
<1>4. e \in EntryType /\ e.fetch = G /\ e.cb = yes
  BY <1>2, <1>3 DEF Client!Entry, EntryType
<1>5. Core(cl, G, T)
  <2>1. /\ ClientType(cl) /\ Owed(cl.waiting, cl.conns, cl.answers, F, {})
        /\ cl.waiting \in Seq(EntryType) /\ cl.conns \in Seq(ConnType)
    BY <1>1 DEF Core, Base, ClientType
  <2>2. Owed(cl.waiting, cl.conns, cl.answers, G, T)
    BY <1>1, <2>1, OwedMore
  <2> QED
    BY <1>1, <2>2 DEF Core, Base
<1> HIDE DEF e
<1>6. T = (IF e.cb THEN {e.fetch} ELSE {}) /\ (e.cb => e.fetch <= G)
  BY <1>2, <1>3, <1>4
<1> HIDE DEF G, T
<1>7. Core(Client!FetchEntry(cl, e), G, {})
  BY <1>4, <1>5, <1>6, CoreFetched
<1>8. Core(cl', fetched', {}) /\ fetched' \in Nat
  BY <1>1, <1>2, <1>7
<1> QED
  BY <1>8 DEF ClientInv

LEMMA IterateKeeps ==
    ASSUME ClientInv, Client!Iterate
    PROVE  ClientInv'
<1> DEFINE x == cl
           y == cl'
           D(i) == [x.conns[i] EXCEPT !.due = Len(x.conns[i].queue)]
           c == [i \in DOMAIN x.conns |-> D(i)]
<1>1. /\ Core(cl, fetched, {}) /\ fetched \in Nat /\ fetched' = fetched
      /\ y = [x EXCEPT !.conns = c]
  BY DEF ClientInv, Client!Iterate, Client!Conns, Client!Conn
<1>2. /\ x = [waiting |-> x.waiting, conns |-> x.conns, answers |-> x.answers]
      /\ x.waiting \in Seq(EntryType) /\ x.conns \in Seq(ConnType)
      /\ x.answers \in [Client!Fetches -> Seq(AnswerType)]
      /\ Filled(x) /\ AtMost(x) /\ Owed(x.waiting, x.conns, x.answers, fetched, {})
      /\ \A j \in 1 .. Len(x.conns) : Reads(x.conns[j])
  BY <1>1 DEF Core, Base, ClientType
<1> HIDE DEF x, y
<1>3. ASSUME NEW i \in 1 .. Len(x.conns)
      PROVE  /\ Kept(x.conns[i], D(i)) /\ D(i) \in ConnType
  <2> DEFINE b == x.conns[i]
             n == Len(b.queue)
             d == [b EXCEPT !.due = n]
  <2>1. b \in ConnType /\ Reads(b)
    BY <1>2
  <2>2. n \in Nat
    BY <2>1 DEF ConnType
  <2> HIDE DEF n, b
  <2>3. /\ d \in ConnType /\ d.due = n /\ d.held = b.held /\ d.fetch = b.fetch /\ d.cb = b.cb
        /\ d.dialing = b.dialing /\ d.reading = b.reading /\ d.queue = b.queue
        /\ d.resp = b.resp /\ d.sent = b.sent /\ d.got = b.got
        /\ d.used = b.used /\ d.body = b.body
    BY <2>1, <2>2, SetDue
  <2> HIDE DEF d
  <2>4. d.due <= Len(d.queue)
    BY <2>2, <2>3 DEF n
  <2>5. Reads(d)
    BY <2>1, <2>3, <2>4 DEF Reads, Sized
  <2>6. Kept(b, d) /\ d \in ConnType
    BY <2>3, <2>5 DEF Kept
  <2> QED
    BY <2>6 DEF d, b, n
<1>4. DOMAIN x.conns = 1 .. Len(x.conns) /\ Len(x.conns) \in Nat
  BY <1>2
<1>5. /\ c \in Seq(ConnType) /\ Len(c) = Len(x.conns)
      /\ \A i \in 1 .. Len(x.conns) : c[i] = D(i)
  <2> DEFINE n == Len(x.conns)
  <2>1. c = [i \in 1 .. n |-> D(i)] /\ n \in Nat
    BY <1>4
  <2>2. \A i \in 1 .. n : D(i) \in ConnType
    BY <1>3
  <2> HIDE DEF n, D, c
  <2>3. c \in [1 .. n -> ConnType]
    BY <2>1, <2>2
  <2>4. c \in Seq(ConnType) /\ Len(c) = n
    BY <2>1, <2>3
  <2> QED
    BY <2>1, <2>4 DEF n
<1> HIDE DEF c, D
<1>6. y = [waiting |-> x.waiting, conns |-> c, answers |-> x.answers]
  BY <1>1, <1>2
<1>7. y.waiting = x.waiting /\ y.conns = c /\ y.answers = x.answers
  BY <1>6
<1>8. ClientType(y)
  BY <1>2, <1>5, <1>6, <1>7 DEF ClientType
<1>9. \A j \in 1 .. Len(x.conns) :
         /\ c[j].fetch = x.conns[j].fetch /\ c[j].cb = x.conns[j].cb
         /\ c[j].held = x.conns[j].held /\ Reads(c[j])
  BY <1>3, <1>5 DEF Kept
<1>10. Owed(x.waiting, c, x.answers, fetched, {})
  BY <1>2, <1>5, <1>9, OwedSame
<1>11. Running(y) = Running(x)
  <2>1. DOMAIN c = 1 .. Len(x.conns)
    BY <1>5
  <2>2. Client!Active(y) = Client!Active(x)
    BY <1>4, <1>7, <1>9, <2>1 DEF Client!Active
  <2> QED
    BY <2>2 DEF Running
<1>12. Core(y, fetched, {})
  BY <1>2, <1>5, <1>7, <1>8, <1>9, <1>10, <1>11 DEF Core, Base, Filled, AtMost
<1> QED
  BY <1>1, <1>12 DEF ClientInv, y

\* A step of one stream by itself.
LEMMA StepKeeps ==
    ASSUME ClientInv, NEW i, Has(cl, i), NEW d, Kept(cl.conns[i], d),
           fetched' = fetched, cl' = With(cl, i, Client!Collected(d))
    PROVE  ClientInv'
<1>1. Core(cl, fetched, {}) /\ fetched \in Nat
  BY DEF ClientInv
<1>2. d \in ConnType /\ Reads(d)
  BY DEF Kept
<1>3. Kept(d, Client!Collected(d))
  BY <1>2, CollectedKeeps
<1>4. Kept(cl.conns[i], Client!Collected(d))
  BY <1>3, KeptMore
<1>5. Core(With(cl, i, Client!Collected(d)), fetched, {})
  BY <1>1, <1>4, CoreWith
<1> QED
  BY <1>1, <1>5 DEF ClientInv

\* The same after something else.
LEMMA StepEnds ==
    ASSUME NEW x, NEW F, Core(x, F, {}), NEW i, Has(x, i)
    PROVE  /\ Core(With(x, i, Client!Collected(x.conns[i])), F, {})
           /\ Core(With(x, i, Client!Collected(Client!MaybeRunClose(x.conns[i]))), F, {})
<1> DEFINE c == x.conns[i]
           d == Client!MaybeRunClose(c)
<1>1. c \in ConnType /\ Reads(c)
  BY CoreConn
<1>2. Kept(c, d) /\ Kept(c, Client!Collected(c))
  BY <1>1, MaybeRunCloseKeeps, CollectedKeeps
<1> HIDE DEF d
<1>3. d \in ConnType /\ Reads(d)
  BY <1>2 DEF Kept
<1>4. Kept(d, Client!Collected(d))
  BY <1>3, CollectedKeeps
<1>5. Kept(c, Client!Collected(d))
  BY <1>2, <1>4, KeptMore
<1>6. Core(With(x, i, Client!Collected(d)), F, {}) /\ Core(With(x, i, Client!Collected(c)), F, {})
  BY <1>2, <1>5, CoreWith
<1> QED
  BY <1>6 DEF d

\* The first callback of a queue is taken off it.
LEMMA TakenOff ==
    ASSUME NEW c \in ConnType, Reads(c), c.due > 0
    PROVE  LET kind == Head(c.queue)
               d == [c EXCEPT !.queue = Tail(c.queue), !.due = c.due - 1]
           IN  /\ Kept(c, d) /\ kind \in CallbackKinds
               /\ kind = "closed" \/ Quiet(d)
               /\ OfRead(kind, d.resp.framing, d.used, d.body)
<1> DEFINE q == c.queue
           t == Tail(q)
           n == c.due - 1
           kind == Head(q)
           d == [c EXCEPT !.queue = t, !.due = n]
<1>1. /\ q \in Seq(CallbackKinds) /\ c.due \in Nat /\ c.due <= Len(q) /\ Len(q) \in Nat
      /\ Sized(c)
  BY DEF ConnType, Reads, Sized
<1> HIDE DEF q
<1>2. Len(q) >= 1 /\ n \in Nat /\ n <= Len(q) - 1
  BY <1>1
<1>3. q # <<>>
  <2>1. Len(<<>>) = 0
    OBVIOUS
  <2>2. Len(q) # 0
    BY <1>1, <1>2
  <2> QED
    BY ONLY <2>1, <2>2, Zenon
<1>4. /\ kind \in CallbackKinds /\ t \in Seq(CallbackKinds) /\ Len(t) = Len(q) - 1
      /\ \A k \in 1 .. Len(t) : t[k] = q[k + 1]
  BY <1>1, <1>3, HeadTailProperties
<1>5. kind = q[1] /\ 1 \in 1 .. Len(q)
  BY <1>1, <1>2, <1>3
<1> HIDE DEF t, n, kind
<1>6. /\ d \in ConnType /\ d.queue = t /\ d.due = n /\ d.fetch = c.fetch
      /\ d.cb = c.cb /\ d.held = c.held
      /\ d.dialing = c.dialing /\ d.reading = c.reading /\ d.resp = c.resp /\ d.sent = c.sent
      /\ d.got = c.got /\ d.used = c.used /\ d.body = c.body
  BY <1>2, <1>4 DEF ConnType
<1> HIDE DEF d
<1>7. \A k \in 1 .. Len(t) : k + 1 \in 1 .. Len(q) /\ k + 1 # 1 /\ k \in Int /\ t[k] = q[k + 1]
  BY <1>1, <1>4
<1>8. /\ OneQueued(q) /\ (NoneQueued(q) \/ c.reading = "none")
      /\ \A k \in 1 .. Len(q) : OfRead(q[k], c.resp.framing, c.used, c.body)
      /\ AskedFor(c.reading, c.resp.framing, c.used, c.body)
      /\ c.dialing => c.sent = 0 /\ c.reading = "none" /\ NoneQueued(q)
  BY DEF Reads, q
<1>9. NoneQueued(q) => NoneQueued(t)
  BY <1>7 DEF NoneQueued
<1>10. OneQueued(t)
  <2> SUFFICES ASSUME NEW k \in 1 .. Len(t), NEW l \in 1 .. Len(t), t[k] # "closed", t[l] # "closed"
               PROVE  k = l
    BY DEF OneQueued
  <2>1. /\ k + 1 \in 1 .. Len(q) /\ l + 1 \in 1 .. Len(q) /\ k \in Int /\ l \in Int
        /\ q[k + 1] # "closed" /\ q[l + 1] # "closed"
    BY <1>7
  <2>2. k + 1 = l + 1
    BY <1>8, <2>1 DEF OneQueued
  <2> QED
    BY <2>1, <2>2
<1>11. \A k \in 1 .. Len(t) : OfRead(t[k], c.resp.framing, c.used, c.body)
  BY <1>7, <1>8
<1>12. Sized(d)
  BY <1>1, <1>2, <1>4, <1>6 DEF Sized
<1>13. Reads(d)
  BY <1>6, <1>8, <1>9, <1>10, <1>11, <1>12 DEF Reads
<1>14. Kept(c, d)
  BY <1>6, <1>13 DEF Kept
<1>15. OfRead(kind, d.resp.framing, d.used, d.body)
  BY <1>5, <1>6, <1>8
<1>16. ASSUME kind # "closed" PROVE Quiet(d)
  <2>1. ~NoneQueued(q)
    BY <1>5, <1>16 DEF NoneQueued
  <2>2. NoneQueued(t)
    <3> SUFFICES ASSUME NEW k \in 1 .. Len(t), t[k] # "closed" PROVE FALSE
      BY DEF NoneQueued
    <3>1. k + 1 \in 1 .. Len(q) /\ k + 1 # 1 /\ q[k + 1] # "closed"
      BY <1>7
    <3>2. q[1] # "closed" /\ 1 \in 1 .. Len(q)
      BY <1>5, <1>16
    <3>3. k + 1 = 1
      BY <1>8, <3>1, <3>2 DEF OneQueued
    <3> QED
      BY <3>1, <3>3
  <2> QED
    BY <1>6, <1>8, <2>1, <2>2 DEF Quiet
<1> QED
  BY <1>4, <1>14, <1>15, <1>16 DEF d, t, n, kind, q

LEMMA StreamCallbackKeeps ==
    ASSUME ClientInv, NEW i \in Client!Conns, Client!StreamCallback(i)
    PROVE  ClientInv'
<1> DEFINE c == cl.conns[i]
           kind == Head(c.queue)
           d == [c EXCEPT !.queue = Tail(c.queue), !.due = c.due - 1]
           y == With(cl, i, d)
           x == Client!Run(y, i, kind)
           z == Client!Collected(Client!MaybeRunClose(x.conns[i]))
<1>1. Core(cl, fetched, {}) /\ fetched \in Nat /\ fetched' = fetched
  BY DEF ClientInv, Client!StreamCallback
<1>2. Has(cl, i)
  BY <1>1 DEF Core, Base, ClientType, Client!Conns, Has
<1>3. c.due > 0 /\ cl' = With(x, i, z)
  BY DEF Client!StreamCallback, Client!Conn, With
<1>4. c \in ConnType /\ Reads(c)
  BY <1>1, <1>2, CoreConn
<1>5. /\ Kept(c, d) /\ kind \in CallbackKinds
      /\ kind = "closed" \/ Quiet(d)
      /\ OfRead(kind, d.resp.framing, d.used, d.body)
  BY <1>3, <1>4, TakenOff
<1> HIDE DEF kind, d
<1>6. Core(y, fetched, {}) /\ Has(y, i)
  BY <1>1, <1>2, <1>5, CoreWith
<1>7. y.conns[i] = d
  <2>1. ClientType(cl) /\ d \in ConnType
    BY <1>1, <1>5 DEF Core, Base, Kept
  <2> QED
    BY <1>2, <2>1, WithIs
<1> HIDE DEF y
<1>8. Core(x, fetched, {}) /\ Has(x, i)
  BY <1>5, <1>6, <1>7, CoreRun
<1> HIDE DEF x
<1>9. Core(With(x, i, z), fetched, {})
  BY <1>8, StepEnds
<1> QED
  BY <1>1, <1>3, <1>9 DEF ClientInv

LEMMA TimeoutKeeps ==
    ASSUME ClientInv, NEW i \in Client!Conns, Client!Timeout(i)
    PROVE  ClientInv'
<1> DEFINE x == Client!OnTimeout(cl, i)
           z == Client!Collected(x.conns[i])
<1>1. Core(cl, fetched, {}) /\ fetched \in Nat /\ fetched' = fetched
  BY DEF ClientInv, Client!Timeout
<1>2. Has(cl, i)
  BY <1>1 DEF Core, Base, ClientType, Client!Conns, Has
<1>3. cl' = With(x, i, z)
  BY DEF Client!Timeout, With
<1>4. Core(x, fetched, {}) /\ Has(x, i)
  BY <1>1, <1>2, CoreTimedOut
<1> HIDE DEF x
<1>5. Core(With(x, i, z), fetched, {})
  BY <1>4, StepEnds
<1> QED
  BY <1>1, <1>3, <1>5 DEF ClientInv

LEMMA ConnectedKeeps ==
    ASSUME ClientInv, NEW i \in Client!Conns, Client!Connected(i)
    PROVE  ClientInv'
<1> DEFINE c == cl.conns[i]
           off == FALSE
           b == [c EXCEPT !.dialing = off]
           d == Client!Queue(b, "connect")
<1>1. Core(cl, fetched, {}) /\ fetched \in Nat
  BY DEF ClientInv
<1>2. Has(cl, i)
  BY <1>1 DEF Core, Base, ClientType, Client!Conns, Has
<1>3. c \in ConnType /\ Reads(c)
  BY <1>1, <1>2, CoreConn
<1>4. /\ c.dialing /\ fetched' = fetched
      /\ \/ cl' = With(cl, i, Client!Collected(d))
         \/ cl' = With(cl, i, Client!Collected(Client!CloseStream(c)))
  BY DEF Client!Connected, Client!Conn, Client!Set, With
<1>5. off \in BOOLEAN /\ ~off
  OBVIOUS
<1> HIDE DEF off
<1>6. /\ b \in ConnType /\ b.dialing = off /\ b.held = c.held /\ b.fetch = c.fetch /\ b.cb = c.cb
      /\ b.reading = c.reading /\ b.queue = c.queue /\ b.due = c.due
      /\ b.resp = c.resp /\ b.sent = c.sent /\ b.got = c.got
      /\ b.used = c.used /\ b.body = c.body
  BY <1>3, <1>5, SetDialing
<1> HIDE DEF b
<1>7. Sized(b) /\ Quiet(b)
  BY <1>3, <1>4, <1>5, <1>6 DEF Reads, Sized, Quiet
<1>8. b.used = 0 /\ b.body = 0
  <2>1. /\ c.used \in Nat /\ c.got \in Nat /\ c.sent = 0 /\ c.used <= c.got /\ c.got <= c.sent
        /\ (c.used = 0 => c.body = 0)
    BY <1>3, <1>4 DEF ConnType, Reads, Sized
  <2>2. c.used = 0
    BY <2>1
  <2> QED
    BY <1>6, <2>1, <2>2
<1>9. "connect" \in CallbackKinds /\ "connect" # "closed"
      /\ OfRead("connect", b.resp.framing, b.used, b.body)
  BY <1>8 DEF CallbackKinds, OfRead
<1>10. Kept(b, d)
  BY <1>6, <1>7, <1>9, QueueRead
<1>11. Kept(c, d)
  BY <1>6, <1>10 DEF Kept
<1>12. Kept(c, Client!CloseStream(c))
  BY <1>3, CloseStreamKeeps
<1> HIDE DEF d
<1> QED
  BY <1>2, <1>4, <1>11, <1>12, StepKeeps

LEMMA PollReadKeeps ==
    ASSUME ClientInv, NEW i \in Client!Conns, Client!PollRead(i)
    PROVE  ClientInv'
<1> DEFINE c == cl.conns[i]
           d == Client!HandleRead(c)
<1>1. Core(cl, fetched, {}) /\ fetched \in Nat
  BY DEF ClientInv
<1>2. Has(cl, i)
  BY <1>1 DEF Core, Base, ClientType, Client!Conns, Has
<1>3. Kept(c, d)
  BY <1>1, <1>2, CoreConn, HandleReadKeeps
<1>4. cl' = With(cl, i, Client!Collected(d)) /\ fetched' = fetched
  BY DEF Client!PollRead, Client!Conn, Client!Set, With
<1> HIDE DEF d
<1> QED
  BY <1>2, <1>3, <1>4, StepKeeps

\* Before the response nothing depends on what it will be.
LEMMA Unread ==
    ASSUME NEW framing, NEW other, NEW body
    PROVE  /\ \A what \in ReadKinds : AskedFor(what, framing, 0, body) => AskedFor(what, other, 0, body)
           /\ \A kind \in CallbackKinds : OfRead(kind, framing, 0, body) => OfRead(kind, other, 0, body)
<1>1. 0 # 1 /\ 0 # 2 /\ 0 # 3 /\ 0 # 4 /\ ~(0 >= 1)
  OBVIOUS
<1>2. ASSUME NEW what \in ReadKinds, AskedFor(what, framing, 0, body)
      PROVE  AskedFor(what, other, 0, body)
  BY <1>1, <1>2 DEF AskedFor, ReadKinds
<1>3. ASSUME NEW kind \in CallbackKinds, OfRead(kind, framing, 0, body)
      PROVE  OfRead(kind, other, 0, body)
  BY <1>1, <1>3 DEF OfRead, CallbackKinds
<1> QED
  BY <1>2, <1>3

\* Of a server the stream only sees how much there is.
LEMMA SentKeeps ==
    ASSUME NEW c \in ConnType, Reads(c), ~c.dialing, NEW d \in ConnType,
           d.fetch = c.fetch, d.cb = c.cb, d.held = c.held, d.dialing = c.dialing,
           d.reading = c.reading, d.queue = c.queue, d.due = c.due, d.got = c.got,
           d.used = c.used, d.body = c.body, d.sent >= c.sent, d.resp = c.resp \/ c.sent = 0
    PROVE  Kept(c, d)
<1>1. /\ c.used \in Nat /\ c.got \in Nat /\ c.sent \in Nat /\ d.sent \in Nat
      /\ c.queue \in Seq(CallbackKinds) /\ c.reading \in ReadKinds
  BY DEF ConnType
<1>2. /\ c.used <= c.got /\ c.got <= c.sent /\ (c.used = 0 => c.body = 0) /\ c.due <= Len(c.queue)
      /\ AskedFor(c.reading, c.resp.framing, c.used, c.body)
      /\ \A k \in 1 .. Len(c.queue) : OfRead(c.queue[k], c.resp.framing, c.used, c.body)
      /\ OneQueued(c.queue) /\ (NoneQueued(c.queue) \/ c.reading = "none")
  BY DEF Reads, Sized
<1>3. d.used <= d.got /\ d.got <= d.sent
  BY <1>1, <1>2
<1>4. /\ AskedFor(c.reading, d.resp.framing, c.used, c.body)
      /\ \A k \in 1 .. Len(c.queue) : OfRead(c.queue[k], d.resp.framing, c.used, c.body)
  <2>1. CASE d.resp = c.resp
    BY <1>2, <2>1
  <2>2. CASE c.sent = 0
    <3>1. c.used = 0
      BY <1>1, <1>2, <2>2
    <3>2. \A k \in 1 .. Len(c.queue) : c.queue[k] \in CallbackKinds
      BY <1>1
    <3>3. /\ AskedFor(c.reading, c.resp.framing, 0, c.body)
          /\ \A k \in 1 .. Len(c.queue) : OfRead(c.queue[k], c.resp.framing, 0, c.body)
      BY <1>2, <3>1
    <3>4. /\ AskedFor(c.reading, d.resp.framing, 0, c.body)
          /\ \A k \in 1 .. Len(c.queue) : OfRead(c.queue[k], d.resp.framing, 0, c.body)
      BY <1>1, <3>2, <3>3, Unread
    <3> QED
      BY <3>1, <3>4
  <2> QED
    BY <2>1, <2>2
<1>5. Sized(d)
  BY <1>2, <1>3 DEF Sized
<1>6. Reads(d)
  BY <1>2, <1>4, <1>5 DEF Reads
<1> QED
  BY <1>6 DEF Kept

LEMMA PiecesLength ==
    ASSUME NEW r
    PROVE  Len(Client!Pieces(r)) \in Nat /\ Len(Client!Pieces(r)) >= 1
<1>1. CASE r.framing = "none"
  BY <1>1 DEF Client!Pieces
<1>2. CASE r.framing = "chunked"
  BY <1>2 DEF Client!Pieces
<1>3. CASE r.framing \notin {"none", "chunked"}
  BY <1>3 DEF Client!Pieces
<1> QED
  BY <1>1, <1>2, <1>3

LEMMA ServerSendsKeeps ==
    ASSUME ClientInv, NEW i \in Client!Conns, Client!ServerSends(i)
    PROVE  ClientInv'
<1> DEFINE c == cl.conns[i]
<1>1. Core(cl, fetched, {}) /\ fetched \in Nat
  BY DEF ClientInv
<1>2. Has(cl, i)
  BY <1>1 DEF Core, Base, ClientType, Client!Conns, Has
<1>3. c \in ConnType /\ Reads(c) /\ ~c.dialing
  BY <1>1, <1>2, CoreConn DEF Client!ServerSends, Client!Conn
<1>4. ASSUME c.sent = 0, NEW r \in Responses, NEW n \in {1, Len(Client!Pieces(r))},
             Client!Set(i, [c EXCEPT !.resp = r, !.sent = n])
      PROVE  ClientInv'
  <2> DEFINE d == [c EXCEPT !.resp = r, !.sent = n]
  <2>1. cl' = With(cl, i, Client!Collected(d)) /\ fetched' = fetched
    BY <1>4 DEF Client!Set, With
  <2>2. n \in Nat /\ n >= 0
    BY <1>4, PiecesLength
  <2>3. r \in ResponseKinds
    BY InputsAssumption DEF Client!ResponseType, ResponseKinds
  <2>4. /\ d \in ConnType /\ d.sent = n /\ d.fetch = c.fetch /\ d.cb = c.cb /\ d.held = c.held
        /\ d.dialing = c.dialing /\ d.reading = c.reading /\ d.queue = c.queue /\ d.due = c.due
        /\ d.got = c.got /\ d.used = c.used /\ d.body = c.body
    BY <1>3, <2>2, <2>3 DEF ConnType
  <2> HIDE DEF d
  <2>5. d.sent >= c.sent
    BY <1>4, <2>2, <2>4
  <2>6. Kept(c, d)
    BY <1>3, <1>4, <2>4, <2>5, SentKeeps
  <2> QED
    BY <1>2, <2>1, <2>6, StepKeeps
<1>5. ASSUME c.sent = 1, Client!Set(i, [c EXCEPT !.sent = Len(Client!Pieces(c.resp))])
      PROVE  ClientInv'
  <2> DEFINE n == Len(Client!Pieces(c.resp))
             d == [c EXCEPT !.sent = n]
  <2>1. cl' = With(cl, i, Client!Collected(d)) /\ fetched' = fetched
    BY <1>5 DEF Client!Set, With
  <2>2. n \in Nat /\ n >= 1
    BY PiecesLength
  <2> HIDE DEF n
  <2>3. /\ d \in ConnType /\ d.sent = n /\ d.fetch = c.fetch /\ d.cb = c.cb /\ d.held = c.held
        /\ d.dialing = c.dialing /\ d.reading = c.reading /\ d.queue = c.queue /\ d.due = c.due
        /\ d.got = c.got /\ d.used = c.used /\ d.body = c.body /\ d.resp = c.resp
    BY <1>3, <2>2, SetSent
  <2> HIDE DEF d
  <2>4. d.sent >= c.sent
    BY <1>5, <2>2, <2>3
  <2>5. Kept(c, d)
    BY <1>3, <2>3, <2>4, SentKeeps
  <2> QED
    BY <1>2, <2>1, <2>5, StepKeeps
<1> QED
  BY <1>4, <1>5 DEF Client!ServerSends, Client!Conn

LEMMA ServerClosesKeeps ==
    ASSUME ClientInv, NEW i \in Client!Conns, Client!ServerCloses(i)
    PROVE  ClientInv'
<1> DEFINE c == cl.conns[i]
<1>1. Core(cl, fetched, {}) /\ fetched \in Nat
  BY DEF ClientInv
<1>2. Has(cl, i)
  BY <1>1 DEF Core, Base, ClientType, Client!Conns, Has
<1>3. c \in ConnType /\ Reads(c) /\ ~c.dialing
  BY <1>1, <1>2, CoreConn DEF Client!ServerCloses, Client!Conn
<1>4. PICK how \in {"fin", "reset"} : Client!Set(i, [c EXCEPT !.gone = how])
  BY DEF Client!ServerCloses, Client!Conn
<1> DEFINE d == [c EXCEPT !.gone = how]
<1>5. cl' = With(cl, i, Client!Collected(d)) /\ fetched' = fetched
  BY <1>4 DEF Client!Set, With
<1>6. how \in {"no", "fin", "reset"}
  BY <1>4
<1>7. /\ d \in ConnType /\ d.sent = c.sent /\ d.fetch = c.fetch /\ d.cb = c.cb /\ d.held = c.held
      /\ d.dialing = c.dialing /\ d.reading = c.reading /\ d.queue = c.queue /\ d.due = c.due
      /\ d.got = c.got /\ d.used = c.used /\ d.body = c.body /\ d.resp = c.resp
  <2>1. c \in ConnType
    BY <1>3
  <2> HIDE DEF c
  <2> QED
    BY <1>6, <2>1 DEF ConnType
<1> HIDE DEF d
<1>8. d.sent >= c.sent
  BY <1>3, <1>7 DEF ConnType
<1>9. Kept(c, d)
  BY <1>3, <1>7, <1>8, SentKeeps
<1> QED
  BY <1>2, <1>5, <1>9, StepKeeps

LEMMA ClientKept == ClientInv /\ [Client!ClientNext]_clientVars => ClientInv'
<1> SUFFICES ASSUME ClientInv, [Client!ClientNext]_clientVars PROVE ClientInv'
  OBVIOUS
<1>1. ASSUME NEW bad \in BOOLEAN, Client!Fetch(bad) PROVE ClientInv'
  BY <1>1, FetchKeeps
<1>2. CASE Client!Iterate
  BY <1>2, IterateKeeps
<1>3. ASSUME NEW i \in Client!Conns, Client!StreamCallback(i) PROVE ClientInv'
  BY <1>3, StreamCallbackKeeps
<1>4. ASSUME NEW i \in Client!Conns, Client!Timeout(i) PROVE ClientInv'
  BY <1>4, TimeoutKeeps
<1>5. ASSUME NEW i \in Client!Conns, Client!Connected(i) PROVE ClientInv'
  BY <1>5, ConnectedKeeps
<1>6. ASSUME NEW i \in Client!Conns, Client!PollRead(i) PROVE ClientInv'
  BY <1>6, PollReadKeeps
<1>7. ASSUME NEW i \in Client!Conns, Client!ServerSends(i) PROVE ClientInv'
  BY <1>7, ServerSendsKeeps
<1>8. ASSUME NEW i \in Client!Conns, Client!ServerCloses(i) PROVE ClientInv'
  BY <1>8, ServerClosesKeeps
<1>9. CASE UNCHANGED clientVars
  BY <1>9 DEF clientVars, ClientInv
<1> QED
  BY <1>1, <1>2, <1>3, <1>4, <1>5, <1>6, <1>7, <1>8, <1>9 DEF Client!ClientNext

-----------------------------------------------------------------------------
(* The HTTP client: what its runs check.                                   *)

LEMMA PlacesAreFilled == ClientInv => PlacesFilled
<1> SUFFICES ASSUME ClientInv PROVE PlacesFilled
  OBVIOUS
<1>1. Filled(cl)
  BY DEF ClientInv, Core
<1>2. Client!Cardinality(Client!Active(cl)) = Running(cl)
  BY SameSize DEF Running
<1> QED
  BY <1>1, <1>2 DEF Filled, AtMost, PlacesFilled, Client!PlacesFilled,
                    Client!AtMostMaxClients, Client!NoIdlePlace

\* A set whose members are all the same is counted by whether it has one.
LEMMA CountOfOne ==
    ASSUME NEW S, \A a, b \in S : a = b
    PROVE  Client!Cardinality(S) = IF S = {} THEN 0 ELSE 1
<1>1. CASE S = {}
  BY <1>1, SameSize, FS_EmptySet
<1>2. CASE S # {}
  <2>1. PICK a : a \in S
    BY <1>2
  <2>2. S = {a}
    BY <2>1
  <2>3. Cardinality({a}) = 1
    BY FS_Singleton
  <2> QED
    BY <1>2, <2>2, <2>3, SameSize
<1> QED
  BY <1>1, <1>2

LEMMA OneOwes ==
    ASSUME ClientInv, NEW f \in Client!Fetches
    PROVE  /\ Client!Owing(f) = IF Unanswered(cl.answers, fetched, {}, f) THEN 1 ELSE 0
           /\ cl.answers[f] \in Seq(AnswerType)
           /\ cl.answers[f] = <<>> \/ Len(cl.answers[f]) = 1
           /\ ~(f <= fetched) => cl.answers[f] = <<>>
<1> DEFINE w == cl.waiting
           c == cl.conns
           a == cl.answers
           made == {i \in Client!Conns : Client!Conn(i).fetch = f /\ Client!Conn(i).cb}
           queued == {k \in DOMAIN cl.waiting : cl.waiting[k].fetch = f /\ cl.waiting[k].cb}
<1>1. ClientType(cl) /\ Owed(w, c, a, fetched, {})
  BY DEF ClientInv, Core, Base
<1>2. w \in Seq(EntryType) /\ c \in Seq(ConnType) /\ a[f] \in Seq(AnswerType)
  BY <1>1 DEF ClientType
<1>3. /\ \A i : i \in made <=> i \in 1 .. Len(c) /\ c[i].fetch = f /\ c[i].cb
      /\ \A k : k \in queued <=> k \in 1 .. Len(w) /\ w[k].fetch = f /\ w[k].cb
  BY <1>2 DEF Client!Conns, Client!Conn
<1>4. Client!Owing(f) = Client!Cardinality(made) + Client!Cardinality(queued)
  BY DEF Client!Owing
<1> HIDE DEF w, c, a, made, queued
<1>5. (\A i, j \in made : i = j) /\ (\A k, l \in queued : k = l)
  <2>1. /\ \A i, j \in 1 .. Len(c) : c[i].cb /\ c[j].cb /\ c[i].fetch = c[j].fetch => i = j
        /\ \A k, l \in 1 .. Len(w) : w[k].cb /\ w[l].cb /\ w[k].fetch = w[l].fetch => k = l
    BY <1>1 DEF Owed
  <2> QED
    BY ONLY <1>3, <2>1
<1>6. made = {} \/ queued = {}
  BY <1>1, <1>3 DEF Owed
<1>7. made # {} \/ queued # {} <=> Unanswered(a, fetched, {}, f)
  BY <1>1, <1>3 DEF Owed
<1>8. /\ Client!Cardinality(made) = IF made = {} THEN 0 ELSE 1
      /\ Client!Cardinality(queued) = IF queued = {} THEN 0 ELSE 1
  BY <1>5, CountOfOne
<1>9. Client!Owing(f) = IF Unanswered(a, fetched, {}, f) THEN 1 ELSE 0
  BY ONLY <1>4, <1>6, <1>7, <1>8
<1>10. (a[f] = <<>> \/ Len(a[f]) = 1) /\ (~(f <= fetched) => a[f] = <<>>)
  BY <1>1 DEF Owed
<1> QED
  BY <1>2, <1>9, <1>10 DEF a

LEMMA OneAnswer == ClientInv => AnsweredOnce
<1> SUFFICES ASSUME ClientInv, NEW f \in Client!Fetches
             PROVE  /\ Len(cl.answers[f]) + Client!Owing(f) = IF f <= fetched THEN 1 ELSE 0
                    /\ "part" \notin Client!Range(cl.answers[f])
  BY DEF AnsweredOnce, Client!AnsweredOnce
<1> DEFINE s == cl.answers[f]
<1>1. /\ Client!Owing(f) = IF Unanswered(cl.answers, fetched, {}, f) THEN 1 ELSE 0
      /\ s \in Seq(AnswerType) /\ (s = <<>> \/ Len(s) = 1)
      /\ ~(f <= fetched) => s = <<>>
  BY OneOwes
<1>2. Unanswered(cl.answers, fetched, {}, f) <=> f <= fetched /\ s = <<>>
  BY DEF Unanswered
<1>3. "part" \notin Client!Range(s)
  <2>1. \A k \in DOMAIN s : s[k] \in AnswerType
    BY <1>1
  <2>2. "part" \notin AnswerType
    BY DEF AnswerType
  <2> QED
    BY <2>1, <2>2 DEF Client!Range
<1> HIDE DEF s
<1>4. s = <<>> => Len(s) = 0
  OBVIOUS
<1>5. Len(s) + Client!Owing(f) = IF f <= fetched THEN 1 ELSE 0
  <2>1. CASE s = <<>>
    BY <1>1, <1>2, <1>4, <2>1
  <2>2. CASE s # <<>>
    <3>1. Len(s) = 1 /\ f <= fetched
      BY ONLY <1>1, <2>2
    <3>2. Client!Owing(f) = 0
      BY ONLY <1>1, <1>2, <2>2
    <3> QED
      BY <3>1, <3>2
  <2> QED
    BY <2>1, <2>2
<1> QED
  BY <1>3, <1>5 DEF s

\* Whatever the servers send and whichever of its timers and callbacks come first, the
\* client never runs more than max_clients fetches at once and leaves no place idle while
\* a fetch waits, for any number of clients, fetches, redirects and responses.
THEOREM PlacesAlwaysFilled == RuntimeSpec => []PlacesFilled
<1>1. RuntimeInit => ClientInv
  BY ClientBegins DEF RuntimeInit
<1>2. ClientInv /\ [RuntimeNext]_runtimeVars => ClientInv'
  BY ClientKept, PartsAlone
<1> QED
  BY <1>1, <1>2, PlacesAreFilled, PTL DEF RuntimeSpec

\* A fetch that was started has either been answered, once, or is owed its answer by exactly
\* one connection or one entry of the queue; and no answer has a body of which a part that
\* was announced is missing.
THEOREM AlwaysAnsweredOnce == RuntimeSpec => []AnsweredOnce
<1>1. RuntimeInit => ClientInv
  BY ClientBegins DEF RuntimeInit
<1>2. ClientInv /\ [RuntimeNext]_runtimeVars => ClientInv'
  BY ClientKept, PartsAlone
<1> QED
  BY <1>1, <1>2, OneAnswer, PTL DEF RuntimeSpec

-----------------------------------------------------------------------------
(* map_task does guarantee, for any source and any number of threads, that *)
(* no item is run twice, nothing runs once it has returned, and only the   *)
(* last item given to a thread can be missing.                             *)

Places == 0 .. Len(Source)
MainType == [pc : {"next", "scan", "give", "acquire", "release", "terminate", "join",
                   "joining", "returned"},
             taken : Places, item : Places, at : Nat \ {0}]
TaskType == [pc : {"wait", "clear", "acquire", "started?", "run", "release", "free",
                   "terminated?", "done"},
             started : BOOLEAN, terminated : BOOLEAN,
             start : BOOLEAN, terminate : BOOLEAN, item : Places]

TaskTypeOK ==
    /\ main \in MainType
    /\ task \in [Tasks -> TaskType]
    /\ called \in [DOMAIN Source -> {0, 1}]

\* The last phase of map_task.
Ending == main.pc \in {"terminate", "join", "joining", "returned"}

\* main has chosen t and not yet given it the item; ...
Giving(t) == main.pc = "give" /\ main.at = t
\* ... thread t, being as r says, has the item it is to run, has run or runs; ...
GivenAs(t, r) == r.started /\ ~Giving(t)
\* ... and it has not run it yet.
OwesAs(t, r) == GivenAs(t, r) /\ r.pc \notin {"release", "free"}
Owes(t) == OwesAs(t, task[t])

\* A thread is where its flags and its event say; while it has no item and is not to
\* end, it sleeps.
FlagsOK(t, r) ==
    /\ r.pc \in {"run", "release", "free"} => GivenAs(t, r)
    /\ ~GivenAs(t, r) /\ ~r.terminated => r.pc \in {"wait", "terminated?"} /\ ~r.start
    /\ r.pc \in {"acquire", "started?", "run", "release", "free"} /\ ~r.terminated => ~r.start
    /\ r.terminate => r.pc = "done"
    /\ ~Ending => ~r.terminated

\* An item that a thread owes was taken, is no longer held, and has not been run.
ItemOK(t, r) ==
    /\ r.item <= main.taken
    /\ OwesAs(t, r) => r.item # 0 /\ r.item # main.item /\ called[r.item] = 0

ThreadsInv == \A t \in Tasks : FlagsOK(t, task[t]) /\ ItemOK(t, task[t])

\* Two threads never owe the same item.
OwedOnce == \A t, u \in Tasks : Owes(t) /\ Owes(u) /\ t # u => task[t].item # task[u].item

\* main holds the item it took until it has given it.
MainInv ==
    /\ main.item <= main.taken
    /\ main.item # 0 => called[main.item] = 0
    /\ main.pc \in {"scan", "give", "acquire", "release"} => main.item # 0
    /\ main.pc = "give" => main.at \in Tasks /\ task[main.at].started
    /\ main.pc \in {"join", "joining"} => main.at \in Tasks
    /\ main.pc = "returned" => main.at > thread_limit
    /\ Ending => main.taken = Len(Source) /\ DataIsNone

\* What was taken is None, held, owed or has been run.
Accounted ==
    \A i \in DOMAIN Source :
        /\ i > main.taken => called[i] = 0
        /\ i <= main.taken => \/ Source[i] = None \/ main.item = i \/ called[i] = 1
                              \/ \E t \in Tasks : Owes(t) /\ task[t].item = i

\* A thread that main has joined is done, or has nothing to do.
Rests(r) == ~r.started \/ r.pc = "done"
JoinedRest == Ending => \A t \in Tasks : t < main.at => Rests(task[t])

TasksInv ==
    TaskTypeOK /\ MainInv /\ ThreadsInv /\ OwedOnce /\ Accounted /\ JoinedRest

LEMMA SourceItems ==
    /\ DOMAIN Source = 1 .. Len(Source) /\ Len(Source) \in Nat
    /\ thread_limit \in Nat /\ thread_limit > 0 /\ Tasks = 1 .. thread_limit
  BY TaskRunnerAssumption, SMT DEF Tasks

LEMMA InitHolds == TaskInit => TasksInv
<1> SUFFICES ASSUME TaskInit PROVE TasksInv
  OBVIOUS
<1> DEFINE r == [pc |-> "wait", started |-> FALSE, terminated |-> FALSE,
                 start |-> FALSE, terminate |-> FALSE, item |-> 0]
<1>1. main = [pc |-> "next", taken |-> 0, item |-> 0, at |-> 1]
      /\ (\A t \in Tasks : task[t] = r) /\ task \in [Tasks -> {r}]
      /\ called = [i \in DOMAIN Source |-> 0]
  BY DEF TaskInit, NoItem
<1>2. TaskTypeOK
  <2>1. 0 \in Places /\ main \in MainType
    BY <1>1, SourceItems, SMT DEF MainType, Places
  <2>2. r \in TaskType
    BY <2>1 DEF TaskType
  <2>3. called \in [DOMAIN Source -> {0, 1}]
    BY <1>1
  <2> QED
    BY <1>1, <2>1, <2>2, <2>3 DEF TaskTypeOK
<1>3. \A t \in Tasks : ~Owes(t) /\ FlagsOK(t, task[t]) /\ ItemOK(t, task[t])
  BY <1>1 DEF Owes, OwesAs, GivenAs, FlagsOK, ItemOK, Ending
<1>4. MainInv /\ JoinedRest
  BY <1>1 DEF MainInv, JoinedRest, Ending
<1>5. Accounted
  BY <1>1, SourceItems, SMT DEF Accounted
<1> QED
  BY <1>2, <1>3, <1>4, <1>5 DEF TasksInv, ThreadsInv, OwedOnce

LEMMA InvImplies == TasksInv => NothingRunsAfterReturn
<1> SUFFICES ASSUME TasksInv PROVE NothingRunsAfterReturn
  OBVIOUS
<1>1. \A i \in DOMAIN Source : called[i] <= 1
  BY SMT DEF TasksInv, TaskTypeOK
<1>2. ASSUME main.pc = "returned", NEW t \in Tasks
      PROVE  task[t].pc # "run" /\ ~(task[t].started /\ task[t].pc # "done")
  <2>1. t < main.at
    BY <1>2, SourceItems, SMT DEF TasksInv, MainInv, TaskTypeOK, MainType
  <2>2. Rests(task[t]) /\ FlagsOK(t, task[t])
    BY <1>2, <2>1 DEF TasksInv, JoinedRest, Ending, ThreadsInv
  <2> QED
    BY <2>2 DEF Rests, FlagsOK, GivenAs
<1>3. ASSUME main.pc = "returned", NEW i \in DOMAIN Source, called[i] = 0
      PROVE  Source[i] = None \/ \E t \in Tasks : task[t].item = i
  <2>1. i <= main.taken /\ DataIsNone
    BY <1>3, SourceItems, SMT DEF TasksInv, MainInv, Ending
  <2>2. main.item = i => Source[i] = None
    BY <2>1, SourceItems, SMT DEF DataIsNone, NoItem
  <2> QED
    BY <1>3, <2>1, <2>2 DEF TasksInv, Accounted
<1> QED
  BY <1>1, <1>2, <1>3 DEF NothingRunsAfterReturn

-----------------------------------------------------------------------------
(* The steps of a thread.                                                  *)

\* A step of thread t that neither runs an item nor gets one.
LEMMA ThreadMoves ==
    ASSUME TasksInv, NEW t \in Tasks, NEW r \in TaskType,
           task' = [task EXCEPT ![t] = r], UNCHANGED <<main, called>>,
           r.item = task[t].item,
           OwesAs(t, r) <=> Owes(t),
           Giving(t) => r.started,
           Rests(task[t]) => Rests(r),
           FlagsOK(t, r)
    PROVE  TasksInv'
<1>1. task'[t] = r /\ \A u \in Tasks : u # t => task'[u] = task[u]
  BY DEF TasksInv, TaskTypeOK
<1>2. TaskTypeOK'
  BY DEF TasksInv, TaskTypeOK
<1>3. \A u \in Tasks : /\ (Owes(u))' <=> Owes(u)
                       /\ task'[u].item = task[u].item
                       /\ Rests(task[u]) => Rests(task'[u])
  BY <1>1 DEF Owes, OwesAs, GivenAs, Giving
<1>4. MainInv'
  <2>1. task[main.at].started /\ main.pc = "give" => task'[main.at].started
    BY <1>1 DEF TasksInv, MainInv, Giving
  <2> QED
    BY <2>1 DEF TasksInv, MainInv, Ending, DataIsNone
<1>5. ThreadsInv'
  <2> SUFFICES ASSUME NEW u \in Tasks PROVE (FlagsOK(u, task[u]))' /\ (ItemOK(u, task[u]))'
    BY DEF ThreadsInv
  <2>1. FlagsOK(u, task[u]) /\ ItemOK(u, task[u])
    BY DEF TasksInv, ThreadsInv
  <2>2. (FlagsOK(u, task[u]))'
    BY <1>1, <2>1 DEF FlagsOK, GivenAs, Giving, Ending
  <2>3. (ItemOK(u, task[u]))'
    BY <1>3, <2>1 DEF ItemOK, Owes
  <2> QED
    BY <2>2, <2>3
<1>6. OwedOnce' /\ Accounted'
  BY <1>3 DEF TasksInv, OwedOnce, Accounted
<1>7. JoinedRest'
  BY <1>3 DEF TasksInv, JoinedRest, Ending
<1> QED
  BY <1>2, <1>4, <1>5, <1>6, <1>7 DEF TasksInv

\* The steps by which a thread goes round without running an item.
LEMMA WorkerTurns ==
    ASSUME TasksInv, NEW t \in Tasks,
           \/ Woken(t) \/ ClearStart(t) \/ Acquire(t) \/ IsStarted(t)
           \/ Release(t) \/ Free(t) \/ IsTerminated(t)
    PROVE  TasksInv'
<1> DEFINE old == task[t]
<1>1. old \in TaskType /\ FlagsOK(t, old)
  BY DEF TasksInv, TaskTypeOK, ThreadsInv
<1>2. Giving(t) => old.started /\ ~Ending
  BY DEF Giving, TasksInv, MainInv, Ending
<1>3. CASE Woken(t)
  <2> DEFINE r == [old EXCEPT !.pc = "clear"]
  <2>1. task' = [task EXCEPT ![t] = r] /\ UNCHANGED <<main, called>> /\ old.pc = "wait" /\ old.start
    BY <1>3 DEF Woken, TaskAt
  <2>2. r \in TaskType
        /\ r.pc = "clear" /\ r.started = old.started /\ r.terminated = old.terminated
        /\ r.start = old.start /\ r.terminate = old.terminate /\ r.item = old.item
    BY <1>1, SMT DEF TaskType
  <2>3. (OwesAs(t, r) <=> Owes(t)) /\ FlagsOK(t, r)
        /\ (Giving(t) => r.started) /\ (Rests(old) => Rests(r))
    BY <1>1, <1>2, <2>1, <2>2 DEF OwesAs, Owes, FlagsOK, GivenAs, Rests
  <2> QED
    BY <2>1, <2>2, <2>3, ThreadMoves
<1>4. CASE ClearStart(t)
  <2> DEFINE q == [old EXCEPT !.pc = "acquire"]
             r == [q EXCEPT !.start = FALSE]
  <2>1. task' = [task EXCEPT ![t] = r] /\ UNCHANGED <<main, called>> /\ old.pc = "clear"
    BY <1>4 DEF ClearStart
  <2>2. q \in TaskType /\ q.pc = "acquire"
        /\ q.started = old.started /\ q.terminated = old.terminated
        /\ q.start = old.start /\ q.terminate = old.terminate /\ q.item = old.item
    BY <1>1, SMT DEF TaskType
  <2> HIDE DEF q
  <2>2a. r \in TaskType
    BY <2>2, Zenon DEF TaskType
  <2>3. r \in TaskType /\ r.pc = "acquire"
        /\ r.started = old.started /\ r.terminated = old.terminated
        /\ r.start = FALSE /\ r.terminate = old.terminate /\ r.item = old.item
    BY <2>2, <2>2a, SMT DEF TaskType
  <2> HIDE DEF r
  <2>4. (OwesAs(t, r) <=> Owes(t)) /\ FlagsOK(t, r)
        /\ (Giving(t) => r.started) /\ (Rests(old) => Rests(r))
    BY <1>1, <1>2, <2>1, <2>3 DEF OwesAs, Owes, FlagsOK, GivenAs, Rests
  <2> QED
    BY <2>1, <2>3, <2>4, ThreadMoves
<1>5. CASE Acquire(t)
  <2> DEFINE r == [old EXCEPT !.pc = "started?"]
  <2>1. task' = [task EXCEPT ![t] = r] /\ UNCHANGED <<main, called>> /\ old.pc = "acquire"
    BY <1>5 DEF Acquire, TaskAt
  <2>2. r \in TaskType
        /\ r.pc = "started?" /\ r.started = old.started /\ r.terminated = old.terminated
        /\ r.start = old.start /\ r.terminate = old.terminate /\ r.item = old.item
    BY <1>1, SMT DEF TaskType
  <2>3. (OwesAs(t, r) <=> Owes(t)) /\ FlagsOK(t, r)
        /\ (Giving(t) => r.started) /\ (Rests(old) => Rests(r))
    BY <1>1, <1>2, <2>1, <2>2 DEF OwesAs, Owes, FlagsOK, GivenAs, Rests
  <2> QED
    BY <2>1, <2>2, <2>3, ThreadMoves
<1>6. CASE Release(t)
  <2> DEFINE r == [old EXCEPT !.pc = "free"]
  <2>1. task' = [task EXCEPT ![t] = r] /\ UNCHANGED <<main, called>> /\ old.pc = "release"
    BY <1>6 DEF Release, TaskAt
  <2>2. r \in TaskType
        /\ r.pc = "free" /\ r.started = old.started /\ r.terminated = old.terminated
        /\ r.start = old.start /\ r.terminate = old.terminate /\ r.item = old.item
    BY <1>1, SMT DEF TaskType
  <2>3. (OwesAs(t, r) <=> Owes(t)) /\ FlagsOK(t, r)
        /\ (Giving(t) => r.started) /\ (Rests(old) => Rests(r))
    BY <1>1, <1>2, <2>1, <2>2 DEF OwesAs, Owes, FlagsOK, GivenAs, Rests
  <2> QED
    BY <2>1, <2>2, <2>3, ThreadMoves
<1>7. CASE Free(t)
  <2> DEFINE q == [old EXCEPT !.pc = "terminated?"]
             r == [q EXCEPT !.started = FALSE]
  <2>1. task' = [task EXCEPT ![t] = r] /\ UNCHANGED <<main, called>> /\ old.pc = "free"
    BY <1>7 DEF Free, Freed
  <2>2. q \in TaskType /\ q.pc = "terminated?"
        /\ q.started = old.started /\ q.terminated = old.terminated
        /\ q.start = old.start /\ q.terminate = old.terminate /\ q.item = old.item
    BY <1>1, SMT DEF TaskType
  <2> HIDE DEF q
  <2>2a. r \in TaskType
    BY <2>2, Zenon DEF TaskType
  <2>3. r \in TaskType /\ r.pc = "terminated?"
        /\ r.started = FALSE /\ r.terminated = old.terminated
        /\ r.start = old.start /\ r.terminate = old.terminate /\ r.item = old.item
    BY <2>2, <2>2a, SMT DEF TaskType
  <2> HIDE DEF r
  <2>4. (OwesAs(t, r) <=> Owes(t)) /\ FlagsOK(t, r)
        /\ (Giving(t) => r.started) /\ (Rests(old) => Rests(r))
    BY <1>1, <1>2, <2>1, <2>3 DEF OwesAs, Owes, FlagsOK, GivenAs, Rests
  <2> QED
    BY <2>1, <2>3, <2>4, ThreadMoves
<1>8. CASE IsStarted(t) /\ old.started
  <2> DEFINE q == [old EXCEPT !.pc = "run"]
             r == [q EXCEPT !.terminate = FALSE]
  <2>1. task' = [task EXCEPT ![t] = r] /\ UNCHANGED <<main, called>> /\ old.pc = "started?"
    BY <1>8 DEF IsStarted
  <2>2. q \in TaskType /\ q.pc = "run"
        /\ q.started = old.started /\ q.terminated = old.terminated
        /\ q.start = old.start /\ q.terminate = old.terminate /\ q.item = old.item
    BY <1>1, SMT DEF TaskType
  <2> HIDE DEF q
  <2>2a. r \in TaskType
    BY <2>2, Zenon DEF TaskType
  <2>3. r \in TaskType /\ r.pc = "run"
        /\ r.started = old.started /\ r.terminated = old.terminated
        /\ r.start = old.start /\ r.terminate = FALSE /\ r.item = old.item
    BY <2>2, <2>2a, SMT DEF TaskType
  <2> HIDE DEF r
  <2>4. (OwesAs(t, r) <=> Owes(t)) /\ FlagsOK(t, r)
        /\ (Giving(t) => r.started) /\ (Rests(old) => Rests(r))
    BY <1>1, <1>2, <1>8, <2>1, <2>3 DEF OwesAs, Owes, FlagsOK, GivenAs, Rests
  <2> QED
    BY <2>1, <2>3, <2>4, ThreadMoves
<1>9. CASE IsStarted(t) /\ ~old.started
  <2> DEFINE r == [old EXCEPT !.pc = "terminated?"]
  <2>1. task' = [task EXCEPT ![t] = r] /\ UNCHANGED <<main, called>> /\ old.pc = "started?"
    BY <1>9 DEF IsStarted
  <2>2. r \in TaskType /\ r.pc = "terminated?"
        /\ r.started = old.started /\ r.terminated = old.terminated
        /\ r.start = old.start /\ r.terminate = old.terminate /\ r.item = old.item
    BY <1>1, SMT DEF TaskType
  <2> HIDE DEF r
  <2>3. (OwesAs(t, r) <=> Owes(t)) /\ FlagsOK(t, r)
        /\ (Giving(t) => r.started) /\ (Rests(old) => Rests(r))
    BY <1>1, <1>2, <1>9, <2>1, <2>2 DEF OwesAs, Owes, FlagsOK, GivenAs, Rests
  <2> QED
    BY <2>1, <2>2, <2>3, ThreadMoves
<1>10. CASE IsTerminated(t) /\ old.terminated
  <2> DEFINE q == [old EXCEPT !.pc = "done"]
             r == [q EXCEPT !.terminate = TRUE]
  <2>1. task' = [task EXCEPT ![t] = r] /\ UNCHANGED <<main, called>> /\ old.pc = "terminated?"
    BY <1>10 DEF IsTerminated
  <2>2. q \in TaskType /\ q.pc = "done"
        /\ q.started = old.started /\ q.terminated = old.terminated
        /\ q.start = old.start /\ q.terminate = old.terminate /\ q.item = old.item
    BY <1>1, SMT DEF TaskType
  <2> HIDE DEF q
  <2>2a. r \in TaskType
    BY <2>2, Zenon DEF TaskType
  <2>3. r \in TaskType /\ r.pc = "done"
        /\ r.started = old.started /\ r.terminated = old.terminated
        /\ r.start = old.start /\ r.terminate = TRUE /\ r.item = old.item
    BY <2>2, <2>2a, SMT DEF TaskType
  <2> HIDE DEF r
  <2>4. (OwesAs(t, r) <=> Owes(t)) /\ FlagsOK(t, r)
        /\ (Giving(t) => r.started) /\ (Rests(old) => Rests(r))
    BY <1>1, <1>2, <1>10, <2>1, <2>3 DEF OwesAs, Owes, FlagsOK, GivenAs, Rests
  <2> QED
    BY <2>1, <2>3, <2>4, ThreadMoves
<1>11. CASE IsTerminated(t) /\ ~old.terminated
  <2> DEFINE r == [old EXCEPT !.pc = "wait"]
  <2>1. task' = [task EXCEPT ![t] = r] /\ UNCHANGED <<main, called>> /\ old.pc = "terminated?"
    BY <1>11 DEF IsTerminated
  <2>2. r \in TaskType /\ r.pc = "wait"
        /\ r.started = old.started /\ r.terminated = old.terminated
        /\ r.start = old.start /\ r.terminate = old.terminate /\ r.item = old.item
    BY <1>1, SMT DEF TaskType
  <2> HIDE DEF r
  <2>3. (OwesAs(t, r) <=> Owes(t)) /\ FlagsOK(t, r)
        /\ (Giving(t) => r.started) /\ (Rests(old) => Rests(r))
    BY <1>1, <1>2, <1>11, <2>1, <2>2 DEF OwesAs, Owes, FlagsOK, GivenAs, Rests
  <2> QED
    BY <2>1, <2>2, <2>3, ThreadMoves
<1> QED
  BY <1>3, <1>4, <1>5, <1>6, <1>7, <1>8, <1>9, <1>10, <1>11

\* A thread runs the item it owes: from then on the item counts as run.
LEMMA RunKeeps ==
    ASSUME TasksInv, NEW t \in Tasks, Run(t)
    PROVE  TasksInv'
<1> DEFINE old == task[t]
           r == [old EXCEPT !.pc = "release"]
           k == old.item
<1>1. old \in TaskType /\ FlagsOK(t, old) /\ ItemOK(t, old)
  BY DEF TasksInv, TaskTypeOK, ThreadsInv
<1>2. task' = [task EXCEPT ![t] = r] /\ UNCHANGED main /\ old.pc = "run"
      /\ called' = [called EXCEPT ![k] = @ + 1]
  BY DEF Run, TaskAt
<1>3. Owes(t)
  BY <1>1, <1>2 DEF FlagsOK, Owes, OwesAs
<1>4. k \in DOMAIN Source /\ k <= main.taken /\ k # main.item /\ called[k] = 0
  BY <1>1, <1>3, SourceItems, SMT DEF ItemOK, Owes, TaskType, Places
<1>5. called'[k] = 1 /\ \A i \in DOMAIN Source : i # k => called'[i] = called[i]
  BY <1>2, <1>4, SMT DEF TasksInv, TaskTypeOK
<1>6. r \in TaskType /\ r.pc = "release" /\ r.started = old.started
      /\ r.terminated = old.terminated /\ r.start = old.start
      /\ r.terminate = old.terminate /\ r.item = k
  BY <1>1, SMT DEF TaskType
<1> HIDE DEF r
<1>7. task'[t] = r /\ \A u \in Tasks : u # t => task'[u] = task[u]
  BY <1>2 DEF TasksInv, TaskTypeOK
<1>8. ~(Owes(t))' /\ \A u \in Tasks : u # t => ((Owes(u))' <=> Owes(u))
  BY <1>2, <1>6, <1>7 DEF Owes, OwesAs, GivenAs, Giving
<1>9. TaskTypeOK'
  <2>1. called' \in [DOMAIN Source -> {0, 1}]
    BY <1>2, <1>4, SMT DEF TasksInv, TaskTypeOK
  <2> QED
    BY <1>2, <1>6, <2>1 DEF TasksInv, TaskTypeOK
<1>10. MainInv'
  <2>1. main.item # 0 => called'[main.item] = 0
    <3>1. main.item # 0 => main.item \in DOMAIN Source
      BY SourceItems, SMT DEF TasksInv, TaskTypeOK, MainType, Places
    <3> QED
      BY <1>4, <1>5, <3>1 DEF TasksInv, MainInv
  <2>2. main.pc = "give" => task'[main.at].started
    BY <1>6, <1>7 DEF TasksInv, MainInv
  <2> QED
    BY <1>2, <2>1, <2>2 DEF TasksInv, MainInv, Ending, DataIsNone
<1>11. ThreadsInv'
  <2> SUFFICES ASSUME NEW u \in Tasks PROVE (FlagsOK(u, task[u]))' /\ (ItemOK(u, task[u]))'
    BY DEF ThreadsInv
  <2>1. CASE u = t
    <3>1. (FlagsOK(t, task[t]))'
      BY <1>1, <1>2, <1>6, <1>7 DEF FlagsOK, GivenAs, Giving, Ending
    <3>2. (ItemOK(t, task[t]))'
      BY <1>2, <1>4, <1>6, <1>7, <1>8 DEF ItemOK, Owes
    <3> QED
      BY <2>1, <3>1, <3>2
  <2>2. CASE u # t
    <3>1. FlagsOK(u, task[u]) /\ ItemOK(u, task[u]) /\ task[u] \in TaskType
      BY DEF TasksInv, ThreadsInv, TaskTypeOK
    <3>2. (FlagsOK(u, task[u]))'
      BY <1>2, <1>7, <2>2, <3>1 DEF FlagsOK, GivenAs, Giving, Ending
    <3>3. Owes(u) => task[u].item # k /\ task[u].item \in DOMAIN Source
      <4>1. Owes(u) => task[u].item # k
        BY <1>3, <2>2 DEF TasksInv, OwedOnce
      <4>2. Owes(u) => task[u].item \in DOMAIN Source
        BY <3>1, SourceItems, SMT DEF ItemOK, Owes, TaskType, Places
      <4> QED
        BY <4>1, <4>2
    <3>4. (ItemOK(u, task[u]))'
      BY <1>2, <1>5, <1>7, <1>8, <2>2, <3>1, <3>3 DEF ItemOK, Owes
    <3> QED
      BY <3>2, <3>4
  <2> QED
    BY <2>1, <2>2
<1>12. OwedOnce'
  BY <1>7, <1>8 DEF TasksInv, OwedOnce
<1>13. Accounted'
  <2> SUFFICES ASSUME NEW i \in DOMAIN Source
               PROVE  /\ i > main.taken => called'[i] = 0
                      /\ i <= main.taken =>
                            \/ Source[i] = None \/ main.item = i \/ called'[i] = 1
                            \/ \E u \in Tasks : (Owes(u))' /\ task'[u].item = i
    BY <1>2 DEF Accounted
  <2>1. CASE i = k
    BY <1>4, <1>5, <2>1, SourceItems, SMT DEF TasksInv, TaskTypeOK, MainType, Places
  <2>2. CASE i # k
    <3>1. \A u \in Tasks : Owes(u) /\ task[u].item = i => (Owes(u))' /\ task'[u].item = i
      BY <1>7, <1>8, <2>2
    <3> QED
      BY <1>5, <2>2, <3>1 DEF TasksInv, Accounted
  <2> QED
    BY <2>1, <2>2
<1>14. JoinedRest'
  BY <1>1, <1>2, <1>6, <1>7 DEF TasksInv, JoinedRest, Ending, Rests
<1> QED
  BY <1>9, <1>10, <1>11, <1>12, <1>13, <1>14 DEF TasksInv

-----------------------------------------------------------------------------
(* The steps of main.                                                      *)

\* main goes on from "m" to "n" without taking or giving an item.
LEMMA MainTurns ==
    ASSUME TasksInv, main' \in MainType, UNCHANGED <<task, called>>,
           main'.taken = main.taken, main'.item = main.item,
           ~(main.pc = "give"), ~(main'.pc = "give"),
           main'.pc \in {"scan", "acquire", "release"} => main.item # 0,
           main'.pc \in {"join", "joining"} => main'.at \in Tasks,
           main'.pc = "returned" => main'.at > thread_limit,
           Ending => Ending',
           Ending' => main.taken = Len(Source) /\ DataIsNone,
           Ending' => \A u \in Tasks : u < main'.at => Rests(task[u])
    PROVE  TasksInv'
<1>1. \A u \in Tasks : (Owes(u))' <=> Owes(u)
  BY DEF Owes, OwesAs, GivenAs, Giving
<1>2. TaskTypeOK' /\ MainInv' /\ JoinedRest'
  BY DEF TasksInv, TaskTypeOK, MainInv, JoinedRest, DataIsNone
<1>3. ThreadsInv'
  BY DEF TasksInv, ThreadsInv, FlagsOK, ItemOK, OwesAs, GivenAs, Giving
<1>4. OwedOnce' /\ Accounted'
  BY <1>1 DEF TasksInv, OwedOnce, Accounted
<1> QED
  BY <1>2, <1>3, <1>4 DEF TasksInv

\* The steps of main that only move it on.
LEMMA MainSteps ==
    ASSUME TasksInv,
           \/ AwaitTask \/ AwaitedTask \/ Join \/ Joined
           \/ NextItem /\ main'.item = main.item
           \/ GetFreeTask /\ main'.pc # "give"
           \/ Terminate /\ main'.pc = "returned"
    PROVE  TasksInv'
<1> USE SourceItems DEF Goto
<1>1. main \in MainType /\ MainInv /\ JoinedRest
  BY DEF TasksInv, TaskTypeOK
<1>2. CASE AwaitTask \/ AwaitedTask
  <2>1. main' \in MainType /\ UNCHANGED <<task, called>> /\ main.pc \in {"acquire", "release"}
        /\ main'.pc \in {"release", "next"} /\ main'.taken = main.taken /\ main'.item = main.item
    BY <1>1, <1>2, SMT DEF AwaitTask, AwaitedTask, MainType
  <2> QED
    BY <1>1, <2>1, MainTurns DEF MainInv, Ending
<1>3. CASE Join
  <2>1. main' \in MainType /\ UNCHANGED <<task, called>> /\ main.pc = "join"
        /\ main'.taken = main.taken /\ main'.item = main.item
        /\ \/ main'.pc = "joining" /\ main'.at = main.at
           \/ main'.pc = "terminate" /\ main'.at = main.at + 1 /\ ~task[main.at].started
    <3>1. main.pc = "join" /\ UNCHANGED <<task, called>> /\ main.at + 1 \in Nat \ {0}
      BY <1>1, <1>3, SMT DEF Join, MainType
    <3>2. CASE task[main.at].started
      BY <1>1, <1>3, <3>1, <3>2 DEF Join, MustWait, MainType
    <3>3. CASE ~task[main.at].started
      BY <1>1, <1>3, <3>1, <3>3, Zenon DEF Join, MustWait, MainType
    <3> QED
      BY <3>2, <3>3
  <2>2. \A u \in Tasks : u < main'.at => Rests(task[u])
    <3>1. ASSUME NEW u \in Tasks, u < main'.at PROVE u < main.at \/ u = main.at
      BY <1>1, <2>1, <3>1, SMT DEF MainType
    <3> QED
      BY <1>1, <2>1, <3>1 DEF JoinedRest, Ending, Rests
  <2> QED
    BY <1>1, <2>1, <2>2, MainTurns DEF MainInv, Ending
<1>4. CASE Joined
  <2>1. main' \in MainType /\ UNCHANGED <<task, called>> /\ main.pc = "joining"
        /\ main'.taken = main.taken /\ main'.item = main.item
        /\ main'.pc = "terminate" /\ main'.at = main.at + 1 /\ task[main.at].terminate
    <3>1. main.at + 1 \in Nat \ {0}
      BY <1>1, SMT DEF MainType
    <3> QED
      BY <1>1, <1>4, <3>1, Zenon DEF Joined, MainType
  <2>2. task[main.at].pc = "done"
    BY <1>1, <2>1 DEF MainInv, TasksInv, ThreadsInv, FlagsOK
  <2>3. \A u \in Tasks : u < main'.at => Rests(task[u])
    <3>1. ASSUME NEW u \in Tasks, u < main'.at PROVE u < main.at \/ u = main.at
      BY <1>1, <2>1, <3>1, SMT DEF MainType
    <3> QED
      BY <1>1, <2>1, <2>2, <3>1 DEF JoinedRest, Ending, Rests
  <2> QED
    BY <1>1, <2>1, <2>3, MainTurns DEF MainInv, Ending
<1>5. CASE NextItem /\ main'.item = main.item
  <2>1. main' \in MainType /\ UNCHANGED <<task, called>> /\ main.pc = "next" /\ main'.at = 1
        /\ main'.taken = main.taken
        /\ \/ main'.pc = "scan" /\ main.item # 0
           \/ main'.pc = "terminate" /\ DataIsNone /\ main.taken = Len(Source)
    <3>1. main.item # main.taken + 1 /\ 1 \in Nat \ {0}
      BY <1>1, SMT DEF MainInv, MainType, Places
    <3>2. CASE ~DataIsNone
      BY <1>1, <1>5, <3>1, <3>2, Zenon DEF NextItem, MainType, DataIsNone, NoItem
    <3>3. CASE DataIsNone
      <4>1. main.taken = Len(Source)
        BY <1>1, <1>5, <3>1, <3>3, SMT DEF NextItem, MainType
      <4> QED
        BY <1>1, <1>5, <3>1, <3>3, <4>1, Zenon DEF NextItem, MainType
    <3> QED
      BY <3>2, <3>3
  <2>2. \A u \in Tasks : ~(u < main'.at)
    BY <2>1, SMT
  <2> QED
    BY <1>1, <1>5, <2>1, <2>2, MainTurns DEF MainInv, Ending
<1>6. CASE GetFreeTask /\ main'.pc # "give"
  <2>1. main' \in MainType /\ UNCHANGED <<task, called>> /\ main.pc = "scan"
        /\ main'.taken = main.taken /\ main'.item = main.item /\ main'.pc \in {"scan", "acquire"}
    BY <1>1, <1>6, SMT DEF GetFreeTask, MainType
  <2> QED
    BY <1>1, <2>1, MainTurns DEF MainInv, Ending
<1>7. CASE Terminate /\ main'.pc = "returned"
  <2>1. main' \in MainType /\ UNCHANGED <<task, called>> /\ main.pc = "terminate"
        /\ main'.taken = main.taken /\ main'.item = main.item
        /\ main'.at = main.at /\ main.at > thread_limit
    BY <1>1, <1>7, SMT DEF Terminate, MainType
  <2> QED
    BY <1>1, <1>7, <2>1, MainTurns DEF MainInv, JoinedRest, Ending
<1> QED
  BY <1>2, <1>3, <1>4, <1>5, <1>6, <1>7

\* main takes an item: nobody has run or holds it yet.
LEMMA TakeKeeps ==
    ASSUME TasksInv, NextItem, main'.item # main.item
    PROVE  TasksInv'
<1> USE SourceItems
<1>1. main \in MainType /\ MainInv /\ called \in [DOMAIN Source -> {0, 1}]
  BY DEF TasksInv, TaskTypeOK
<1>2. main' = [main EXCEPT !.pc = "scan", !.at = 1, !.taken = @ + 1, !.item = main.taken + 1]
      /\ main.pc = "next" /\ UNCHANGED <<task, called>> /\ main.taken # Len(Source) /\ DataIsNone
  BY <1>1, SMT DEF NextItem, MainType
<1>3. main' \in MainType /\ main'.pc = "scan" /\ main'.taken = main.taken + 1
      /\ main'.item = main.taken + 1 /\ main'.item \in DOMAIN Source /\ main'.item # 0
  <2>1. /\ main.taken + 1 \in Places /\ main.taken + 1 # 0 /\ main.taken + 1 \in DOMAIN Source
        /\ 1 \in Nat \ {0}
    BY <1>1, <1>2, SMT DEF MainType, Places
  <2> QED
    BY <1>1, <1>2, <2>1, Zenon DEF MainType
<1>4. called[main'.item] = 0
  <2>1. main'.item > main.taken
    BY <1>1, <1>3, SMT DEF MainType, Places
  <2> QED
    BY <1>3, <2>1 DEF TasksInv, Accounted
<1>5. \A u \in Tasks : (Owes(u))' <=> Owes(u)
  BY <1>2, <1>3 DEF Owes, OwesAs, GivenAs, Giving
<1>6. ThreadsInv'
  <2> SUFFICES ASSUME NEW u \in Tasks PROVE (FlagsOK(u, task[u]))' /\ (ItemOK(u, task[u]))'
    BY DEF ThreadsInv
  <2>1. FlagsOK(u, task[u]) /\ ItemOK(u, task[u]) /\ task[u] \in TaskType
    BY DEF TasksInv, ThreadsInv, TaskTypeOK
  <2>2. (FlagsOK(u, task[u]))'
    BY <1>2, <1>3, <2>1 DEF FlagsOK, GivenAs, Giving, Ending
  <2>3. task[u].item <= main'.taken /\ task[u].item # main'.item
    BY <1>1, <1>3, <2>1, SMT DEF ItemOK, TaskType, MainType, Places
  <2>4. (ItemOK(u, task[u]))'
    BY <1>2, <1>5, <2>1, <2>3 DEF ItemOK, Owes
  <2> QED
    BY <2>2, <2>4
<1>7. Accounted'
  <2> SUFFICES ASSUME NEW i \in DOMAIN Source
               PROVE  /\ i > main'.taken => called[i] = 0
                      /\ i <= main'.taken =>
                            \/ Source[i] = None \/ main'.item = i \/ called[i] = 1
                            \/ \E u \in Tasks : Owes(u) /\ task[u].item = i
    BY <1>2, <1>5 DEF Accounted
  <2>1. CASE i > main'.taken
    BY <1>1, <1>3, <2>1, SMT DEF TasksInv, Accounted, MainType, Places
  <2>2. CASE i = main'.taken
    BY <1>3, <2>2, SMT DEF MainType, Places
  <2>3. CASE i < main'.taken
    <3>1. i <= main.taken /\ i # 0 /\ ~(i > main'.taken)
      BY <1>1, <1>3, <2>3, SMT DEF MainType, Places
    <3>2. main.item = i => Source[i] = None
      BY <1>2, <3>1 DEF DataIsNone, NoItem
    <3> QED
      BY <3>1, <3>2 DEF TasksInv, Accounted
  <2> QED
    BY <1>3, <2>1, <2>2, <2>3, SMT DEF MainType, Places
<1>8. MainInv' /\ JoinedRest' /\ TaskTypeOK'
  BY <1>1, <1>2, <1>3, <1>4, SMT DEF MainInv, JoinedRest, Ending, TasksInv, TaskTypeOK, MainType, Places
<1>9. OwedOnce'
  BY <1>2, <1>5 DEF TasksInv, OwedOnce
<1> QED
  BY <1>6, <1>7, <1>8, <1>9 DEF TasksInv

\* get_free_task: a free thread is kept for the item; it sleeps until it is given one.
LEMMA ChooseKeeps ==
    ASSUME TasksInv, GetFreeTask, main'.pc = "give"
    PROVE  TasksInv'
<1> DEFINE t == main.at
           r == [task[t] EXCEPT !.started = TRUE]
<1>1. main \in MainType /\ MainInv /\ task \in [Tasks -> TaskType]
  BY DEF TasksInv, TaskTypeOK
<1>2. t \in Tasks /\ main.pc = "scan" /\ ~task[t].started /\ UNCHANGED called
      /\ main' = [main EXCEPT !.pc = "give"] /\ task' = [task EXCEPT ![t] = r]
  <2>1. main.pc = "scan" /\ UNCHANGED called
    BY DEF GetFreeTask
  <2>2. ~(t > thread_limit)
    BY <1>1, SMT DEF GetFreeTask, Goto, MainType
  <2>3. t \in Tasks
    BY <1>1, <2>2, SourceItems, SMT DEF MainType
  <2>4. ~task[t].started
    BY <1>1, <2>1, <2>2, SMT DEF GetFreeTask, MainType
  <2> QED
    BY <2>1, <2>2, <2>3, <2>4 DEF GetFreeTask, Goto
<1>3. main' \in MainType /\ main'.pc = "give" /\ main'.at = t
      /\ main'.taken = main.taken /\ main'.item = main.item
  BY <1>1, <1>2, SMT DEF MainType
<1>4. r \in TaskType
  BY <1>1, <1>2, Zenon DEF TaskType
<1>5. r.started /\ r.pc = task[t].pc /\ r.terminated = task[t].terminated
      /\ r.start = task[t].start /\ r.terminate = task[t].terminate /\ r.item = task[t].item
  BY <1>1, <1>2, SMT DEF TaskType
<1> HIDE DEF r
<1>6. task'[t] = r /\ \A u \in Tasks : u # t => task'[u] = task[u]
  BY <1>1, <1>2
<1>7. \A u \in Tasks : ((Owes(u))' <=> Owes(u)) /\ task'[u].item = task[u].item
  BY <1>2, <1>3, <1>5, <1>6 DEF Owes, OwesAs, GivenAs, Giving
<1>8. ThreadsInv'
  <2> SUFFICES ASSUME NEW u \in Tasks PROVE (FlagsOK(u, task[u]))' /\ (ItemOK(u, task[u]))'
    BY DEF ThreadsInv
  <2>1. FlagsOK(u, task[u]) /\ ItemOK(u, task[u])
    BY DEF TasksInv, ThreadsInv
  <2>2. CASE u = t
    BY <1>2, <1>3, <1>5, <1>6, <1>7, <2>1, <2>2 DEF FlagsOK, ItemOK, Owes, OwesAs, GivenAs, Giving, Ending
  <2>3. CASE u # t
    BY <1>2, <1>3, <1>6, <1>7, <2>1, <2>3 DEF FlagsOK, ItemOK, Owes, OwesAs, GivenAs, Giving, Ending
  <2> QED
    BY <2>2, <2>3
<1>9. TaskTypeOK' /\ MainInv' /\ JoinedRest'
  BY <1>1, <1>2, <1>3, <1>4, <1>5, <1>6 DEF TasksInv, TaskTypeOK, MainInv, JoinedRest, Ending
<1>10. OwedOnce' /\ Accounted'
  BY <1>2, <1>3, <1>7 DEF TasksInv, OwedOnce, Accounted
<1> QED
  BY <1>8, <1>9, <1>10 DEF TasksInv

\* The chosen thread gets the item that main holds.
LEMMA GiveKeeps ==
    ASSUME TasksInv, Give
    PROVE  TasksInv'
<1> DEFINE t == main.at
           q == [task[t] EXCEPT !.item = main.item]
           r == [q EXCEPT !.start = TRUE]
<1>1. main \in MainType /\ MainInv /\ task \in [Tasks -> TaskType]
      /\ called \in [DOMAIN Source -> {0, 1}]
  BY DEF TasksInv, TaskTypeOK
<1>2. t \in Tasks /\ main.pc = "give" /\ task[t].started /\ UNCHANGED called
      /\ main' = [main EXCEPT !.pc = "next", !.item = 0] /\ task' = [task EXCEPT ![t] = r]
  BY <1>1 DEF Give, MainInv, NoItem
<1>3. main' \in MainType /\ main'.pc = "next" /\ main'.taken = main.taken /\ main'.item = 0
      /\ main'.at = main.at
  <2>1. 0 \in Places
    BY SourceItems, SMT DEF Places
  <2> QED
    BY <1>1, <1>2, <2>1, Zenon DEF MainType
<1>4. q \in TaskType /\ q.item = main.item /\ q.started = task[t].started
      /\ q.pc = task[t].pc /\ q.terminated = task[t].terminated /\ q.terminate = task[t].terminate
  <2>1. main.item \in Places /\ task[t] \in TaskType
    BY <1>1, <1>2, Zenon DEF MainType
  <2>2. q \in TaskType
    BY <2>1, Zenon DEF TaskType
  <2> QED
    BY <2>1, <2>2, SMT DEF TaskType
<1> HIDE DEF q
<1>5. r \in TaskType
  BY <1>4, Zenon DEF TaskType
<1>6. r.started /\ r.pc = task[t].pc /\ r.terminated = task[t].terminated
      /\ r.terminate = task[t].terminate /\ r.item = main.item
  <2>1. r.started = q.started /\ r.pc = q.pc /\ r.terminated = q.terminated
        /\ r.terminate = q.terminate /\ r.item = q.item
    BY <1>4, SMT DEF TaskType
  <2> QED
    BY <1>2, <1>4, <2>1, Zenon
<1> HIDE DEF r
<1>7. task'[t] = r /\ \A u \in Tasks : u # t => task'[u] = task[u]
  BY <1>1, <1>2
<1>8. /\ task[t].pc \in {"wait", "terminated?"} /\ ~Owes(t) /\ (Owes(t))'
      /\ \A u \in Tasks : u # t => ((Owes(u))' <=> Owes(u)) /\ task'[u].item = task[u].item
  <2>1. ~GivenAs(t, task[t]) /\ FlagsOK(t, task[t]) /\ ~Ending
    BY <1>2 DEF GivenAs, Giving, TasksInv, ThreadsInv, Ending
  <2>2. task[t].pc \in {"wait", "terminated?"} /\ ~Owes(t)
    BY <2>1 DEF FlagsOK, Owes, OwesAs
  <2> QED
    BY <1>2, <1>3, <1>6, <1>7, <2>2 DEF Owes, OwesAs, GivenAs, Giving
<1>9. main.item # 0 /\ main.item <= main.taken /\ called[main.item] = 0
  BY <1>1, <1>2 DEF MainInv
<1>10. ThreadsInv'
  <2> SUFFICES ASSUME NEW u \in Tasks PROVE (FlagsOK(u, task[u]))' /\ (ItemOK(u, task[u]))'
    BY DEF ThreadsInv
  <2>1. FlagsOK(u, task[u]) /\ ItemOK(u, task[u])
    BY DEF TasksInv, ThreadsInv
  <2>2. CASE u = t
    <3>1. (FlagsOK(t, task[t]))'
      BY <1>2, <1>3, <1>6, <1>7, <1>8, <2>1, <2>2 DEF FlagsOK, GivenAs, Giving, Ending
    <3>2. (ItemOK(t, task[t]))'
      BY <1>2, <1>3, <1>6, <1>7, <1>9 DEF ItemOK
    <3> QED
      BY <1>3, <2>2, <3>1, <3>2
  <2>3. CASE u # t
    <3>1. task'[u] = task[u] /\ ~Giving(u) /\ ~(Giving(u))'
      BY <1>2, <1>3, <1>7, <2>3 DEF Giving
    <3>2. (FlagsOK(u, task[u]))'
      BY <1>2, <1>3, <2>1, <3>1 DEF FlagsOK, GivenAs, Ending
    <3>3. (OwesAs(u, task[u]))' => OwesAs(u, task[u])
      BY <3>1 DEF OwesAs, GivenAs
    <3>4. (ItemOK(u, task[u]))'
      BY <1>2, <1>3, <2>1, <3>1, <3>3 DEF ItemOK
    <3> QED
      BY <3>2, <3>4
  <2> QED
    BY <2>2, <2>3
<1>11. TaskTypeOK' /\ MainInv' /\ JoinedRest'
  BY <1>1, <1>2, <1>3, <1>5, SMT
     DEF TasksInv, TaskTypeOK, MainInv, JoinedRest, Ending, MainType, Places
<1>12. OwedOnce'
  <2>1. \A u \in Tasks : u # t /\ Owes(u) => task[u].item # main.item
    BY DEF TasksInv, ThreadsInv, ItemOK, Owes
  <2> QED
    BY <1>6, <1>7, <1>8, <2>1 DEF TasksInv, OwedOnce
<1>13. Accounted'
  <2> SUFFICES ASSUME NEW i \in DOMAIN Source
               PROVE  /\ i > main.taken => called[i] = 0
                      /\ i <= main.taken =>
                            \/ Source[i] = None \/ main'.item = i \/ called[i] = 1
                            \/ \E u \in Tasks : (Owes(u))' /\ task'[u].item = i
    BY <1>2, <1>3 DEF Accounted
  <2>1. CASE main.item = i
    BY <1>2, <1>6, <1>7, <1>8, <1>9, <2>1 DEF TasksInv, Accounted
  <2>2. CASE main.item # i
    <3>1. ASSUME NEW u \in Tasks, Owes(u), task[u].item = i
          PROVE  (Owes(u))' /\ task'[u].item = i
      BY <1>8, <3>1
    <3> QED
      BY <2>2, <3>1 DEF TasksInv, Accounted
  <2> QED
    BY <2>1, <2>2
<1> QED
  BY <1>10, <1>11, <1>12, <1>13 DEF TasksInv

\* A thread is told to end: it may still have an item to run.
LEMMA TerminateKeeps ==
    ASSUME TasksInv, Terminate, main'.pc # "returned"
    PROVE  TasksInv'
<1> DEFINE t == main.at
           q == [task[t] EXCEPT !.terminated = TRUE]
           r == [q EXCEPT !.start = TRUE]
<1>1. main \in MainType /\ MainInv /\ task \in [Tasks -> TaskType]
  BY DEF TasksInv, TaskTypeOK
<1>2. main.pc = "terminate" /\ UNCHANGED called /\ ~(t > thread_limit)
      /\ main' = [main EXCEPT !.pc = "join"] /\ task' = [task EXCEPT ![t] = r]
  <2>1. ~(t > thread_limit)
    BY <1>1, SMT DEF Terminate, Goto, MainType
  <2> QED
    BY <2>1 DEF Terminate, Goto
<1>3. t \in Tasks
  BY <1>1, <1>2, SourceItems, SMT DEF MainType
<1>4. main' \in MainType /\ main'.pc = "join" /\ main'.at = t
      /\ main'.taken = main.taken /\ main'.item = main.item
  BY <1>1, <1>2, SMT DEF MainType
<1>5. q \in TaskType
  BY <1>1, <1>3, Zenon DEF TaskType
<1>6. q.terminated /\ q.pc = task[t].pc /\ q.started = task[t].started
      /\ q.terminate = task[t].terminate /\ q.item = task[t].item
  BY <1>1, <1>3, SMT DEF TaskType
<1> HIDE DEF q
<1>7. r \in TaskType
  BY <1>5, Zenon DEF TaskType
<1>8. r.terminated /\ r.pc = task[t].pc /\ r.started = task[t].started
      /\ r.terminate = task[t].terminate /\ r.item = task[t].item
  BY <1>5, <1>6, SMT DEF TaskType
<1> HIDE DEF r
<1>9. task'[t] = r /\ \A u \in Tasks : u # t => task'[u] = task[u]
  BY <1>1, <1>2, <1>3
<1>10. \A u \in Tasks : /\ ((Owes(u))' <=> Owes(u)) /\ task'[u].item = task[u].item
                        /\ Rests(task[u]) => Rests(task'[u])
  BY <1>2, <1>4, <1>8, <1>9 DEF Owes, OwesAs, GivenAs, Giving, Rests
<1>11. ThreadsInv'
  <2> SUFFICES ASSUME NEW u \in Tasks PROVE (FlagsOK(u, task[u]))' /\ (ItemOK(u, task[u]))'
    BY DEF ThreadsInv
  <2>1. FlagsOK(u, task[u]) /\ ItemOK(u, task[u])
    BY DEF TasksInv, ThreadsInv
  <2>2. (ItemOK(u, task[u]))'
    BY <1>2, <1>4, <1>10, <2>1 DEF ItemOK, Owes
  <2>3. CASE u = t
    BY <1>2, <1>4, <1>8, <1>9, <2>1, <2>2, <2>3 DEF FlagsOK, GivenAs, Giving, Ending
  <2>4. CASE u # t
    BY <1>2, <1>4, <1>9, <2>1, <2>2, <2>4 DEF FlagsOK, GivenAs, Giving, Ending
  <2> QED
    BY <2>3, <2>4
<1>12. TaskTypeOK' /\ MainInv' /\ JoinedRest'
  BY <1>1, <1>2, <1>3, <1>4, <1>7, <1>10
     DEF TasksInv, TaskTypeOK, MainInv, JoinedRest, Ending, DataIsNone
<1>13. OwedOnce' /\ Accounted'
  BY <1>2, <1>4, <1>10 DEF TasksInv, OwedOnce, Accounted
<1> QED
  BY <1>11, <1>12, <1>13 DEF TasksInv

-----------------------------------------------------------------------------
LEMMA TasksInvKept == TasksInv /\ [TaskNext]_taskVars => TasksInv'
<1> SUFFICES ASSUME TasksInv, [TaskNext]_taskVars
             PROVE  TasksInv'
  OBVIOUS
<1>1. CASE Main
  BY <1>1, MainSteps, TakeKeeps, ChooseKeeps, GiveKeeps, TerminateKeeps DEF Main
<1>2. ASSUME NEW t \in Tasks, Worker(t)
      PROVE  TasksInv'
  BY <1>2, WorkerTurns, RunKeeps DEF Worker
<1>3. CASE UNCHANGED taskVars
  BY <1>3 DEF taskVars, TasksInv, TaskTypeOK, MainInv, ThreadsInv, FlagsOK, ItemOK, OwedOnce,
              Accounted, JoinedRest, Rests, Owes, OwesAs, GivenAs, Giving, Ending, DataIsNone
<1> QED
  BY <1>1, <1>2, <1>3 DEF TaskNext

\* map_task: no item is run twice; when it returns no thread runs or will run an item,
\* and only the last item each thread was given may not have been run.
THEOREM ReturnsAtRest == TaskSpec => []NothingRunsAfterReturn
<1> QED
  BY InitHolds, InvImplies, TasksInvKept, PTL DEF TaskSpec
=============================================================================

----------------------------- MODULE TaskRunner -----------------------------
(***************************************************************************)
(* scripts/import/task_runner.py: map_task hands the items of a source to  *)
(* a pool of threads, and terminates the threads after the last item.      *)
(* Each step is one access to the state that map_task and a thread share.  *)
(***************************************************************************)
EXTENDS Integers, Sequences

CONSTANTS
    Source,       \* the items, in order; None is a legal item of any iterable
    None,
    thread_limit

ASSUME TaskRunnerAssumption ==
    thread_limit \in Nat \ {0} /\ Source \in Seq(Int \cup {None})

VARIABLES
    main,         \* map_task: its control, the items taken, data, the task looked at
    task,         \* the pool
    semaphore,    \* of BoundedSemaphore(thread_limit)
    called        \* for each item, how often func was called with it

taskVars == <<main, task, semaphore, called>>

Tasks == 1 .. thread_limit
NoItem == 0       \* main.item, while data is None because nothing was taken

TaskInit ==
    /\ main = [pc |-> "next", taken |-> 0, item |-> NoItem, at |-> 1]
    /\ task = [t \in Tasks |->
                 [pc |-> "wait", started |-> FALSE, terminated |-> FALSE,
                  start |-> FALSE, terminate |-> FALSE, item |-> NoItem]]
    /\ semaphore = thread_limit
    /\ called = [i \in DOMAIN Source |-> 0]

-----------------------------------------------------------------------------
(* map_task, on the thread that called it.                                 *)

Goto(label) == main' = [main EXCEPT !.pc = label]
DataIsNone == main.item = NoItem \/ Source[main.item] = None

NextItem ==
    /\ main.pc = "next"
    /\ main' = IF ~DataIsNone THEN [main EXCEPT !.pc = "scan", !.at = 1]
               ELSE IF main.taken = Len(Source) THEN [main EXCEPT !.pc = "terminate", !.at = 1]
               ELSE [main EXCEPT !.pc = "scan", !.at = 1, !.taken = @ + 1, !.item = main.taken + 1]
    /\ UNCHANGED <<task, semaphore, called>>

\* get_free_task: its lock keeps other callers out, not the threads.
GetFreeTask ==
    /\ main.pc = "scan"
    /\ IF main.at > thread_limit THEN Goto("acquire") /\ UNCHANGED task
       ELSE IF task[main.at].started
       THEN main' = [main EXCEPT !.at = @ + 1] /\ UNCHANGED task
       ELSE Goto("give") /\ task' = [task EXCEPT ![main.at].started = TRUE]
    /\ UNCHANGED <<semaphore, called>>

Give ==
    /\ main.pc = "give"
    /\ task' = [task EXCEPT ![main.at].item = main.item, ![main.at].start = TRUE]
    /\ main' = [main EXCEPT !.pc = "next", !.item = NoItem]
    /\ UNCHANGED <<semaphore, called>>

AwaitTask ==
    /\ main.pc = "acquire" /\ semaphore > 0
    /\ semaphore' = semaphore - 1
    /\ Goto("release")
    /\ UNCHANGED <<task, called>>

AwaitedTask ==
    /\ main.pc = "release"
    /\ semaphore' = semaphore + 1
    /\ Goto("next")
    /\ UNCHANGED <<task, called>>

\* terminate_and_join of one task after another.
Terminate ==
    /\ main.pc = "terminate"
    /\ IF main.at > thread_limit THEN Goto("returned") /\ UNCHANGED task
       ELSE /\ task' = [task EXCEPT ![main.at].terminated = TRUE, ![main.at].start = TRUE]
            /\ Goto("join")
    /\ UNCHANGED <<semaphore, called>>

\* The mutated form of MustWait: the threads are told to end and not waited for.
NeverWaits(t) == FALSE
MustWait(t) == task[t].started

Join ==
    /\ main.pc = "join"
    /\ main' = IF MustWait(main.at) THEN [main EXCEPT !.pc = "joining"]
               ELSE [main EXCEPT !.pc = "terminate", !.at = @ + 1]
    /\ UNCHANGED <<task, semaphore, called>>

Joined ==
    /\ main.pc = "joining" /\ task[main.at].terminate
    /\ main' = [main EXCEPT !.pc = "terminate", !.at = @ + 1]
    /\ UNCHANGED <<task, semaphore, called>>

-----------------------------------------------------------------------------
(* task.run, on a thread of the pool.                                      *)

TaskAt(t, from, to) ==
    /\ task[t].pc = from
    /\ task' = [task EXCEPT ![t].pc = to]

Woken(t) ==
    /\ task[t].start
    /\ TaskAt(t, "wait", "clear")
    /\ UNCHANGED <<main, semaphore, called>>

ClearStart(t) ==
    /\ task[t].pc = "clear"
    /\ task' = [task EXCEPT ![t].pc = "acquire", ![t].start = FALSE]
    /\ UNCHANGED <<main, semaphore, called>>

Acquire(t) ==
    /\ semaphore > 0
    /\ TaskAt(t, "acquire", "started?")
    /\ semaphore' = semaphore - 1
    /\ UNCHANGED <<main, called>>

\* A thread that was woken to end keeps what it acquired.
IsStarted(t) ==
    /\ task[t].pc = "started?"
    /\ task' = IF task[t].started
               THEN [task EXCEPT ![t].pc = "run", ![t].terminate = FALSE]
               ELSE [task EXCEPT ![t].pc = "terminated?"]
    /\ UNCHANGED <<main, semaphore, called>>

\* func returns or raises: an exception is printed.
Run(t) ==
    /\ TaskAt(t, "run", "release")
    /\ called' = [called EXCEPT ![task[t].item] = @ + 1]
    /\ UNCHANGED <<main, semaphore>>

Release(t) ==
    /\ TaskAt(t, "release", "free")
    /\ semaphore' = semaphore + 1
    /\ UNCHANGED <<main, called>>

\* The mutated form of Freed: the flag is left, so that the pool drains.
StaysStarted(t) == [task EXCEPT ![t].pc = "terminated?"]
Freed(t) == [task EXCEPT ![t].pc = "terminated?", ![t].started = FALSE]

Free(t) ==
    /\ task[t].pc = "free"
    /\ task' = Freed(t)
    /\ UNCHANGED <<main, semaphore, called>>

IsTerminated(t) ==
    /\ task[t].pc = "terminated?"
    /\ task' = IF task[t].terminated
               THEN [task EXCEPT ![t].pc = "done", ![t].terminate = TRUE]
               ELSE [task EXCEPT ![t].pc = "wait"]
    /\ UNCHANGED <<main, semaphore, called>>

-----------------------------------------------------------------------------
Main ==
    \/ NextItem \/ GetFreeTask \/ Give \/ AwaitTask \/ AwaitedTask
    \/ Terminate \/ Join \/ Joined
Worker(t) ==
    \/ Woken(t) \/ ClearStart(t) \/ Acquire(t) \/ IsStarted(t) \/ Run(t)
    \/ Release(t) \/ Free(t) \/ IsTerminated(t)

TaskNext == Main \/ \E t \in Tasks : Worker(t)

\* Threads are scheduled fairly.
TaskFairness == WF_taskVars(Main) /\ \A t \in Tasks : WF_taskVars(Worker(t))

TaskSpec == TaskInit /\ [][TaskNext]_taskVars /\ TaskFairness
-----------------------------------------------------------------------------
\* "The function will block until all of the tasks are completed": when map_task has
\* returned, func has been called with every item.
AllCompleted == main.pc = "returned" => \A i \in DOMAIN Source : called[i] = 1

\* What does hold of it: no item is run twice, nothing is being run, or will be, once
\* map_task has returned, and only the last item each thread was given can be missing.
NothingRunsAfterReturn ==
    /\ \A i \in DOMAIN Source : called[i] <= 1
    /\ main.pc = "returned" =>
         /\ \A t \in Tasks : task[t].pc # "run" /\ ~(task[t].started /\ task[t].pc # "done")
         /\ \A i \in DOMAIN Source :
               called[i] = 0 => Source[i] = None \/ \E t \in Tasks : task[t].item = i

\* map_task returns: no order of the threads' accesses to the flags, the events and the
\* semaphore leaves it waiting for ever.
MapTaskReturns == <>(main.pc = "returned")
=============================================================================

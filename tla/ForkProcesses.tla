---------------------------- MODULE ForkProcesses ----------------------------
(***************************************************************************)
(* tornado.process.fork_processes: the master forks a child for each task  *)
(* id and restarts those that fail.  A child runs a server of its own; all *)
(* the master sees of it is how it ends.                                   *)
(***************************************************************************)
EXTENDS Integers, Sequences

CONSTANTS
    num_processes,
    max_restarts

VARIABLES
    master,     \* its phase, the next id to fork, the restarts, the map of children
    process     \* the processes forked so far: their task id and how they are

processVars == <<master, process>>

TaskIds == 0 .. num_processes - 1
Pids == DOMAIN process

ForkInit ==
    /\ master = [phase |-> "forking", next |-> 0, restarts |-> 0, children |-> {}]
    /\ process = <<>>

\* The mutated form of ChildId: a restarted child is numbered like a new one.
NextNumber(id) == master.restarts % num_processes
ChildId(id) == id
\* start_child, in the master; in the child fork_processes returns the id.
StartChild(m, id) ==
    /\ process' = Append(process, [id |-> id, state |-> "running"])
    /\ master' = [m EXCEPT !.children = @ \cup {Len(process) + 1}]

Fork ==
    /\ master.phase = "forking"
    /\ IF master.next = num_processes
       THEN master' = [master EXCEPT !.phase = "waiting"] /\ UNCHANGED process
       ELSE StartChild([master EXCEPT !.next = @ + 1], master.next)

Ends(pid) ==
    /\ process[pid].state = "running"
    /\ \E how \in {"clean", "failed"} : process' = [process EXCEPT ![pid].state = how]
    /\ UNCHANGED master

\* os.wait returns a child that has ended: one that failed, by a signal or its exit
\* status, is forked again with its id, until there have been too many of them.
Wait(pid) ==
    LET m == [master EXCEPT !.children = @ \ {pid}]
        reaped == [process EXCEPT ![pid].state = "reaped"]
    IN  /\ master.phase = "waiting" /\ pid \in master.children
        /\ \/ /\ process[pid].state = "clean"
              /\ master' = [m EXCEPT !.phase = IF m.children = {} THEN "exited" ELSE @]
              /\ process' = reaped
           \/ /\ process[pid].state = "failed" /\ master.restarts < max_restarts
              /\ master' = [m EXCEPT !.restarts = @ + 1, !.children = @ \cup {Len(process) + 1}]
              /\ process' = Append(reaped, [id |-> ChildId(process[pid].id), state |-> "running"])
           \/ /\ process[pid].state = "failed" /\ master.restarts = max_restarts
              /\ master' = [m EXCEPT !.restarts = @ + 1, !.phase = "gaveUp"]
              /\ process' = reaped

ForkNext == Fork \/ \E pid \in Pids : Ends(pid) \/ Wait(pid)
ForkSpec == ForkInit /\ [][ForkNext]_processVars
-----------------------------------------------------------------------------
Unreaped(id) == {pid \in Pids : process[pid].id = id /\ process[pid].state # "reaped"}

\* At most one process has a task id at a time, however ends and restarts interleave;
\* the master exits only when nothing of it runs, and it gives up only after
\* max_restarts failures, leaving at most the other ids behind.
TasksAttended ==
    /\ \A id \in TaskIds : \A p, q \in Unreaped(id) : p = q
    /\ \A pid \in Pids : process[pid].state # "reaped" => pid \in master.children
    /\ master.phase = "exited" => \A pid \in Pids : process[pid].state = "reaped"
    /\ master.phase = "gaveUp" => Len(process) = num_processes + max_restarts
=============================================================================

------------------------------ MODULE GenRunner ------------------------------
(***************************************************************************)
(* tornado.gen: the Runner that drives one generator of gen.engine through *)
(* the callbacks of the asynchronous operations it waits for.              *)
(*                                                                         *)
(* The generator is any program: it yields whatever it likes.  A callback  *)
(* may be called by the IOLoop while the runner is suspended, or, while it *)
(* runs, by the generator and by the function a Task starts.  A list with  *)
(* something in it that is no yield point is left out: the assertion in    *)
(* Multi leaves run, past the generator.                                   *)
(***************************************************************************)
EXTENDS Integers, Sequences, FiniteSets

CONSTANTS
    Keys,           \* the keys of gen.Callback and gen.Wait
    MaxYields,      \* bound: what the generator yields, a Multi counting as its children
    MaxDuplicates   \* bound: calls of a callback after its first

VARIABLES
    runner,    \* the Runner
    ops,       \* the callbacks handed out, in order: key and calls
    waits      \* the results that were returned: key, callback, the key's last callback

genVars == <<runner, ops, waits>>

\* What may be yielded: a Callback, a Wait, a Task, or two of them in a Multi, of which a
\* WaitAll is the one of Waits alone.  A Task makes its key when it starts.
Children == [what : {"callback", "wait"}, key : Keys] \cup {[what |-> "task", key |-> 0]}
YieldPoints == {<<c>> : c \in Children} \cup {<<c, d>> : c, d \in Children}
\* A yield point: the children that are not started yet, and the keys that those which
\* are wait for.
Point(rest, keys) == [rest |-> rest, keys |-> keys]

GenInit ==
    /\ runner = [phase |-> "top", point |-> Point(<<>>, <<>>), pending |-> {},
                 results |-> [k \in {} |-> 0], exc |-> FALSE, hadException |-> FALSE,
                 leaked |-> FALSE, yields |-> 0]
    /\ ops = <<>>
    /\ waits = {}

running == runner.phase \in {"top", "body", "start", "task"}
KeysOf(point) == {point.keys[i] : i \in DOMAIN point.keys}
LastCallback(k) == CHOOSE n \in DOMAIN ops : ops[n].key = k /\ \A m \in n + 1 .. Len(ops) : ops[m].key # k

-----------------------------------------------------------------------------
(* run                                                                     *)

Ready(k) == k \in runner.pending /\ k \in DOMAIN runner.results
\* is_ready asks for one key after the other, up to the first that is not ready.
AsksUnknown(keys) ==
    \E i \in DOMAIN keys : keys[i] \notin runner.pending /\ \A j \in 1 .. i - 1 : Ready(keys[j])

Popped(r, keys) ==
    [r EXCEPT !.pending = @ \ keys, !.results = [k \in DOMAIN @ \ keys |-> @[k]]]

\* The head of the loop: an exception goes into the generator at once; else it is
\* resumed when the yield point is ready, as it is when it waits for no key.
Resume ==
    LET keys == runner.point.keys
        set == KeysOf(runner.point)
        results == {[key |-> k, op |-> runner.results[k], last |-> LastCallback(k)] : k \in set}
    IN  /\ runner.phase = "top"
        /\ \/ /\ runner.exc
              /\ runner' = [runner EXCEPT !.phase = "body"]
              /\ UNCHANGED waits
           \/ /\ ~runner.exc
              /\ CASE AsksUnknown(keys) ->
                        runner' = [runner EXCEPT !.exc = TRUE, !.phase = "body"] /\ UNCHANGED waits
                   [] ~AsksUnknown(keys) /\ \E k \in set : ~Ready(k) ->
                        runner' = [runner EXCEPT !.phase = "suspended"] /\ UNCHANGED waits
                   [] OTHER ->        \* a key that is listed twice is missing at its second pop
                        /\ runner' = [Popped(runner, set) EXCEPT
                                        !.phase = "body", !.exc = Cardinality(set) < Len(keys)]
                        /\ waits' = IF Cardinality(set) < Len(keys) THEN waits
                                    ELSE waits \cup results
        /\ UNCHANGED ops

\* The generator runs, with the exception that was thrown into it if there was one.
Thrown(r) == [r EXCEPT !.exc = FALSE, !.hadException = @ \/ runner.exc]

Yield(children) ==
    /\ runner.phase = "body" /\ runner.yields + Len(children) <= MaxYields
    /\ runner' = [Thrown(runner) EXCEPT !.phase = "start", !.point = Point(children, <<>>),
                                        !.yields = @ + Len(children)]
    /\ UNCHANGED <<ops, waits>>

\* Anything that is no yield point comes back as an exception.
YieldUnknown ==
    /\ runner.phase = "body" /\ runner.yields < MaxYields
    /\ runner' = [Thrown(runner) EXCEPT !.phase = "top", !.exc = TRUE, !.yields = @ + 1]
    /\ UNCHANGED <<ops, waits>>

\* The generator returns, which is an error while callbacks are pending, or raises.
Finish ==
    /\ runner.phase = "body"
    /\ \/ runner' = [Thrown(runner) EXCEPT !.phase = "finished"]
       \/ LET r == Thrown(runner)
          IN  runner' = [r EXCEPT !.phase = "finished", !.leaked = r.pending # {} /\ ~r.hadException]
    /\ UNCHANGED <<ops, waits>>

\* start, of one child after the other: a Callback registers its key, unless it is
\* pending; a Task registers a key of its own and calls its function.  Behind a child
\* that raised none is started.
Started(r) == [r EXCEPT !.phase = IF r.point.rest = <<>> THEN "top" ELSE "start"]
Start ==
    LET child == Head(runner.point.rest)
        key == IF child.what = "task" THEN -(Len(ops) + 1) ELSE child.key
        asked == IF child.what = "callback" THEN <<>> ELSE <<key>>
        next == [runner EXCEPT !.point = Point(Tail(@.rest), @.keys \o asked)]
        registered == [next EXCEPT !.pending = @ \cup {key}]
    IN  /\ runner.phase = "start"
        /\ IF child.what = "wait" THEN runner' = Started(next) /\ UNCHANGED ops
           ELSE IF key \in runner.pending
           THEN runner' = [next EXCEPT !.phase = "top", !.exc = TRUE] /\ UNCHANGED ops
           ELSE /\ ops' = Append(ops, [key |-> key, calls |-> 0])
                /\ runner' = IF child.what = "task" THEN [registered EXCEPT !.phase = "task"]
                             ELSE Started(registered)
        /\ UNCHANGED waits

TaskReturns ==
    /\ runner.phase = "task"
    /\ \/ runner' = Started(runner)
       \/ runner' = [runner EXCEPT !.phase = "top", !.exc = TRUE]
    /\ UNCHANGED <<ops, waits>>

-----------------------------------------------------------------------------
\* The mutated form of Run: what arrives waits for the generator to look.
NotResumed(r) == r
Run(r) == IF r.phase = "suspended" THEN [r EXCEPT !.phase = "top"] ELSE r

\* The callback number n is called: set_result, which runs the generator unless it is
\* running already or has finished.
Call(n) ==
    /\ ops[n].calls <= MaxDuplicates
    /\ ops' = [ops EXCEPT ![n].calls = @ + 1]
    /\ LET k == ops[n].key
       IN  runner' = Run([runner EXCEPT !.results =
                        [j \in DOMAIN @ \cup {k} |-> IF j = k THEN n ELSE @[j]]])
    /\ UNCHANGED waits

\* An operation raises under the generator's stack context: handle_exception.
OperationRaises ==
    /\ runner.phase = "suspended"
    /\ runner' = Run([runner EXCEPT !.exc = TRUE])
    /\ UNCHANGED <<ops, waits>>

GenNext ==
    \/ Resume \/ YieldUnknown \/ Finish \/ Start \/ TaskReturns \/ OperationRaises
    \/ \E children \in YieldPoints : Yield(children)
    \/ \E n \in DOMAIN ops : Call(n)

GenSpec == GenInit /\ [][GenNext]_genVars
-----------------------------------------------------------------------------
\* The generator is suspended only while a callback that it waits for has not been
\* called: neither a call before the Wait, nor one from within the function that was
\* given the callback, nor an exception is lost.  And a result comes from the callback
\* that was registered last with its key; only where a callback of the key is called
\* again, a wait may get an old result, and leave its own to the wait after it.
NeverLeftWaiting ==
    runner.phase = "suspended" =>
        ~runner.exc /\ \E k \in KeysOf(runner.point) : k \in runner.pending /\ ops[LastCallback(k)].calls = 0
CalledAgain(k) == \E n \in DOMAIN ops : ops[n].key = k /\ ops[n].calls > 1
ResultsFromTheirCallback ==
    \A w \in waits : w.op = w.last \/ (w.key \in Keys /\ CalledAgain(w.key))
WaitsGetTheirResults == NeverLeftWaiting /\ ResultsFromTheirCallback
=============================================================================

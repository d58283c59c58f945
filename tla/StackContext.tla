---------------------------- MODULE StackContext ----------------------------
(***************************************************************************)
(* tornado.stack_context: the contexts of one thread, which wrap captures  *)
(* with a callback and restores around its call, wherever that happens.    *)
(*                                                                         *)
(* The program that uses it is any: it enters and leaves contexts, wraps   *)
(* and calls callbacks, from within each other too, deactivates contexts   *)
(* and raises exceptions.                                                  *)
(***************************************************************************)
EXTENDS Integers, Sequences, SequencesExt

CONSTANTS
    MaxContexts,    \* bound: contexts entered, each with a handler of its own
    MaxWrapped,     \* bound: callbacks wrapped
    MaxDepth        \* bound: nested with-blocks and calls

VARIABLES
    contexts,    \* _state.contexts: the handlers, outermost first
    active,      \* active_cell of each context entered so far
    stack,       \* the with-blocks and the calls of wrapped callbacks
    wrapped,     \* the contexts captured by each callback
    heard        \* the last exception raised in a callback: the handlers, of the contexts
                 \* active at its call, that it went through, and those it was captured with

ctxVars == <<contexts, active, stack, wrapped, heard>>

\* A frame remembers old_contexts; a call, how many with-blocks it opened.
Frame(kind, opened) == [kind |-> kind, opened |-> opened, old |-> contexts]
NoException == [by |-> <<>>, due |-> <<>>]

ContextInit ==
    /\ contexts = <<>> /\ active = <<>> /\ stack = <<>> /\ wrapped = <<>>
    /\ heard = NoException

\* `with StackContext(...)` or `with ExceptionStackContext(...)`.
EnterContext ==
    /\ Len(active) < MaxContexts /\ Len(stack) < MaxDepth
    /\ active' = Append(active, TRUE)
    /\ contexts' = Append(contexts, Len(active'))
    /\ stack' = Append(stack, Frame("with", <<Len(active')>>))
    /\ UNCHANGED <<wrapped, heard>>

EnterNull ==
    /\ Len(stack) < MaxDepth
    /\ contexts' = <<>>
    /\ stack' = Append(stack, Frame("with", <<>>))
    /\ UNCHANGED <<active, wrapped, heard>>

\* The end of a with-block, or of a callback.
Leave ==
    /\ stack # <<>>
    /\ contexts' = Last(stack).old
    /\ stack' = Front(stack)
    /\ UNCHANGED <<active, wrapped, heard>>

Deactivate(c) ==
    /\ active[c]
    /\ active' = [active EXCEPT ![c] = FALSE]
    /\ UNCHANGED <<contexts, stack, wrapped, heard>>

Wrap ==
    /\ Len(wrapped) < MaxWrapped
    /\ wrapped' = Append(wrapped, contexts)
    /\ UNCHANGED <<contexts, active, stack, heard>>

-----------------------------------------------------------------------------
(* The call of a wrapped callback.                                         *)

ActiveIn(seq) == SelectSeq(seq, LAMBDA c : active[c])
\* The mutated form of StartOver: contexts are compared by their number.
DeeperOnly(captured) == Len(contexts) > Len(captured)
StartOver(captured) == ~IsPrefix(contexts, captured)

\* The contexts entered around the callback: those that it was wrapped in and that the
\* caller is not in already; in a stack that is not the caller's, all of them.
NewContexts(captured) ==
    ActiveIn(IF StartOver(captured) THEN captured
             ELSE SubSeq(captured, Len(contexts) + 1, Len(captured)))

\* A callback wrapped outside of any context runs in those of its caller.
CallWrapped(captured) ==
    LET new == IF captured = <<>> THEN <<>> ELSE NewContexts(captured)
    IN  /\ Len(stack) < MaxDepth
        /\ contexts' = (IF captured # <<>> /\ StartOver(captured) THEN <<>> ELSE contexts) \o new
        /\ stack' = Append(stack, [kind |-> "call", opened |-> new, old |-> contexts,
                                   captured |-> captured, live |-> active])
        /\ UNCHANGED <<active, wrapped, heard>>

\* An exception goes through the with-blocks, innermost first, those around a callback
\* in _nested among them, up to a handler that consumes it.
Handlers(n) ==
    FoldLeft(LAMBDA acc, f : acc \o Reverse(f.opened), <<>>, Reverse(SubSeq(stack, n, Len(stack))))

Raise ==
    /\ stack # <<>>
    /\ \E n \in DOMAIN stack : \E consumer \in 0 .. Len(stack[n].opened) :
          /\ consumer = 0 => n = 1
          /\ heard' = LET f == Last(stack)
                         all == Handlers(n)
                         by == IF consumer = 0 THEN all ELSE SubSeq(all, 1, Len(all) - consumer + 1)
                     IN  IF f.kind = "with" THEN NoException
                         ELSE [by |-> SelectSeq(by, LAMBDA c : f.live[c]),
                               due |-> Reverse(SelectSeq(f.captured, LAMBDA c : f.live[c]))]
          /\ stack' = SubSeq(stack, 1, n - 1)
          /\ contexts' = stack[n].old
    /\ UNCHANGED <<active, wrapped>>

ContextNext ==
    \/ EnterContext \/ EnterNull \/ Leave \/ Wrap \/ Raise
    \/ \E c \in DOMAIN active : Deactivate(c)
    \/ \E w \in DOMAIN wrapped : CallWrapped(wrapped[w])

ContextSpec == ContextInit /\ [][ContextNext]_ctxVars
-----------------------------------------------------------------------------
\* An exception that leaves a wrapped callback goes to the contexts that were captured
\* with it and not deactivated before its call, innermost first and before any other
\* active one, whatever contexts the caller was in and however the calls are nested.
ExceptionsGoHome ==
    IsPrefix(heard.by, heard.due) \/ IsPrefix(heard.due, heard.by)
=============================================================================

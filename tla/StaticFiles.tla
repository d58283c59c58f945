---------------------------- MODULE StaticFiles -----------------------------
(***************************************************************************)
(* tornado.web.StaticFileHandler and a browser that keeps one copy, while  *)
(* the file is edited.  The handler reads the file system several times in *)
(* one request: exists, stat, open and read.                               *)
(***************************************************************************)
EXTENDS Integers, Sequences

CONSTANTS
    DstShift,    \* what mktime adds to a date of the summer half-year: 0 where the clocks
                 \* are not changed
    MaxClock,    \* bound: seconds
    MaxEdits     \* bound: contents of the file

VARIABLES
    file,        \* its content, numbered in the order of writing, and its mtime
    written,     \* of each content: the second in which it was written
    clock,
    copy,        \* the browser's copy: content and Last-Modified
    get,         \* the request: where the handler is, what it sent, and modified
    answer       \* the last answer: its status, and the content that was in the file

staticVars == <<file, written, clock, copy, get, answer>>

Gone == [content |-> 0, mtime |-> 0]
NoCopy == [content |-> 0, modified |-> 0]
None == [step |-> "none", head |-> FALSE, copy |-> NoCopy, modified |-> 0]

StaticInit ==
    /\ file = [content |-> 1, mtime |-> 0] /\ written = <<0>> /\ clock = 0
    /\ copy = NoCopy /\ get = None
    /\ answer = [status |-> 0, copy |-> NoCopy, content |-> 0]

Edit ==
    /\ Len(written) < MaxEdits
    /\ written' = Append(written, clock)
    /\ file' = [content |-> Len(written'), mtime |-> clock]
    /\ UNCHANGED <<clock, copy, get, answer>>
Remove ==
    /\ file # Gone
    /\ file' = Gone
    /\ UNCHANGED <<written, clock, copy, get, answer>>
Tick ==
    /\ clock < MaxClock
    /\ clock' = clock + 1
    /\ UNCHANGED <<file, written, copy, get, answer>>

\* A browser with a copy may send its Last-Modified back.
Request(head, with) ==
    /\ get = None
    /\ with => copy # NoCopy
    /\ get' = [step |-> "exists", head |-> head, copy |-> IF with THEN copy ELSE NoCopy,
               modified |-> 0]
    /\ UNCHANGED <<file, written, clock, copy, answer>>

Answered(status, content) ==
    /\ get' = None
    /\ answer' = [status |-> status, copy |-> get.copy, content |-> content]

Exists ==
    /\ get.step = "exists"
    /\ IF file = Gone THEN Answered(404, 0)
       ELSE get' = [get EXCEPT !.step = "stat"] /\ UNCHANGED answer
    /\ UNCHANGED <<file, written, clock, copy>>

\* Last-Modified gives the local time of the change as if it were UTC.  Its way back
\* reads it as local standard time and so undoes that, but for the hour of the summer.
IfSince(c) == c.modified + DstShift
\* The mutated form of NotModified: the dates are not compared.
HasCopy(c, modified) == c # NoCopy
NotModified(c, modified) == c # NoCopy /\ IfSince(c) >= modified

\* os.stat raises when the file is gone; with an If-Modified-Since that is not older
\* than the file, the answer has no body.
Stat ==
    /\ get.step = "stat"
    /\ IF file = Gone THEN Answered(500, 0)
       ELSE IF NotModified(get.copy, file.mtime) THEN Answered(304, file.content)
       ELSE get' = [get EXCEPT !.step = "read", !.modified = file.mtime] /\ UNCHANGED answer
    /\ UNCHANGED <<file, written, clock, copy>>

\* open, read and the Etag that is already set when finish looks for one, so that
\* If-None-Match is never compared; the browser keeps what a GET returns.
Read ==
    /\ get.step = "read"
    /\ IF file = Gone THEN Answered(500, 0) /\ UNCHANGED copy
       ELSE /\ Answered(200, file.content)
            /\ copy' = IF get.head THEN copy
                       ELSE [content |-> file.content, modified |-> get.modified]
    /\ UNCHANGED <<file, written, clock>>

StaticNext ==
    \/ Edit \/ Remove \/ Tick
    \/ \E head, with \in BOOLEAN : Request(head, with)
    \/ Exists \/ Stat \/ Read
StaticSpec == StaticInit /\ [][StaticNext]_staticVars
-----------------------------------------------------------------------------
\* A browser is told to keep its copy only when that was written in the second of the
\* file's last change or later, although the file may be edited and removed between the
\* stat that dates an answer and the read that fills it (where DstShift is 0).
StaleWithinASecond ==
    answer.status = 304 => written[answer.copy.content] >= written[answer.content]
=============================================================================

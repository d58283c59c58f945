----------------------------- MODULE BlackList ------------------------------
(***************************************************************************)
(* The blacklist of a query server and the dumps of it.  The timer, the    *)
(* dump command of an HTTP request and the shutdown hook run one and the   *)
(* same DumpTread; only the iteration over the set is synchronized, the    *)
(* stream of the BlackListFile is not.  A step is one access to the shared *)
(* field output, to the file or to the set; the accesses are taken to be   *)
(* sequentially consistent.  Opening, writing and closing the file may     *)
(* fail; a write that fails has written nothing, as a file system gives    *)
(* room in blocks of whole longs.                                          *)
(***************************************************************************)
EXTENDS Integers, Sequences, FiniteSets

CONSTANTS
    Listable,    \* hashes that may be listed
    Dumpers,     \* the threads that run dumps, Timer among them
    Timer,
    MaxFaults,   \* bound: I/O errors of one stream
    MaxLongs     \* bound: hashes written through one stream

VARIABLES
    blackDocs,
    file,        \* the hashes in the file; 0 where a hole reads as zero
    output,      \* null, or the stream that was assigned last: only that one is ever used
    dumper,      \* of each thread: where it is, and the hashes it has still to write
    timerEnded,  \* an unchecked exception has ended the timer's thread
    faults,      \* I/O errors of the stream in the field
    lone         \* what the last dump should have left, if nothing came in its way

blackListVars == <<blackDocs, file, output, dumper, timerEnded, faults, lone>>

Null == [state |-> "null", at |-> 0]
Unknown == "unknown"
AtRest == [pc |-> "none", left |-> {}]
Idle == \A t \in Dumpers : dumper[t].pc = "none"
Unlocked == \A t \in Dumpers : dumper[t].pc # "writing"

BlackListInit ==
    /\ blackDocs = {} /\ file = <<>> /\ output = Null
    /\ dumper = [t \in Dumpers |-> AtRest]
    /\ timerEnded = FALSE /\ faults = 0 /\ lone = Unknown

\* add, remove and clear wait for the lock of the set.
Change ==
    /\ Unlocked
    /\ \/ \E d \in Listable : blackDocs' \in {blackDocs \cup {d}, blackDocs \ {d}}
       \/ blackDocs' = {}
    /\ UNCHANGED <<file, output, dumper, timerEnded, faults, lone>>

To(t, pc) == dumper' = [dumper EXCEPT ![t].pc = pc]
Ends(t) == dumper' = [dumper EXCEPT ![t] = AtRest]
\* run catches IOException only: what else is raised ends the thread it is raised in.
NullPointer(t) == Ends(t) /\ timerEnded' = (timerEnded \/ t = Timer)
\* ... and so does an IOException, which run has printed.
Fails(t) == Ends(t) /\ lone' = Unknown /\ UNCHANGED timerEnded
Struck == faults < MaxFaults /\ faults' = faults + 1
\* A dump that begins with others about, or with a stream that was left, comes to no known end.
Begun == IF Idle /\ output = Null THEN <<>> ELSE Unknown

OpenWrite(t) ==
    /\ dumper[t].pc = "none"
    /\ t = Timer => ~timerEnded
    /\ To(t, IF output = Null THEN "opening" ELSE "opened")
    /\ lone' = Begun
    /\ UNCHANGED <<blackDocs, file, output, timerEnded, faults>>

Truncated(f) == <<>>
\* The constructor of FileOutputStream raises, or empties the file, ...
Create(t) ==
    /\ dumper[t].pc = "opening"
    /\ \/ Fails(t) /\ UNCHANGED file
       \/ file' = Truncated(file) /\ To(t, "created") /\ UNCHANGED <<timerEnded, lone>>
    /\ UNCHANGED <<blackDocs, output, faults>>
\* ... and then the field is assigned.
Assign(t) ==
    /\ dumper[t].pc = "created"
    /\ output' = [state |-> "open", at |-> 0] /\ faults' = 0
    /\ To(t, "opened")
    /\ UNCHANGED <<blackDocs, file, timerEnded, lone>>

Lock(t) ==
    /\ dumper[t].pc = "opened" /\ Unlocked
    /\ dumper' = [dumper EXCEPT ![t] = [pc |-> "writing", left |-> blackDocs]]
    /\ lone' = IF lone = Unknown THEN lone ELSE <<blackDocs>>
    /\ UNCHANGED <<blackDocs, file, output, timerEnded, faults>>

\* file with the hash d at position i; a position past its end leaves zeros before it.
Put(d, i) == [j \in 1 .. (IF i > Len(file) THEN i ELSE Len(file)) |->
                 IF j = i THEN d ELSE IF j <= Len(file) THEN file[j] ELSE 0]
WriteOne(t) ==
    /\ dumper[t].pc = "writing"
    /\ \E d \in dumper[t].left :
         \/ /\ output = Null
            /\ NullPointer(t) /\ UNCHANGED <<file, output, faults, lone>>
         \/ /\ output.state = "closed"
            /\ Fails(t) /\ UNCHANGED <<file, output, faults>>
         \/ /\ output.state = "open"
            /\ output.at < MaxLongs
            /\ file' = Put(d, output.at + 1)
            /\ output' = [output EXCEPT !.at = @ + 1]
            /\ dumper' = [dumper EXCEPT ![t].left = @ \ {d}]
            /\ UNCHANGED <<timerEnded, faults, lone>>
         \/ /\ output.state = "open"
            /\ Struck /\ Fails(t) /\ UNCHANGED <<file, output>>
    /\ UNCHANGED blackDocs

Unlock(t) ==
    /\ dumper[t].pc = "writing" /\ dumper[t].left = {}
    /\ To(t, "written")
    /\ UNCHANGED <<blackDocs, file, output, timerEnded, faults, lone>>

CloseWrite(t) ==
    /\ dumper[t].pc = "written"
    /\ IF output = Null THEN Ends(t) ELSE To(t, "closing")
    /\ UNCHANGED <<blackDocs, file, output, timerEnded, faults, lone>>
\* A close that fails has closed the stream.
CloseStream(t) ==
    /\ dumper[t].pc = "closing"
    /\ \/ /\ output = Null
          /\ NullPointer(t) /\ UNCHANGED <<output, faults, lone>>
       \/ /\ output # Null
          /\ output' = [output EXCEPT !.state = "closed"]
          /\ \/ To(t, "closed") /\ UNCHANGED <<timerEnded, faults, lone>>
             \/ output.state = "open" /\ Struck /\ Fails(t)
    /\ UNCHANGED <<blackDocs, file>>
\* The mutated form of Nulled: the field keeps the closed stream.
NotNulled(o) == o
Nulled(o) == Null
SetNull(t) ==
    /\ dumper[t].pc = "closed"
    /\ output' = Nulled(output) /\ faults' = 0
    /\ Ends(t)
    /\ UNCHANGED <<blackDocs, file, timerEnded, lone>>

\* The process is killed, and the next one loads the file.
Restart ==
    /\ blackDocs' = {file[i] : i \in DOMAIN file}
    /\ output' = Null
    /\ dumper' = [t \in Dumpers |-> AtRest]
    /\ timerEnded' = FALSE /\ faults' = 0 /\ lone' = Unknown
    /\ UNCHANGED file

BlackListNext ==
    \/ Change \/ Restart
    \/ \E t \in Dumpers :
         \/ OpenWrite(t) \/ Create(t) \/ Assign(t) \/ Lock(t)
         \/ WriteOne(t) \/ Unlock(t)
         \/ CloseWrite(t) \/ CloseStream(t) \/ SetNull(t)
BlackListSpec == BlackListInit /\ [][BlackListNext]_blackListVars
-----------------------------------------------------------------------------
\* However the dumps of two threads met, whatever exceptions ended them: once all have
\* ended, the field is null, so that the next dump opens the file anew, unless a write or
\* a close of the stream in the field has failed; then the stream is left there, and the
\* next dump writes behind the place it came to, or finds it closed.  And a dump that
\* found the field null and met no other, no I/O error and no kill leaves the set in the
\* file as it was when it was locked.
NextDumpIsSound ==
    Idle => /\ output # Null => faults > 0
            /\ lone # Unknown => <<{file[i] : i \in DOMAIN file}>> = lone

\* "dump blacklists to file every 10 minutes": the timer goes on.
TimerGoesOn == ~timerEnded
=============================================================================

------------------------------ MODULE DumpData ------------------------------
(***************************************************************************)
(* One import of a directory of sequence files into the .store and .uidx   *)
(* files of a node: the main thread of DumpData, its SequenceFileFetcher   *)
(* threads, its IndexBuilder threads and the bounded queue in front of     *)
(* each builder, with the crash of the process and its next run.           *)
(*                                                                         *)
(* Files are whole records here: what a crash leaves of a half-written     *)
(* record is the subject of module StoreFile.                              *)
(***************************************************************************)
EXTENDS Integers, Sequences, FiniteSets

CONSTANTS
    FETCH_THREAD,   \* fetcher threads
    WRITE_THREAD,   \* builder threads, one for each of FILE_STORE_DIRS
    FilesPerDir,    \* files of a store directory: the product of FILENAME_BASES
    QueueCapacity,  \* capacity of a builder's queue
    Content,        \* the listed input files, each a sequence of records
    MaxRuns,        \* bound: runs of the program
    MaxFaults       \* bound: I/O errors met by its threads

(* The key of a record is "<hash>_...". Its hash may not fit a long        *)
(* ("overflow": tryParseLong gives null), or the key has no '_' at all     *)
(* ("noseparator": substring throws).                                      *)
Record == [kind : {"doc", "overflow", "noseparator"}, hash : Int]

ASSUME DumpAssumption ==
    /\ FETCH_THREAD \in Nat \ {0}
    /\ WRITE_THREAD \in Nat \ {0}
    /\ FilesPerDir \in Nat \ {0}
    /\ QueueCapacity \in Nat \ {0}
    /\ Content \in Seq(Seq(Record))
    /\ MaxRuns \in Nat
    /\ MaxFaults \in Nat

Files == DOMAIN Content
Fetchers == 0 .. FETCH_THREAD - 1
Builders == 0 .. WRITE_THREAD - 1
Keys == Builders \X (0 .. FilesPerDir - 1)

\* A document: its hash, and the record of the input it was made from.
Doc == [hash : Nat, file : Files, at : Nat]

\* The document with hash -1 that ends a builder's queue.
EndDoc == [hash |-> -1, file |-> 0, at |-> 0]

\* The builder a fetcher routes a hash to. Mutant: by the digits of the hash
\* that do not choose its file, so that two builders write one file.
BuilderOfOtherDigit(h) == (h \div (WRITE_THREAD * FilesPerDir)) % WRITE_THREAD
BuilderOf(h) == h % WRITE_THREAD

\* The file a hash is stored in: a directory, then a name in mixed radix.
KeyOf(h) == <<h % WRITE_THREAD, (h \div WRITE_THREAD) % FilesPerDir>>

Item == [hash : Nat, pos : Nat]

VARIABLES
    (* on disk *)
    processFile,  \* the files the process file lists
    store,        \* store[k]: the documents of file k, in order
    uidx,         \* uidx[k]: its unsorted index, a position in store[k] per hash
    (* the main thread *)
    mainPc,
    alreadyRead,  \* the process file as read at the start of this run
    spawned,      \* fetchers started so far
    sizeCopy,     \* size of producerThreadSet as an add of main has read it
    producerSize, \* size of producerThreadSet, a HashSet without a lock
    endsSent,     \* builders the ending document has been put to
    threadSet,    \* builders not yet known to be complete
    writerOpen,   \* is writerToAlreadyReadFiles open?
    monitor,      \* holder of the lock of the DumpData object, -1 if none
    (* the fetchers *)
    fpc,
    todo,         \* files a fetcher has still to read
    at,           \* the next record of the file it reads
    fetchCopy,    \* size of producerThreadSet as a remove has read it
    (* the builders *)
    queue,
    bpc,
    bdoc,         \* the document a builder works on
    bpos,         \* the position it takes in its store file
    toClose,      \* files its iterator over step1Files has still to visit
    snapshot,     \* step1Files when that iterator was made
    step1Files,   \* IndexBuilder.step1Files: one static table for all builders
    closedFiles,  \* files of that table that are closed
    (* the environment, and history *)
    runs,         \* the program has been started so often,
    crashes,      \* and been killed so often
    faults,       \* I/O errors so far
    raced         \* has a fetcher completed while main still started others?

diskVars == <<processFile, store, uidx>>
mainVars == <<mainPc, alreadyRead, spawned, sizeCopy, endsSent, writerOpen>>
fetchVars == <<fpc, todo, at, fetchCopy>>
tableVars == <<step1Files, closedFiles>>
buildVars == <<bpc, bdoc, bpos, toClose, snapshot>>
vars == <<diskVars, mainVars, producerSize, threadSet, monitor, fetchVars,
          queue, buildVars, tableVars, runs, crashes, faults, raced>>

\* Mutants: the fetchers do not divide the listing; the process file is ignored.
ShareOfAll(i) == {f \in Files : f \notin alreadyRead}
ShareAgain(i) == {f \in Files : (f - 1) % FETCH_THREAD = i}

\* The files of fetcher i: every FETCH_THREAD-th of the listing, those the
\* process file names left out.
Share(i) == {f \in Files : (f - 1) % FETCH_THREAD = i /\ f \notin alreadyRead}

\* The lock of the synchronized methods of DumpData; without it (mutant) the
\* methods run at once.
LockIgnored == TRUE
LockFree == monitor = -1

\* The records that become documents. Mutant: the test hash < 0 is gone.
AnyLong(r) == r.kind = "doc"
Usable(r) == r.kind = "doc" /\ r.hash >= 0

\* What main takes for "all producers are done". Mutant: off by one.
AlmostNoProducer == producerSize <= 1
NoProducer == producerSize = 0

\* Where an exception leads a builder: out of run, past buildComplete. Mutant:
\* buildComplete is called all the same.
ReportedFailure == "notify"
AfterException == "dead"

-----------------------------------------------------------------------------
Init ==
    /\ processFile = {}
    /\ store = [k \in Keys |-> <<>>]
    /\ uidx = [k \in Keys |-> <<>>]
    /\ mainPc = "down" /\ alreadyRead = {} /\ spawned = 0 /\ sizeCopy = 0
    /\ producerSize = 0 /\ endsSent = 0 /\ threadSet = {} /\ writerOpen = FALSE
    /\ monitor = -1
    /\ fpc = [i \in Fetchers |-> "idle"]
    /\ todo = [i \in Fetchers |-> {}]
    /\ at = [i \in Fetchers |-> 1]
    /\ fetchCopy = [i \in Fetchers |-> 0]
    /\ queue = [b \in Builders |-> <<>>]
    /\ bpc = [b \in Builders |-> "idle"]
    /\ bdoc = [b \in Builders |-> EndDoc]
    /\ bpos = [b \in Builders |-> 0]
    /\ toClose = [b \in Builders |-> {}]
    /\ snapshot = [b \in Builders |-> {}]
    /\ step1Files = {} /\ closedFiles = {}
    /\ runs = 0 /\ crashes = 0 /\ faults = 0 /\ raced = FALSE

\* The memory of the process is that of one that has just begun, with main at
\* pc and the builders at builderPc.
Anew(pc, builderPc) ==
    /\ mainPc' = pc
    /\ spawned' = 0 /\ sizeCopy' = 0 /\ producerSize' = 0 /\ endsSent' = 0
    /\ monitor' = -1
    /\ fpc' = [i \in Fetchers |-> "idle"]
    /\ at' = [i \in Fetchers |-> 1]
    /\ fetchCopy' = [i \in Fetchers |-> 0]
    /\ queue' = [b \in Builders |-> <<>>]
    /\ bpc' = [b \in Builders |-> builderPc]
    /\ bdoc' = [b \in Builders |-> EndDoc]
    /\ bpos' = [b \in Builders |-> 0]
    /\ toClose' = [b \in Builders |-> {}]
    /\ snapshot' = [b \in Builders |-> {}]
    /\ step1Files' = {} /\ closedFiles' = {}

\* The JVM ends when main and every other thread have ended.
Exited ==
    /\ mainPc = "done"
    /\ \A i \in Fetchers : fpc[i] = "done"
    /\ \A b \in Builders : bpc[b] \in {"done", "dead"}

(***************************************************************************)
(* The main thread.                                                        *)
(***************************************************************************)

\* Read the process file, start the builders, deal the files to the fetchers.
Start ==
    /\ mainPc = "down" \/ Exited
    /\ runs < MaxRuns /\ runs' = runs + 1
    /\ Anew("spawn", "read")
    /\ alreadyRead' = processFile
    /\ writerOpen' = TRUE
    /\ threadSet' = Builders
    /\ todo' = [i \in Fetchers |-> Share(i)']
    /\ UNCHANGED <<diskVars, crashes, faults, raced>>

\* producerThreadSet.add: HashMap reads its size ...
SpawnRead ==
    /\ mainPc = "spawn" /\ spawned < FETCH_THREAD
    /\ sizeCopy' = producerSize
    /\ mainPc' = "add"
    /\ UNCHANGED <<diskVars, alreadyRead, spawned, endsSent, writerOpen, producerSize,
                   threadSet, monitor, fetchVars, queue, buildVars, tableVars,
                   runs, crashes, faults, raced>>

\* ... and writes it back; then the thread is started.
SpawnWrite ==
    /\ mainPc = "add"
    /\ producerSize' = sizeCopy + 1
    /\ fpc' = [fpc EXCEPT ![spawned] = "read"]
    /\ spawned' = spawned + 1
    /\ mainPc' = IF spawned' = FETCH_THREAD THEN "waitProducers" ELSE "spawn"
    /\ UNCHANGED <<diskVars, alreadyRead, sizeCopy, endsSent, writerOpen, threadSet,
                   monitor, todo, at, fetchCopy, queue, buildVars, tableVars,
                   runs, crashes, faults, raced>>

\* producerThreadSet.isEmpty()
SeeProducersDone ==
    /\ mainPc = "waitProducers" /\ NoProducer
    /\ mainPc' = "sendEnd"
    /\ UNCHANGED <<diskVars, alreadyRead, spawned, sizeCopy, endsSent, writerOpen,
                   producerSize, threadSet, monitor, fetchVars, queue, buildVars,
                   tableVars, runs, crashes, faults, raced>>

\* Put the ending document to the next builder's queue, waiting for room.
SendEnd ==
    /\ mainPc = "sendEnd"
    /\ Len(queue[endsSent]) < QueueCapacity
    /\ queue' = [queue EXCEPT ![endsSent] = Append(@, EndDoc)]
    /\ endsSent' = endsSent + 1
    /\ mainPc' = IF endsSent' = WRITE_THREAD THEN "waitConsumers" ELSE "sendEnd"
    /\ UNCHANGED <<diskVars, alreadyRead, spawned, sizeCopy, writerOpen, producerSize,
                   threadSet, monitor, fetchVars, buildVars, tableVars,
                   runs, crashes, faults, raced>>

\* Once no builder is left in threadSet, close the process file and return.
Finish ==
    /\ mainPc = "waitConsumers" /\ threadSet = {}
    /\ writerOpen' = FALSE
    /\ mainPc' = "done"
    /\ UNCHANGED <<diskVars, alreadyRead, spawned, sizeCopy, endsSent, producerSize,
                   threadSet, monitor, fetchVars, queue, buildVars, tableVars,
                   runs, crashes, faults, raced>>

(***************************************************************************)
(* Fetcher i.                                                              *)
(***************************************************************************)

\* File f is the next one of the fetcher's list.
Reading(i, f) == fpc[i] = "read" /\ \A g \in todo[i] : f <= g

\* A document with a hash of its own: put it to its builder, waiting for room.
FetchPut(i) == \E f \in todo[i] :
    /\ Reading(i, f) /\ at[i] <= Len(Content[f])
    /\ LET r == Content[f][at[i]]
           d == [hash |-> r.hash, file |-> f, at |-> at[i]]
       IN /\ Usable(r)
          /\ Len(queue[BuilderOf(r.hash)]) < QueueCapacity
          /\ queue' = [queue EXCEPT ![BuilderOf(r.hash)] = Append(@, d)]
    /\ at' = [at EXCEPT ![i] = @ + 1]
    /\ UNCHANGED <<diskVars, mainVars, producerSize, threadSet, monitor, fpc, todo,
                   fetchCopy, buildVars, tableVars, runs, crashes, faults, raced>>

\* A hash that is negative or no long at all: on to the next record.
FetchSkip(i) == \E f \in todo[i] :
    /\ Reading(i, f) /\ at[i] <= Len(Content[f])
    /\ Content[f][at[i]].kind # "noseparator" /\ ~Usable(Content[f][at[i]])
    /\ at' = [at EXCEPT ![i] = @ + 1]
    /\ UNCHANGED <<diskVars, mainVars, producerSize, threadSet, monitor, fpc, todo,
                   fetchCopy, queue, buildVars, tableVars, runs, crashes, faults, raced>>

\* The end of the file, or a key without '_', whose exception ends the file.
FetchLeave(i) == \E f \in todo[i] :
    /\ Reading(i, f)
    /\ at[i] <= Len(Content[f]) => Content[f][at[i]].kind = "noseparator"
    /\ todo' = [todo EXCEPT ![i] = @ \ {f}]
    /\ at' = [at EXCEPT ![i] = 1]
    /\ UNCHANGED <<diskVars, mainVars, producerSize, threadSet, monitor, fpc,
                   fetchCopy, queue, buildVars, tableVars, runs, crashes, faults, raced>>

\* An IOException of the reader ends the file too.
FetchFault(i) == \E f \in todo[i] :
    /\ Reading(i, f) /\ faults < MaxFaults
    /\ faults' = faults + 1
    /\ todo' = [todo EXCEPT ![i] = @ \ {f}]
    /\ at' = [at EXCEPT ![i] = 1]
    /\ UNCHANGED <<diskVars, mainVars, producerSize, threadSet, monitor, fpc,
                   fetchCopy, queue, buildVars, tableVars, runs, crashes, raced>>

\* fileReadComplete, synchronized: producerThreadSet.remove reads the size ...
FinishLock(i) ==
    /\ fpc[i] = "read" /\ todo[i] = {} /\ LockFree
    /\ raced' = (raced \/ mainPc \in {"spawn", "add"})
    /\ monitor' = i
    /\ fetchCopy' = [fetchCopy EXCEPT ![i] = producerSize]
    /\ fpc' = [fpc EXCEPT ![i] = "remove"]
    /\ UNCHANGED <<diskVars, mainVars, producerSize, threadSet, todo, at, queue,
                   buildVars, tableVars, runs, crashes, faults>>

\* ... and writes it back;
FinishRemove(i) ==
    /\ fpc[i] = "remove"
    /\ producerSize' = fetchCopy[i] - 1
    /\ fpc' = [fpc EXCEPT ![i] = "record"]
    /\ UNCHANGED <<diskVars, mainVars, threadSet, monitor, todo, at, fetchCopy, queue,
                   buildVars, tableVars, runs, crashes, faults, raced>>

\* then the fetcher's files are written to the process file and flushed, or an
\* IOException of the closed writer is swallowed.
FinishRecord(i) ==
    /\ fpc[i] = "record"
    /\ processFile' = IF writerOpen THEN processFile \cup Share(i) ELSE processFile
    /\ fpc' = [fpc EXCEPT ![i] = "done"]
    /\ monitor' = -1
    /\ UNCHANGED <<store, uidx, mainVars, producerSize, threadSet, todo, at, fetchCopy,
                   queue, buildVars, tableVars, runs, crashes, faults, raced>>

(***************************************************************************)
(* Builder b: IndexBuilder.step1, then IndexBuilderRunnable.run.           *)
(***************************************************************************)

\* Take a document; its files may have to be opened first.
TakeDoc(b) ==
    /\ bpc[b] = "read" /\ queue[b] # <<>> /\ Head(queue[b]).hash # -1
    /\ queue' = [queue EXCEPT ![b] = Tail(@)]
    /\ bdoc' = [bdoc EXCEPT ![b] = Head(queue[b])]
    /\ bpc' = [bpc EXCEPT ![b] =
                  IF KeyOf(Head(queue[b]).hash) \in step1Files THEN "store" ELSE "open"]
    /\ UNCHANGED <<diskVars, mainVars, producerSize, threadSet, monitor, fetchVars,
                   bpos, toClose, snapshot, tableVars, runs, crashes, faults, raced>>

\* Open them and enter them in the table, a Hashtable: its put is synchronized.
OpenFiles(b) ==
    /\ bpc[b] = "open"
    /\ step1Files' = step1Files \cup {KeyOf(bdoc[b].hash)}
    /\ bpc' = [bpc EXCEPT ![b] = "store"]
    /\ UNCHANGED <<diskVars, mainVars, producerSize, threadSet, monitor, fetchVars,
                   queue, bdoc, bpos, toClose, snapshot, closedFiles, runs, crashes, faults, raced>>

\* Remember the offset and append to the store file ...
WriteStore(b) ==
    /\ bpc[b] = "store"
    /\ LET k == KeyOf(bdoc[b].hash)
       IN /\ k \notin closedFiles
          /\ bpos' = [bpos EXCEPT ![b] = Len(store[k]) + 1]
          /\ store' = [store EXCEPT ![k] = Append(@, bdoc[b])]
    /\ bpc' = [bpc EXCEPT ![b] = "index"]
    /\ UNCHANGED <<processFile, uidx, mainVars, producerSize, threadSet, monitor,
                   fetchVars, queue, bdoc, toClose, snapshot, tableVars,
                   runs, crashes, faults, raced>>

\* ... then to the unsorted index.
WriteIndex(b) ==
    /\ bpc[b] = "index"
    /\ LET k == KeyOf(bdoc[b].hash)
       IN /\ k \notin closedFiles
          /\ uidx' = [uidx EXCEPT ![k] =
                         Append(@, [hash |-> bdoc[b].hash, pos |-> bpos[b]])]
    /\ bpc' = [bpc EXCEPT ![b] = "read"]
    /\ UNCHANGED <<processFile, store, mainVars, producerSize, threadSet, monitor,
                   fetchVars, queue, bdoc, bpos, toClose, snapshot, tableVars,
                   runs, crashes, faults, raced>>

\* A write to a closed file is an IOException, and the thread ends with a
\* BuildIndexException: it never reports that it is complete.
WriteFails(b) ==
    /\ bpc[b] \in {"store", "index"}
    /\ KeyOf(bdoc[b].hash) \in closedFiles
    /\ bpc' = [bpc EXCEPT ![b] = AfterException]
    /\ UNCHANGED <<diskVars, mainVars, producerSize, threadSet, monitor, fetchVars,
                   queue, bdoc, bpos, toClose, snapshot, tableVars, runs, crashes, faults, raced>>

\* The ending document: iterate over the table all builders share.
TakeEnd(b) ==
    /\ bpc[b] = "read" /\ queue[b] # <<>> /\ Head(queue[b]).hash = -1
    /\ queue' = [queue EXCEPT ![b] = Tail(@)]
    /\ toClose' = [toClose EXCEPT ![b] = step1Files]
    /\ snapshot' = [snapshot EXCEPT ![b] = step1Files]
    /\ bpc' = [bpc EXCEPT ![b] = "close"]
    /\ UNCHANGED <<diskVars, mainVars, producerSize, threadSet, monitor, fetchVars,
                   bdoc, bpos, tableVars, runs, crashes, faults, raced>>

CloseOne(b) == \E k \in toClose[b] :
    /\ bpc[b] = "close" /\ step1Files = snapshot[b]
    /\ toClose' = [toClose EXCEPT ![b] = @ \ {k}]
    /\ closedFiles' = closedFiles \cup {k}
    /\ UNCHANGED <<diskVars, mainVars, producerSize, threadSet, monitor, fetchVars,
                   queue, bpc, bdoc, bpos, snapshot, step1Files, runs, crashes, faults, raced>>

\* The table has changed under the iterator: its next() throws a
\* ConcurrentModificationException, which nothing catches. Behind the last file
\* too, if the entry that was added is in a bucket still to be visited.
CloseFails(b) ==
    /\ bpc[b] = "close" /\ step1Files # snapshot[b]
    /\ bpc' = [bpc EXCEPT ![b] = AfterException]
    /\ UNCHANGED <<diskVars, mainVars, producerSize, threadSet, monitor, fetchVars,
                   queue, bdoc, bpos, toClose, snapshot, tableVars, runs, crashes, faults, raced>>

\* The iterator's hasNext(), which does not look for changes of the table.
CloseDone(b) ==
    /\ bpc[b] = "close" /\ toClose[b] = {}
    /\ bpc' = [bpc EXCEPT ![b] = "notify"]
    /\ UNCHANGED <<diskVars, mainVars, producerSize, threadSet, monitor, fetchVars,
                   queue, bdoc, bpos, toClose, snapshot, tableVars, runs, crashes, faults, raced>>

\* buildComplete, synchronized on the DumpData object.
BuildComplete(b) ==
    /\ bpc[b] = "notify" /\ LockFree
    /\ threadSet' = threadSet \ {b}
    /\ bpc' = [bpc EXCEPT ![b] = "done"]
    /\ UNCHANGED <<diskVars, mainVars, producerSize, monitor, fetchVars, queue, bdoc,
                   bpos, toClose, snapshot, tableVars, runs, crashes, faults, raced>>

\* An I/O error while a builder opens, writes or closes ends it like WriteFails.
DiskFault(b) ==
    /\ bpc[b] \in {"open", "store", "index", "close"} /\ faults < MaxFaults
    /\ faults' = faults + 1
    /\ bpc' = [bpc EXCEPT ![b] = AfterException]
    /\ UNCHANGED <<diskVars, mainVars, producerSize, threadSet, monitor, fetchVars,
                   queue, bdoc, bpos, toClose, snapshot, tableVars, runs, crashes, raced>>

\* The process is killed (stop-dumping.sh) or dies.
Crash ==
    /\ mainPc # "down" /\ ~Exited
    /\ crashes' = crashes + 1
    /\ Anew("down", "idle")
    /\ alreadyRead' = {} /\ writerOpen' = FALSE /\ threadSet' = {}
    /\ todo' = [i \in Fetchers |-> {}]
    /\ UNCHANGED <<diskVars, runs, faults, raced>>

-----------------------------------------------------------------------------
MainStep == SpawnRead \/ SpawnWrite \/ SeeProducersDone \/ SendEnd \/ Finish

FetcherStep(i) ==
    \/ FetchPut(i) \/ FetchSkip(i) \/ FetchLeave(i)
    \/ FinishLock(i) \/ FinishRemove(i) \/ FinishRecord(i)

BuilderStep(b) ==
    \/ TakeDoc(b) \/ OpenFiles(b) \/ WriteStore(b) \/ WriteIndex(b) \/ WriteFails(b)
    \/ TakeEnd(b) \/ CloseOne(b) \/ CloseFails(b) \/ CloseDone(b) \/ BuildComplete(b)

Environment ==
    \/ Start
    \/ Crash
    \/ \E i \in Fetchers : FetchFault(i)
    \/ \E b \in Builders : DiskFault(b)

Next ==
    \/ MainStep
    \/ \E i \in Fetchers : FetcherStep(i)
    \/ \E b \in Builders : BuilderStep(b)
    \/ Environment

Spec == Init /\ [][Next]_vars

(* Every thread that can take a step takes one: main polls, and a blocked  *)
(* put, take or monitor entry is woken when it can proceed. Nobody has to  *)
(* start the program, and nothing has to fail.                             *)
Fairness ==
    /\ WF_vars(MainStep)
    /\ \A i \in Fetchers : WF_vars(FetcherStep(i))
    /\ \A b \in Builders : WF_vars(BuilderStep(b))

FairSpec == Spec /\ Fairness

-----------------------------------------------------------------------------
TypeOK ==
    /\ processFile \subseteq Files
    /\ store \in [Keys -> Seq(Doc)]
    /\ uidx \in [Keys -> Seq(Item)]
    /\ mainPc \in {"down", "spawn", "add", "waitProducers", "sendEnd",
                   "waitConsumers", "done"}
    /\ alreadyRead \subseteq Files
    /\ spawned \in 0 .. FETCH_THREAD
    /\ (mainPc \in {"spawn", "add"} => spawned < FETCH_THREAD)
    /\ sizeCopy \in Int
    /\ producerSize \in Int
    /\ endsSent \in 0 .. WRITE_THREAD
    /\ (mainPc \in {"spawn", "add", "waitProducers"} => endsSent = 0)
    /\ (mainPc = "sendEnd" => endsSent < WRITE_THREAD)
    /\ threadSet \subseteq Builders
    /\ writerOpen \in BOOLEAN
    /\ monitor \in Fetchers \cup {-1}
    /\ fpc \in [Fetchers -> {"idle", "read", "remove", "record", "done"}]
    /\ todo \in [Fetchers -> SUBSET Files]
    /\ at \in [Fetchers -> Nat \ {0}]
    /\ fetchCopy \in [Fetchers -> Int]
    /\ queue \in [Builders -> Seq(Doc \cup {EndDoc})]
    /\ bpc \in [Builders -> {"idle", "read", "open", "store", "index", "close",
                             "notify", "done", "dead"}]
    /\ bdoc \in [Builders -> Doc \cup {EndDoc}]
    /\ (\A b \in Builders : bpc[b] \in {"open", "store", "index"} => bdoc[b] \in Doc)
    /\ bpos \in [Builders -> Nat]
    /\ toClose \in [Builders -> SUBSET Keys]
    /\ snapshot \in [Builders -> SUBSET Keys]
    /\ step1Files \subseteq Keys
    /\ closedFiles \subseteq Keys
    /\ runs \in Nat
    /\ crashes \in Nat
    /\ faults \in Nat
    /\ raced \in BOOLEAN

-----------------------------------------------------------------------------
(* The documents the fetchers make of file f: those of its usable records  *)
(* in front of a key without '_'.                                          *)
Readable(f) ==
    {n \in DOMAIN Content[f] :
        /\ Content[f][n].kind = "doc" /\ Content[f][n].hash >= 0
        /\ \A m \in 1 .. n : Content[f][m].kind # "noseparator"}

DocAt(f, n) == [hash |-> Content[f][n].hash, file |-> f, at |-> n]

\* The positions of document d in its store file.
Copies(d) == {p \in DOMAIN store[KeyOf(d.hash)] : store[KeyOf(d.hash)][p] = d}

Indexed(d) ==
    \E q \in DOMAIN uidx[KeyOf(d.hash)] : uidx[KeyOf(d.hash)][q].pos \in Copies(d)

(* Every index item leads to a document with its hash, in the file of that *)
(* hash, and no two items lead to one document: neither the builders that  *)
(* share step1Files, nor a failure between the two writes of IndexBuilder  *)
(* 120-124, nor a restart on files an earlier run has written break this.  *)
IndexSound ==
    \A k \in Keys :
        /\ \A q \in DOMAIN uidx[k] :
              /\ uidx[k][q].pos \in DOMAIN store[k]
              /\ store[k][uidx[k][q].pos].hash = uidx[k][q].hash
              /\ KeyOf(uidx[k][q].hash) = k
        /\ \A p, q \in DOMAIN uidx[k] : p < q => uidx[k][p].pos < uidx[k][q].pos

(* A document is stored again only because a crash came before its file    *)
(* was recorded: at most once in each attempt to import it.                *)
AtMostOncePerAttempt ==
    ~raced => \A f \in Files : \A n \in Readable(f) :
                  Cardinality(Copies(DocAt(f, n))) <= 1 + crashes

(* DumpData 142, "//wait producers": main sends the ending documents only  *)
(* after every fetcher has put its last document.                          *)
EndAfterProducers ==
    mainPc \in {"sendEnd", "waitConsumers", "done"} =>
        \A i \in Fetchers : fpc[i] \in {"record", "done"}

(* That is so, and nothing can queue up behind an ending document, unless  *)
(* a fetcher has completed while main still started others: the HashSet    *)
(* producerThreadSet has no lock on main's side (DumpData 134, 143).       *)
ProducersWaitedFor == ~raced => EndAfterProducers

(* When main returns, every builder has closed its files in good order and *)
(* has left nothing in its queue: a builder that failed, by an I/O error   *)
(* or over the shared table, keeps main waiting instead (DumpData 157).    *)
DoneMeansBuilt ==
    mainPc = "done" /\ ~raced =>
        \A b \in Builders : bpc[b] = "done" /\ queue[b] = <<>>

(* A dump that returns without a crash or an I/O error has stored and      *)
(* indexed every readable document of the listing.                         *)
CompleteDumpIsIndexed ==
    mainPc = "done" /\ ~raced /\ crashes = 0 /\ faults = 0 =>
        \A f \in Files : \A n \in Readable(f) : Indexed(DocAt(f, n))

(* When main returns, the process file names every file: main closes it    *)
(* only after each fetcher has flushed its part, although main waits for   *)
(* the fetchers' removal from producerThreadSet alone. The lock that       *)
(* fileReadComplete and buildComplete share sees to it.                    *)
DoneRecordsEveryFile == mainPc = "done" /\ ~raced => processFile = Files

(* No document of a file the process file names is ever queued again.      *)
NeverReread ==
    [][\A b \in Builders :
          Len(queue'[b]) = Len(queue[b]) + 1 =>
              queue'[b][Len(queue'[b])].file \notin processFile]_vars

(* A started dump returns, unless it is killed. With one builder and no    *)
(* I/O error; two builders can be stopped by the table they share.         *)
DumpEnds == mainPc = "spawn" ~> (mainPc \in {"done", "down"} \/ raced)

(* DumpData 129 skips a file because it "Has Already Stored": its readable *)
(* documents are in the store.                                             *)
SkippedIsStored ==
    \A f \in alreadyRead : \A n \in Readable(f) : Copies(DocAt(f, n)) # {}

(* IndexBuilder 79-81: step1 writes the documents of its stream to the     *)
(* file system. Without an I/O error, no builder gives up before.          *)
StreamWritten == faults = 0 => \A b \in Builders : bpc[b] # "dead"
=============================================================================

# Specifications of webcache

webcache stores small web pages. An import reads sequence files of pages from HDFS and appends them
to a few thousand `.store` files per node, each with an unsorted index (`.uidx`); a converter sorts
the indexes (`.idx`); an HTTP server loads the sorted indexes into memory and serves pages by the
hash of their URL. A small web service takes pages out of the nodes' answers; it runs on a copy of
Tornado 2.3 that the repository carries with it. This directory holds TLA+ models of these programs,
the TLC configurations that check them and proofs of the results that hold for any number of threads,
files and failures.

`J` stands for `src/webcache/src/main/java/com/oneboxtech/se/webcache`, `T` for
`src/blacklist/tornado`.

## 1. Inventory

| Component | State | Operations | Hard to get right |
|---|---|---|---|
| **DumpData** (`J/client/DumpData.java`) | process file, `alreadyReadFiles`, `producerThreadSet`, `threadSet`, the open writer | `run`; callbacks `fileReadComplete`, `buildComplete` | two sets polled without a lock; restart after a kill; closing the writer |
| **SequenceFileFetcher** (`J/index`) | its list of files, the reader | `run` | records it must skip, exceptions in the middle of a file, blocking `put` |
| **BlockingDocumentStream** (`J/service`) | a bounded queue | `put`, `take` | the last document must be the ending one |
| **IndexBuilder(Runnable)** (`J/index`) | the static table `step1Files` | `step1`, `run` | one table for all threads; failing between two writes |
| **Document, DocumentFile, IndexFileUnordered** (`J/model`) | the bytes of a `.store` and a `.uidx` file, `int offset` | `openWrite`, `writeOne`, `closeWrite`, `readOne`, `readAllFromFile` | a kill after any byte, reopening, the width of offsets |
| **IndexConverter, IndexFile, IndexFileItem, InMemIndex** | an `.idx` file | `run`, `writeAll`, `toMemIndex` | duplicates of a hash, a kill during the write |
| **IndexReader** (`J/index`) | sorted arrays per file, one shared `RandomAccessFile` per store | `open`, `exists`, `query` | `seek` and `read` of concurrent requests; an `open` that fails never reports |
| **HttpQueryServer**, its handler (`J/service`) | `openReaderCount`, pid file, port | `run`, shutdown hook, `messageReceived` | handover from a running predecessor, bind retries, no blacklist |
| **BlackList, BlackListFile** (`J/model`) | set of hashes, one stream shared by all dumps | `add`, `remove`, `clear`, `dump` | three callers of `dump`; a file truncated and rewritten in place |
| **MonitoringData, HttpMonitorServer** (`J/monitor`) | five counters | increments, display | unlocked `++` |
| **FileNameHelper, SystemConfig, utilities** | configuration | file of a hash, parsing | writers and readers must agree on the file |
| **WriteServer, QueryServer, routers, consoles** | deprecated | TCP versions of the above | no script starts them |
| **Import scripts** (`scripts/import`) | `task_runner`'s worker pool | `map_task` | terminating a worker that was just given work |
| **Blacklist service** (`src/blacklist/app.py`) | none | add, del, clear over 20 nodes | partial failure |
| **IOLoop**, its pollers and `PeriodicCallback` (`T/ioloop.py`, `T/platform`) | callbacks, timeouts, handlers, events, waker pipe | `start`, `stop`, `add_callback`, `add_timeout`, `add_handler` ... | a thread that adds while `poll` waits; handlers that remove each other |
| **IOStream** (`T/iostream.py`) | two buffers, one pending read, callbacks, state of the socket | reads, writes, `connect`, `close`, SSL handshake | a callback that starts the next read; the end of the connection at any point |
| **HTTPServer**, `RequestHandler` (`T/httpserver.py`, `T/web.py`) | request at hand, flags of the response | reading a request, `write`, `flush`, `finish`, errors | pipelined requests, a client that leaves, late finishes |
| **StaticFileHandler** (`T/web.py`) | none | `get` | a file edited between `stat` and `read` |
| **SimpleAsyncHTTPClient**, **CurlAsyncHTTPClient** (`T/*_httpclient.py`) | queue, active fetches, free handles | `fetch`, timeouts, redirects, completion | one answer each; a place for each |
| **WebSocket** (`T/websocket.py`) | fragments, who has closed | frames, `close`, `abort`, the closing timer | control frames between fragments; two sides closing |
| **gen**, **stack_context** (`T`) | pending keys, results; the contexts of a thread | `run`, `set_result`; `wrap`, entering and leaving | callbacks that come while the generator runs; nested calls that raise |
| **TCPServer**, **process** (`T/netutil.py`, `T/process.py`) | sockets, pending sockets; children by task id | `bind`, `listen`, `start`, `stop`; fork and restart | numbers of descriptors used again |
| **TornadoReactor** (`T/platform/twisted.py`) | `_readers`, `_writers`, `_fds`, `_delayedCalls` | `addReader` ... `removeAll`, `callLater`, `delay`, `reset`, `cancel` | objects that stop, close or replace each other while they are called |
| **template** (`T/template.py`) | blocks found so far | parsing, inheritance, writing code | blocks within blocks of other files |

Interactions. `DumpData.run` starts one builder thread per store directory and eight fetchers. A
fetcher *routes* each document to the builder of its hash through that builder's bounded queue, and
at its end *calls back* `fileReadComplete` of the DumpData object. main *polls* `producerThreadSet`,
then puts an ending document (hash -1) on each queue; a builder that takes it closes its files and
calls back `buildComplete`; main polls `threadSet` and closes the process file. The builders *share*
`IndexBuilder.step1Files`. The converter and the server meet the import only through files. The
server's request threads share the readers, the blacklist and the counters with one another, with
the blacklist's timer and with the shutdown hook. The blacklist service talks to each node's server
over HTTP, with a timeout. Within Tornado everything runs on the loop's thread: IOStream registers
with the IOLoop and queues its callbacks there, HTTPServer, WebSocket and the clients are written on
IOStream, and only `add_callback` may come from another thread.

What makes each component correct:

- *Import*: every readable document of the listing is stored and indexed under the file of its hash;
  none twice, but for a kill; a recorded file is not read again; the ending documents come last;
  `run` returns, and returns only after all is done.
- *Store and unsorted index*: what a complete item names is a complete document with its hash, for
  ever, whatever a kill has left behind.
- *Sorted index and lookup*: a lookup finds a hash exactly if an item has it.
- *Query serving*: the answer to a request is the document of its own hash.
- *Blacklist*: an accepted change survives an orderly restart; a dump is whole.
- *Handover*: at most one server serves; the successor knows what its predecessor accepted.
- *Worker pool*: every item is run, once, before `map_task` returns.
- *IOLoop*: callbacks run in order and none is forgotten; an event meets the handler it was meant for.
- *Streams and connections*: bytes, messages and responses arrive whole, once, in order and apart; a
  connection never stalls and none waits for ever for its end.
- *HTTP clients*: each fetch is answered once; a fetch waits only when all places are taken.
- *gen, stack_context*: a result goes to the wait for its key, an exception to the contexts of its
  callback.
- *Templates*: the code does what the directives say, and writing it ends.

`PROJECT.json` lists the components with the state of their modelling and the hazards, at their lines.

## 2. Modules

| Module | Models | Extends |
|---|---|---|
| `DumpData` | the import: main, fetchers, queues, builders, kill and restart | |
| `MCDumpData` | input directories for its runs | `DumpData` |
| `StoreFile` | one `.store` and `.uidx` pair, byte by byte | |
| `IndexedLog` | abstract: a log of documents that only grows | |
| `MCStoreFile` | documents for its runs | `StoreFile` |
| `BlackList` | the blacklist of a node, its dumps and their file | |
| `BlacklistService` | the web service and the nodes behind it | |
| `TaskRunner` | `task_runner.py`: `map_task` and its threads | |
| `IOLoop` | Tornado's event loop, one adding thread | |
| `Pollers` | epoll, kqueue and select under the same calls | |
| `PeriodicCallback` | a callback repeated by timeouts | |
| `SimpleHTTPClient`, `CurlHTTPClient` | the two HTTP clients | |
| `IOStream` | a buffered non-blocking socket | |
| `HTTPServer` | one server connection and its handlers | |
| `StaticFiles` | a file, its handler, a browser's copy | |
| `WebSocket` | one connection, two protocols | |
| `GenRunner`, `StackContext` | the helpers for asynchronous code | |
| `TCPServer`, `ForkProcesses` | listening sockets; child processes | |
| `TwistedReactor` | Twisted's reactor on an IOLoop | |
| `TemplateParser`, `TemplateBlocks` | nesting of directives; inheritance | |
| `MCRuntime` | the parts with liveness, side by side | `IOLoop`, `TaskRunner`; INSTANCE of three |
| `MCServices` | the other parts, side by side | `TemplateBlocks`, `TwistedReactor`; INSTANCE of twelve |
| `DumpDataProofs`, `DumpStoreProofs` | proofs about the import: its index and its end; its documents | `DumpData` |
| `StoreFileProofs` | proofs about the two files, and that they are an `IndexedLog` | `StoreFile` |
| `RuntimeProofs` | proofs about the event loop, the pollers, the periodic callback, the worker threads | `MCRuntime` |
| `ServicesProofs` | proofs about ten of the parts of `MCServices` | `MCServices` |
| `WebSocketProofs`, `StreamProofs`, `HTTPProofs` | proofs about three more of them | `ServicesProofs` |

### DumpData

One variable per field or local that matters, named as in the code; `mainPc`, `fpc`, `bpc` say where
each thread is. Atomic steps are the accesses to shared state:

- main: `Start` reads the process file, starts the builders and deals the listing (no other thread
  reads what it writes before the fetchers run); `SpawnRead`/`SpawnWrite` are `producerThreadSet.add`
  as the read and the write of the size of a `HashSet`, because the fetchers change it under a lock
  main does not take; `SeeProducersDone`, `SendEnd` (one per builder, blocking), `Finish`.
- fetcher: one action per outcome of a record (`FetchPut`, `FetchSkip`, `FetchLeave`), `FetchFault`
  for an `IOException`, and `fileReadComplete` in three steps under `monitor`: `FinishLock` and
  `FinishRemove` (read and write of the size), `FinishRecord` (the process file).
- builder: `TakeDoc`, `OpenFiles`, `WriteStore`, `WriteIndex`; `TakeEnd`, `CloseOne` and `CloseDone`
  for the loop over the shared table; `WriteFails`, `CloseFails` and `DiskFault` for the exceptions
  that end the thread before `buildComplete`; `BuildComplete`.
- `Crash` is `stop-dumping.sh` or any other death; the files survive, the memory does not.

Data: a document is its hash and the place of its record in the input; a record is one of the three
kinds the code tells apart. The name of a file is its directory and a number below the product of
`FILENAME_BASES`. `raced` is a history variable: a fetcher has completed while main was still
starting others. Several properties hold only without it, which the run `dump_early_end` shows.

Abstracted or left out: a builder's writes are whole (`StoreFile` has the bytes); the flush of the
process file is atomic; a process file that cannot be opened; visibility delays of the Java memory
model (threads see each other's writes at once); an exception while `main` lists the directory.

### StoreFile and IndexedLog

A byte is the n-th byte of the thing it was written for, so that a byte of one document never passes
for one of another; the `.uidx` header and a gap left by `seek` are zeros. `OpenStore`, `OpenIndex`,
`WriteStore`, `WriteIndex`, `Close` are the methods of `DocumentFile` and `IndexFileUnordered` in the
order `IndexBuilder.step1` calls them; `Crash` stops the write at hand after any number of bytes.
Offsets are ints between `-MaxInt - 1` and `MaxInt`, with Java's wrap and remainder. `ReadAll` and `ReadOne` are the
code that reads the files back. `IndexedLog` promises a log to which whole documents are appended;
the refinement maps the log to what `ReadAll` and `ReadOne` make of the two files. Loss of power is
not modelled: the code never syncs, and nothing could be promised.

### How the modules of Tornado are written

Code that runs on one thread hands control around by calling and being called. Three conventions keep
that visible and short:

- The state of an object is a record (`stream`, `conn`, `cl`, `ws`, ...). A *method* is an operator
  from the record to the record it leaves, and a handler is the composition of the methods it calls,
  so that everything between two returns to the event loop is one action.
- Where code of the application runs, it may do anything the interface allows before it returns:
  `user` (IOLoop), `inCallback` (IOStream), `turn` (HTTPServer) and their like say that it runs, and
  the actions of the application are enabled only then.
- A callback that is queued on the loop (`add_callback`) is in a queue of the module; queue order is
  kept where the code gives it, and the choice between several ready events is free.

`IOLoop` takes `start()` apart into its phases, since `add_callback` may come from another thread
between any two of them: `TakeCallbacks` under the lock, `RunCallback`, `ReadClock`, `RunTimeouts`,
`BeforePoll`, the three ends of `poll`, `RunHandler`; the other thread's append (`ThreadAddCallback`)
and its write to the waker (`ThreadWake`) are two steps. `IOStream` has the two buffers as counts of numbered bytes, so that
order, loss and duplication show. `HTTPServer`, `WebSocket` and `SimpleHTTPClient` take the stream
beneath as `IOStream` describes it (a read is answered once; closing queues the close callback) and
do not repeat its buffers.

`TwistedReactor` takes `_invoke_callback` apart at the calls of Twisted's code: the reader's turn, its
`doRead`, what it does about a lost connection, and the same for the writer, both of which were taken
from `_fds` before. In each of these calls, and between the callbacks of the loop, the code of Twisted
may do anything its own rules allow: an object stops before it closes its socket, and a delayed call is
changed only while it is active. Twisted itself is not in the repository. A writer that stops writing
within the reader's `doRead` is still called once in that turn, as the code has it, and the model too.

`TaskRunner` and `BlackList` have real threads: each access to a shared flag, event, semaphore,
field or file is a step. Several writers of a shared Java field are taken to be sequentially
consistent. `BlackList` also has I/O errors of the opening, of a write and of the close, each of which
ends the dump where `run` catches it, and a kill at any point and the load that follows. A write that
fails has written nothing. `BlacklistService`
serves one request at a time, as the blocking `urlopen` in its handler does; the answer of a node
may be lost before or after the node acted. The nodes behind it dump their blacklists, are killed, in a
dump as well, and start again with what is in the file, or without a blacklist if it cannot be loaded:
such a node answers 200 to every command and does nothing (`HttpQueryServerHandler.java:138`).
`outcome` and `dumped` are history variables: what the answers given so far tell of each docid, now and
at the node's last dump.

`WebSocket` begins with the challenge: draft 76 reads it before it answers, the other protocol has it in
the request. `open()` of the application runs before the first read, and may write, close or raise like
any other of its callbacks. `GenRunner` starts the children of a yield point one after the other, so that
the second of two Tasks starts while the callback of the first may have been called.

### Side by side

`MCRuntime` and `MCServices` check several parts in one run. The parts share no state; `component`
picks one in the initial state, and the others stand still in a single state of theirs. The states
of a run are then the sum of the states of its parts and not their product, and each part behaves as
it would alone.

## 3. Runs

| Run | Checks | Bounds |
|---|---|---|
| `dump_safety` | `TypeOK`, `IndexSound`, `AtMostOncePerAttempt`, `ProducersWaitedFor`, `DoneMeansBuilt`, `CompleteDumpIsIndexed`, `DoneRecordsEveryFile`, `NeverReread` | 2 fetchers, 2 builders of 2 files, queue 1, three files with every kind of record, 2 runs, 1 I/O error |
| `dump_liveness` | `DumpEnds` under `FairSpec` | 2 fetchers, 1 builder, 2 runs, no I/O error |
| `dump_skipped` | violated: `SkippedIsStored` | 1 fetcher, 1 builder |
| `dump_shared_table` | violated: `StreamWritten` | 2 fetchers, 2 builders, no crash, no I/O error |
| `dump_early_end` | violated: `EndAfterProducers` | 2 fetchers with a file each, the first one empty |
| `store_crash` | `ItemsReadBack`, `CompletedWritesStay`, refinement `ImplementsIndexedLog` | documents of 16 and 18 bytes, up to 40 bytes before the last write, 2 kills, `MaxInt` = 32767 |
| `store_overflow` | violated: `ItemsReadBack` | `MaxInt` = 31, no kill |
| `runtime` | the loop: `CallbacksInOrder`, `EventsMeetTheirHandler`, `LoopProgress`; worker threads: `NothingRunsAfterReturn`, `TaskReturns`; `PollersAgree`; `GoesOn`; the client: `PlacesFilled`, `AnsweredOnce`, `FetchesAnswered` | 2 callbacks, 1 timeout, 2 descriptors registered 2 times, 2 calls of `start`; 2 threads, 3 items of which one is `None`; 2 polled descriptors; period 2, clock to 6; 1 place, 2 fetches, 1 redirect, 5 kinds of responses |
| `services` | one to three invariants of each other part, below | 3 bytes and 3 calls of a stream; 2 requests of 6 kinds, 1 flush, whose callback may raise; 3 frames of 5 kinds; 2 keys, 4 yields, a Multi counting as its children; 3 contexts, depth 3; 3 handles, 6 fetches; 4 descriptors, 2 stops; 3 children, 3 restarts; 4 directives; 3 names, 4 blocks, 2 templates; 2 objects, 2 descriptors, 1 delayed call, time to 2; clock to 2, 3 edits; 2 nodes, 3 docids; 2 hashes, 2 dumpers, 1 I/O error of each stream and 3 longs through it |
| `tasks_left` | violated: `AllCompleted` | 2 threads, 2 items |
| `close_unheard` | violated: `CloseCallbackRuns` | one stream |
| `timer_ends` | violated: `TimerGoesOn` | 2 dumpers |

The invariants of `services`, by part:

| Part | Property | Says that |
|---|---|---|
| `IOStream` | `BytesInOrder` | callbacks get every byte once and in order, by whatever way a read completes |
| | `Attended` | an open stream at rest listens, a closed one has told whoever asked (with one exception, finding 6) |
| `HTTPServer` | `ResponsesSeparate` | each response goes to the request at hand, and none is written into another |
| | `ClosedInTime` | a connection ends after its response is out; the close callback is that of the request served, and no handler hears of the end twice |
| | `NeverStalls` | between callbacks the connection reads, writes with a callback to come, is closed or waits for a handler that goes on in a callback of its own |
| `WebSocket` | `MessagesReassembled` | the messages arrive whole, once, in order, around control frames |
| | `ClosedOnce` | the handler hears once of the end, and each side sends one closing frame |
| `TCPServer` | `FirstStopIsClean` | the first stop leaves all connections served, and a listening socket is accepted from |
| `GenRunner` | `WaitsGetTheirResults` | no generator sleeps past a result or an exception, and a wait gets the result of the callback registered last with its key, unless one of that key is called again |
| `StackContext` | `ExceptionsGoHome` | an exception goes to the contexts its callback captured |
| `CurlHTTPClient` | `HandlesServe` | each handle is free, or has one fetch, which it serves unless its setup raised; none is free while a fetch waits, unless the last setup raised |
| `ForkProcesses` | `TasksAttended` | one process per task id; the master leaves nothing behind |
| `TemplateParser` | `NestedAsWritten` | a line belongs to the block its directive stands in |
| `TemplateBlocks` | `WritingEnds` | blocks never write each other in a circle |
| `TwistedReactor` | `TwistedIsServed` | the loop polls for exactly what the objects asked for and have not been told lost, and each listed call comes once, at the time last given |
| `StaticFiles` | `StaleWithinASecond` | a browser is told to keep its copy only if the copy was written in the second of the file's last change or later |
| `BlacklistService` | `AnsweredIsDone` | what was answered with 200 is done and stays so, if the node has a blacklist; after a kill it is as at the last dump |
| `BlackList` | `NextDumpIsSound` | after the dumps have ended, the next one starts anew, unless a write or close of the stream has failed; a lone dump without an error is whole |

Why the bounds are enough. Two fetchers and two builders give every pair of threads that can race:
main and a fetcher, two fetchers at the lock, a fetcher and another's builder, two builders at the
table. A queue of one document (1024 in the code) blocks at once and still lets a document or an
ending one wait behind another. The three files have all kinds of records, a usable record behind a
key without '_', two hashes of one file, and hashes of both builders; the smaller listing has two
files of one builder. Two runs
with a kill between them let a restart meet every partial state. In `store_crash` a kill can leave a
torn record or item, a second one can hit the recovery, and there is room for complete writes before,
between and after. The sizes of heads, items and headers are the real ones. Only the width of an int
is scaled: with 16 bits (`MaxInt` = 32767) nothing overflows in that run, with 6 bits (31) the offset
does after two documents, as it does with 32 bits after 2 GB.

For the parts side by side: two callbacks and two registrations on one descriptor give every order of
an add, a remove and a poll; a third adds none. Two threads and three items let a thread finish and be
given work while main waits for the other, and `None` is what the code compares items with. One place
of the client makes the second fetch wait, and a redirect makes the first fetch again while it does.
Three bytes let a read end within, at and beyond the buffer; two requests are enough to be pipelined;
three frames hold a message of two parts with a control frame between them; four directives hold a
clause after a nested block; four blocks of three names override each other across two templates;
two objects on two descriptors let one take over the number the other has just given up while it is
still to be called; the period of 2 and a clock of 6 let the callback be late by more than a period;
four children let a key be registered, waited for and registered again, or two Tasks of a Multi stand
before a WaitAll; three docids on two nodes have two of one node; one I/O error
leaves a stream in the field after one hash of two, and three longs let the next dump write both of its
own behind it. `MaxEdits`, `MaxStops`,
`MaxYields` and their like only end a behaviour.

`CHECK_DEADLOCK FALSE` in the DumpData runs: after the last run, or when builders are dead, the system
stops. That it stops only where it may is what `DumpEnds` says. In the other runs a part stops when it
has used up what its bounds allow, and `TaskReturns`, `LoopProgress`, `FetchesAnswered` and
`NeverStalls` say where it may not.

### Disagreements with the code's own words

1. `dump_skipped`: a file is recorded when its documents are *queued* (`DumpData.java:184`). A kill
   then loses them and the next run prints "Has Already Stored, Skipped" (`DumpData.java:129`).
2. `dump_shared_table`: the first builder to end closes the files of all (`IndexBuilder.java:128`,
   static table at line 37); others end with an exception and the import never returns, against the
   comment at `IndexBuilder.java:80-81`.
3. `dump_early_end`: "//wait producers" (`DumpData.java:142`) waits for a `HashSet` changed without
   a lock at line 134; when the fetcher of an empty file completes while main adds the next one, the update of
   the size is lost, and the wait ends while that one has still to read.
4. `store_overflow`: "@param offset offset in .store file" (`Document.java:78`) is an int that wraps
   (`DocumentFile.java:68,91`).
5. `tasks_left`: "The function will block until all of the tasks are completed."
   (`task_runner.py:99`), but a thread checks whether it was terminated between being given its last
   item and running it (`task_runner.py:63`), and then drops the item.
6. `close_unheard`: "Call the given callback when the stream is closed." (`iostream.py:216`); a read
   that meets the end of the connection at once (`iostream.py:389`) closes the stream while it counts as
   a pending callback, and nothing runs the close callback when the count goes down again.
7. `timer_ends`: "dump blacklists to file every 10 minutes" (`BlackList.java:25`); two dumps share
   one stream (`BlackListFile.java:23`), one sets it to null under the other, and the exception ends the
   timer for good (`BlackList.java:94`).

"Requests currently in progress may still continue after the server is stopped" (`netutil.py:184-185`) is
checked of the first stop only. `stop` keeps the numbers of the sockets it has closed
(`netutil.py:187`), so that a server which listens again and is stopped again takes the handler from a
connection that was given one of these numbers; the module has that behaviour, no run asks about it.

### Fairness

`FairSpec` has weak fairness for main's next step, for each fetcher and for each builder. Every
thread is a Java thread the scheduler runs; main polls every second; a blocked `put`, `take` or
monitor entry is woken when it can go on (once the lock is free or the queue has room, it stays so
until *some* waiting thread takes it, and `WF` of the thread suffices since in the checked instance
each waiter is served after finitely many others). `Start`, `Crash` and the faults are not fair.
`DumpEnds` is stated for one builder and no I/O error, because with two builders finding 2 is a
counterexample, and a builder that dies of an error keeps main waiting by design of the code.

`RuntimeFairness` has, for the part that runs: for the loop, the next step of `start` and of what it
called (the application's code returns), the second thread's pending write to the waker, and the clock;
for `TaskRunner`, main and each thread (they are OS threads, and the locks and semaphores of `threading`
wake a waiter); for the client, the loop's next callback or timer of each connection. The network is
not fair: a server may never answer. Adding callbacks, starting fetches and stopping the loop are not
fair either. `LoopProgress` and `FetchesAnswered` are of the form `[]<>`: as the bounds leave a last
callback and a last fetch, "again and again none is owed" is "each is answered".

## 4. Proofs

For every value of the constants that the named assumptions of the modules allow (in `DumpData` any number
of fetchers, builders, files, records, runs and faults):

| Theorem | States |
|---|---|
| `TypeCorrect` | `Spec => []TypeOK` |
| `IndexAlwaysSound` | `Spec => []IndexSound` |
| `EndComesLast` | `Spec => []ProducersWaitedFor` |
| `DoneIsBuilt` | `Spec => []DoneMeansBuilt` |
| `DoneIsRecorded` | `Spec => []DoneRecordsEveryFile` |
| `FilesAreNotReread` | `Spec => NeverReread` |
| `StoredOncePerAttempt` | `Spec => []AtMostOncePerAttempt` |
| `CompleteDumpAlwaysIndexed` | `Spec => []CompleteDumpIsIndexed` |
| `ItemsReadBackHolds` | `OffsetsFit => (Spec => []ItemsReadBack)` |
| `CompletedWritesStayHolds` | `OffsetsFit => (Spec => []CompletedWritesStay)` |
| `LogImplemented` | `OffsetsFit => (Spec => ImplementsIndexedLog)` |
| `CallbacksAlwaysInOrder` | `Spec => []CallbacksInOrder` (of `IOLoop`) |
| `EventsAlwaysMeetTheirHandler` | `Spec => []EventsMeetTheirHandler` (of `IOLoop`) |
| `PollersAlwaysAgree` | `RuntimeSpec => []PollersAgree` |
| `PeriodicAlwaysGoesOn` | `RuntimeSpec => []GoesOn` |
| `PlacesAlwaysFilled` | `RuntimeSpec => []PlacesFilled` |
| `AlwaysAnsweredOnce` | `RuntimeSpec => []AnsweredOnce` |
| `ReturnsAtRest` | `TaskSpec => []NothingRunsAfterReturn` |
| `TwistedAlwaysServed` | `ReactorSpec => []TwistedIsServed` |
| `WritingAlwaysEnds` | `BlocksSpec => []WritingEnds` |
| `TasksAlwaysAttended` | `ServicesSpec => []TasksAttended` |
| `AnsweredIsAlwaysDone` | `ServicesSpec => []AnsweredIsDone` |
| `StaleAtMostASecond` | `DstShift = 0 => (ServicesSpec => []StaleWithinASecond)` |
| `NextDumpIsAlwaysSound` | `ServicesSpec => []NextDumpIsSound` |
| `FirstStopIsAlwaysClean` | `ServicesSpec => []FirstStopIsClean` |
| `WaitsAlwaysGetTheirResults` | `ServicesSpec => []WaitsGetTheirResults` |
| `ClosedAlwaysOnce` | `ServicesSpec => []ClosedOnce` |
| `MessagesAlwaysReassembled` | `ServicesSpec => []MessagesReassembled` |
| `BytesAlwaysInOrder` | `ServicesSpec => []BytesInOrder` |
| `StreamsAlwaysAttended` | `ServicesSpec => []Attended` |
| `ResponsesAlwaysSeparate` | `ServicesSpec => []ResponsesSeparate` |
| `AlwaysClosedInTime` | `~FlushCallbacksRaise => (ServicesSpec => []ClosedInTime)` |
| `ConnectionNeverStalls` | `ServicesSpec => []NeverStalls` |
| `AlwaysNestedAsWritten` | `ServicesSpec => []NestedAsWritten` |
| `HandlesAlwaysServe` | `ServicesSpec => []HandlesServe` |

The assumptions on the constants are `DumpAssumption`, `StoreAssumption`, `IOLoopAssumption`,
`TaskRunnerAssumption`, `ReactorAssumption`, `PeriodAssumption` (a period is not 0: with 0 the loop of
`_schedule_next` does not end), `InputsAssumption` (of the HTTP client: the responses are of the kinds
`SimpleHTTPClient` knows, and there may be any number of places and of fetches) and `SizesAssumption`; each
says no more than which values the code can be given, or that the pool of curl handles is finite. Some
theorems have a hypothesis of their own. `OffsetsFit` (`MaxBytes <= MaxInt + 1`): no file grows beyond what
an `int` can address, 2 GB; beyond it the run of `StoreOverflow.cfg` shows what goes wrong. `DstShift = 0`: the time zone of the server has no
summer time, in which the handler would read a date an hour late; the run `services` has it too. The clock
of the model is that of the server's file system, and it does not go back.
`~FlushCallbacksRaise`: the callback of a flush does not raise; the run `services` has the constant TRUE
and finds `ClosedInTime` to hold then as well. The other constants are unrestricted.
Of the application of a stream the module lets it read up to two bytes and write up to one at a time, any
number (`MaxOps`) of times.

The argument. `TypeOK` is inductive, with the lemma `Routing` (a natural hash has a builder and a file,
and the file is in the builder's directory). `IndexSound` needs what each builder holds between its two
writes: its position is that of its document, the last of its file, and no item names it yet; that no
other builder disturbs this is `Routing` again, since a builder only ever holds documents routed to it.
For the end of an import the invariant counts: as long as no fetcher has raced with main, the size of
`producerThreadSet` is the number of fetchers started and not yet removed, so that main sees 0 only when
all are removed; the lock then makes the last `FinishRecord` precede every `BuildComplete` (the ending
documents are sent after the last removal, and the one fetcher that may still have to record its files
holds the lock `BuildComplete` needs), so that the writer is still open. Behind an ending document a queue
stays empty, and a builder past it has an empty queue. For `NeverReread` the invariant is that a fetcher
reads only files of its share, that shares are disjoint and leave out what the process file named, and
that whatever it names beyond that belongs to a fetcher that is done.

*What is stored, and how often.* A document of the input has one way to the disk: the fetcher of its file
is still before it, or it is in the queue of its builder, or the builder holds it. `WayInv` says that it
is at one of these places at most, once, and that a document a builder has stored in this run is at none.
`Counted` then bounds the copies on disk by one more than the kills so far, and needs `WayInv` for the run
that goes on: a document still on its way has at most as many copies as there were kills. In the other
direction `NothingLost` (in `KeepInv`) says that, with no kill and no fault, every document is on its way
or indexed, or its builder is between the two writes or dead; when main is done the shares are read, the
queues empty and the builders closed, so that it is indexed. Both hold only while no fetcher completes
before main has started the last one (`raced`); the run of `DumpEarlyEnd.cfg` shows what happens
otherwise.

*The two files of a hash.* `IInv == TypeInv /\ PositionsInv /\ ItemsInv`. The store file is only appended
to, so a whole document stays; an item is written from the end of the last complete one, so that a cut
write adds none and overwrites none (`IndexGrows`), and only behind the document it points to.
`ItemsReadBack` is not inductive: it says nothing of the item in hand, which `ItemsInv` ties to a whole
document, nor of the positions and the offset, which `PositionsInv` ties to the ends of the files. For the
refinement the log is the list of the documents the complete items lead to (`ReadBack`); `ItemAt` and
`DocAt` state, byte by byte, what `readAll` and `readOne` then find, and the arithmetic of places is in
lemmas over natural numbers (`CompleteItems`, `CompleteAt`).

*Parts of a composition.* A behaviour of `MCRuntime` or `MCServices` is one of a single part. The lemma
`PartsAlone` of `RuntimeProofs` and of `ServicesProofs` says that a step is a step of one part that leaves
the variables of the others alone; an invariant of a part is then proved against the part's own next-state
relation.

*The event loop.* `QueueInv`: the rest of this iteration's callbacks followed by the queue are the
consecutive numbers `ran + 1 .. added`. The order alone is not inductive, because a callback that is being
added and one that was taken out look alike without the count; `BatchDone` says that the batch is empty
whenever `start` is not in the phase that runs it. `EventsInv` says of every polled event that it carries
the registration now under its descriptor, which `remove_handler` keeps by taking the event along
(`EventsWithout`), so that a new registration of the same number never inherits it.

*The worker threads.* `NothingRunsAfterReturn` sums up over all threads, and the invariant `TasksInv` says
why for each: which flags a thread can have set at each of its steps (`FlagsOK`), which item it then holds
(`ItemOK`), that an item is owed by one thread only (`OwedOnce`), that every item taken from the source
has been run or is owed or was a thread's last (`Accounted`), and that a thread main has joined is at rest
(`JoinedRest`).

*The blocks of templates.* A circle cannot be excluded by looking at two blocks. `BlocksInv` orders them:
a block is found after the one it stands in (`ParentsFirst`), the kept one of a name is the last found
(`LatestKept`), so that what a body leads to was always found later.

*The reactor for Twisted.* What the loop polls is the last of four maps, and no operation looks at all of
them. `Matches` says that they are a function of what the objects want and of their descriptors: an object
is in `_readers` with its own number exactly if it wants to read, `_fds` is the inverse of `_readers` and
`_writers`, and the handler of a number has the sides of its entry. Each operation keeps it (`AddMatches`,
`RemoveMatches`, `EmptiedMatches`, `CloseMatches`, and `FilenoMatches` for a number that changes hands);
that no two open objects have one number is part of it.

*The pollers and the periodic callbacks.* `PollersInv`: epoll's table, kqueue's two filters and select's
three sets are each a function of `asked`, what the loop has been told of a descriptor; what the three
report of the same descriptors then differs only as the property says. `PeriodicInv`: the next time lies
at most a period ahead. `_schedule_next` adds whole periods to the last one until it is beyond the clock,
so that the time one period before is not beyond it, however long the callback took (`NextTimeIsNear`).

*The processes.* `ForksInv`: every process that was not reaped is a child the master knows
(`ChildrenKnown`), each child has an id of its own (`OwnIds`), and there are as many processes as ids
given and restarts together, until the master gives up at the restart after the last it may make
(`ForksCounted`).

*The blacklist service.* `ServiceInv` says of the request under way that its commands are still to send or
that the nodes have obeyed them (`CommandsObeyed`), for `clear` up to which node; and that what it is
about has no answer that counts yet (`RequestOpen`). Two docids have not both the node and the id there in
common (`DocidsDiffer`), so that a command undoes no other docid's. Of the files
`FilesAgree` says with `dumped` what the property says of the nodes with `outcome`, so that a start makes
the second of the first. A
request goes on while a node starts again; its answer then tells of a docid of that node only if the
command was sent after the start (`StillAbout`).

*The files of the browser.* `StaticInv` says of every copy that its content was in the file no earlier
than the date it came with (`CopyDated`), and of the file that its times never go back (`WrittenInOrder`);
between `stat` and `read` a request holds a date the file has reached.

*The dumps of the blacklist.* `BlackInv`: a stream in the field has a thread that will assign null, or it
has failed (`StreamOwned`), and a dump that has met no other and no error has written exactly what it has
no longer left (`Reached`, in `LoneInv`).

*The listening server.* `TcpInv`: a number that is free has no handler (`FreeUnhandled`), so that none
meets its next user; a listening socket has one exactly if it is not pending (`SocketsHandled`), and a
connection has one until the second stop (`ConnectionsHandled`).

*Generators.* `GenInv`: a pending key has a last callback, not called yet if there is no result
(`PendingLast`); a result is of a callback that was called (`ResultsOfCalls`); unless a callback is called
twice, only the last of its key is still to be called (`CalledInTurn`); a suspended generator waits for a
pending key without a result (`SuspendedRight`). That a list of keys that are not all ready has a first
one that is not is an induction over the natural numbers, by a least counterexample.

*WebSockets.* `WsInv` (from the challenge on): the close callback is the first in the queue or there is none, and once it has run
the handler is detached (`ClosedFirst`); a server that has closed an open connection has a timer
(`WsTimed`); a closed stream has told so, or a callback is left that will (`WsTold`, which holds between
the callbacks and not within one). The methods call each other, so that each has a lemma about what it
keeps wherever it is called (`WsBase`, `WsMid`).
For the messages, `MsgInv` joins two things. One is the place in what the client sent: the pieces follow
each other frame by frame (`SentIn`), one is handed over at a time (`Handled`), and the frames read are
those whose last piece was handled (`Counts`), unless the client counts as gone. The other is what the
frames read so far say, with no connection in sight (`Says`): all are legal, the messages that are whole
were delivered (`DeliveredIn`) and the fragments kept are those of a message that is begun (`KeptIn`); or
one was not legal, what was delivered stops before it (`LostIn`), and the connection is dead or collects a
message whose first frame it will not deliver. The second is a state of its own because the code looks at
the opcode of a fragmented message only when its last frame has come.

*Streams.* `IoInv`. The pieces in the queue follow each other from the last byte the application has seen
to the first in the buffer (`Follows`), and a pending `read_bytes` has its end where the buffer's start and
the bytes still missing put it, however much of it was streamed (`GoalAhead`): that is `BytesInOrder`, whose
last place of a set is found by a least counterexample again. `Attended` is about a stream at rest, while
every step that can bring it to rest does so because `_pending_callbacks` is 0. So the invariant counts:
what is pending are the callbacks in the queue but for an error, which is not counted (`Pending`), and
there is one error at most, among the callbacks the loop runs before it polls again (`ErrorDue`). Then an
open stream that was used is registered, or has a callback pending, or one is running that ends in
`_maybe_add_error_listener` (`Listens`); a closed one that owes its close callback has one pending or
running, or is the exception of finding 6 (`Told`); and an open one listens for the read and the write
that wait (`ReadsWanted`, `WritesWanted`). The methods call each other here too: each has a lemma that it
keeps `IoBase` and is a step of `IoTold`, which is transitive. The one place where this fails is the read
loop, which holds up the pending count while it closes the stream; `ReadLoopClosing` says that it closes as
if it did not, but for the close callback, which waits.

*HTTP connections.* `HttpInv`. A connection stands in one of four places (`Stage`): between two requests
with a read of the next head under way; in the body of one; in the handler of one, with no read at all;
or at its end. One read is under way at a time, asked for or with its callback in the queue (`Reading`),
so that the head of a pipelined request is not looked at before the last one is answered: all requests
before the one at hand have a finished handler and those after it none (`Before`). The last part sent is
the last its handler wrote (`LastSent`), from which the order of all parts follows one part at a time.
The news of the end is first in the queue, and the handler it is for has not heard it (`ClosedNews`); what
is left to write is of the request served (`LeftToWrite`). `NeverStalls` is about the time between
callbacks, so the invariant says what holds within one: a handler that has ended leaves something to
write, or the callback of a write is queued or running (`Followed`), and a handler that has not ended runs
or waits for a callback of its own (`GoesOn`). A handler may flush, finish, raise, or write an error page
that fails in its turn; each operator from `Flush` to `Returned` has a lemma over all stages, and the
client and the kernel may move between any two calls.

*The nesting of templates.* The property asks, for every line, where Python would look upwards from it,
however much was written in between. `ParserInv` says it for the lines of the future: the last line
indented less than the lines of an open block is the line the block stands under, and its clause the last
one not indented more (`Roof`); blocks are indented deeper from the outermost inwards (`Deeper`); and a
line written fits where it stands (`LineFits`). A line that is appended cannot come between another one and
what it stands under, and a clause takes over the place of the statement it continues.

*The handles of the curl client.* `CurlInv` is about the pool between the callbacks and within them: the
queue holds the requests that are queued, each once (`QueueIs`); the free list has each handle once and
none that runs (`FreeIs`); a handle that libcurl has runs a request of its own (`InfoIs`), and any other has
none and is free or has one whose setup raised (`LeftIs`); those completed still run (`CompletedIs`); and answers are counted (`AnswersAre`). `_process_queue` takes as many requests
as there are free handles and as set up without an exception. That any number of requests taken by as many
handles keeps the pool is `PoolTaken`; that there is a longest run of them, so that the `CHOOSE` of `Takes`
has a value, is a highest element of a bounded set (`HighestExists`); and after it either the queue or the
free list is empty or the setup of the last one raised.

*The places and answers of the HTTP client.* `ClientInv` is about the client between its methods, which
call each other: a method may free a place, take from the queue, answer and fetch again before it returns.
`Filled` says that no place is free while an entry waits, `Owed` that a fetch that was not answered has
exactly one entry or connection with its final callback, and an answered one none. Within `_run_callback`
the fetch is neither owed nor answered, so both predicates take the set of the fetches that are between
the two; a redirect hands the callback on in the same way, from the connection to the new entry. That the
body is whole depends on the stream: `Reads` says of each connection that one read is under way, asked for
or with its callback in the queue, and what has been read of the response by then (`AskedFor`, `OfRead`).
A close callback comes behind what was read; a timeout or an exception takes the final callback away, so
that a read that is answered later finds none. `_process_queue` is reasoned about as for the curl client:
`TakesIs` and `NthIs` say which entries are taken and which connection each becomes, by lowest and highest
elements of bounded sets, and `Moved` sums up what a call of it changes.

The callback of a `flush()` runs as a stream callback. In an asynchronous handler the context of
`@asynchronous` (`web.py:1111-1118`) catches what it raises; in any other handler nothing does, and
`_run_callback` of the stream closes the connection. `AlwaysClosedInTime` assumes that such a callback does
not raise (`~FlushCallbacksRaise`): that nothing written is lost would rest on which "written" events are
still queued when the callback runs, and the invariant keeps no account of them. The run `services` does
let it raise and finds `ClosedInTime` to hold: a handler that is not asynchronous has finished by then.

What the proofs changed. `NeverStalls` was satisfied by any request without a finished handler, also by
one whose body is never read or whose handler does not exist: it now names what the connection waits for.
`MessagesReassembled` sorted the frames of each message, an induction for the provers; it now says that
the numbers of the frames increase and which they are. A client of draft 76 could send a text with bits
set that only the other protocol has: `ClientSends` no longer lets it.
`ProcessQueue` of the curl client was a fold over the queue, which no prover can unfold, and now says at
once which requests are taken by which handles; that of `SimpleHTTPClient` filtered the queue, and now
names the positions that are taken. TLC finds the same states in both. An open block of a template
carries its indentation and the line it stands under, as the code writer's own nesting does, where the
module used to count and search the blocks around it.
In `WebSocket` and `SimpleHTTPClient` a CASE had overlapping arms, so that it did
not determine its value; both are now disjoint, in the order in which the code tests. The property of
generators said, in an earlier form, that any result comes from the callback registered last with its key;
the attempt to prove it showed that this fails when a key is called a second time and registered again,
beyond the bound of the run, and it now says so. `BytesInOrder` of streams speaks of the places of the
pieces in the queue, where it used to filter the queue: the provers can reason about the first.

Only model-checked: liveness and fairness (`DumpEnds`, `LoopProgress`, `FetchesAnswered`, `TaskReturns`),
out of the provers' reach, and of the invariants `ExceptionsGoHome`. It is about what `stack_context.wrap`
finds when it filters and folds the contexts of a callback one after the other, which would take
inductions over the lists that the provers cannot do. The runs that expect a violation are TLC's as well.

## 5. Not modelled, and what is left

Left out of the modules, with the reason:

- *Sorted index and lookup* (`IndexConverter`, `IndexReader`): sequential code over whole files; a
  module `SortedIndex` would check sort, write, load and search against a set of hashes, with a kill
  of the converter, on top of `IndexedLog`.
- *Query serving and handover* (`HttpQueryServer`): planned as `QueryServing` (requests of the worker
  threads over one shared file, with the blacklist) and `Handover` (predecessor, successor, pid file
  and port).
- *Error paths of `DumpData.Start`*: a process file that cannot be opened, or whose last flush was cut.
- *File names* (`FileNameHelper`): that distinct keys have distinct names; the partition of hashes is in
  `DumpData`.
- *Monitor, the deprecated TCP servers, deployment scripts, generated code*: no state that two steps or
  actors share, or no script starts them. `dump.py` and `run_mapreduce.py` poll HDFS in sequence;
  `url2docid` asks a server twice, with no state of its own.
- *The rest of Tornado* (auth, locale, escape, options, autoreload, database, testing, util): parsing,
  formatting and wrappers of other libraries.
- *Details of modelled parts*: an SSL client of `IOStream`, whose handshake follows its connect
  (`iostream.py:675-682`); a list with something in it that is no yield point, for which `Multi` raises
  past the generator (`gen.py:261`), and a `Multi` of more than two children or of one in another; a
  failed write of a blacklist's dump that has written a part of a hash; of `BlacklistService` a node that
  is replaced by a successor while it runs (`HttpQueryServer.java:91-153`), and dumps that meet or fail,
  which `BlackList` has; a WebSocket request with invalid headers, which is refused before there is a
  connection; a redirect that starts
  after its timeout; `PeriodicCallback.stop` and `start` within one call of the callback; a template that
  includes itself; the hour in which clocks go back, and files older than the answer, in `StaticFiles`;
  the shutdown of SSL. Visibility delays of the memory models of Java and Python are not modelled
  anywhere.

## 6. Running

`tlc -config DumpSafety.cfg MCDumpData.tla` and likewise for the other configurations (`Store*.cfg`
with `MCStoreFile.tla`, `Runtime.cfg` and `TasksLeft.cfg` with `MCRuntime.tla`, `Services.cfg`,
`CloseUnheard.cfg` and `TimerEnds.cfg` with `MCServices.tla`); `tlapm DumpDataProofs.tla` and likewise for
the other proof modules.
`PROJECT.json` names, for each property of a passing run, a definition and a mutated form of it
(`BuilderOf` and `BuilderOfOtherDigit`, say) that stands for a plausible bug: with the mutant in
place of the definition TLC finds the property violated.

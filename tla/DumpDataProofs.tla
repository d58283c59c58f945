--------------------------- MODULE DumpDataProofs ---------------------------
(***************************************************************************)
(* Theorems about DumpData for every value of its constants: its index,    *)
(* how a dump comes to its end, and what a run reads.                      *)
(***************************************************************************)
EXTENDS DumpData, TLAPS, FiniteSetTheorems

USE DumpAssumption

(* A hash belongs to one of the builders and to one of the files, and that *)
(* file is in the directory of that builder: SequenceFileFetcher 93 and    *)
(* FileNameHelper 42 take the same remainder.                              *)
LEMMA Routing ==
  ASSUME NEW h \in Nat
  PROVE  /\ BuilderOf(h) \in Builders
         /\ KeyOf(h) \in Keys
         /\ KeyOf(h)[1] = BuilderOf(h)
<1>1. h % WRITE_THREAD \in 0 .. WRITE_THREAD - 1
  OBVIOUS
<1>2. h \div WRITE_THREAD \in Nat
  OBVIOUS
<1>3. (h \div WRITE_THREAD) % FilesPerDir \in 0 .. FilesPerDir - 1
  BY <1>2
<1> QED
  BY <1>1, <1>3 DEF BuilderOf, KeyOf, Keys, Builders

(* A fetcher makes a document only of a record that is there, with a hash  *)
(* of its own.                                                             *)
LEMMA Records ==
  ASSUME NEW f \in Files, NEW n \in Nat \ {0}, n <= Len(Content[f])
  PROVE  /\ Content[f][n] \in Record
         /\ Usable(Content[f][n]) =>
              [hash |-> Content[f][n].hash, file |-> f, at |-> n] \in Doc
<1>1. Content[f] \in Seq(Record)
  BY DEF Files
<1>2. Content[f][n] \in Record
  BY <1>1
<1> QED
  BY <1>2 DEF Record, Usable, Doc

LEMMA TypeInit == Init => TypeOK
<1> SUFFICES ASSUME Init PROVE TypeOK
  OBVIOUS
<1>1. /\ processFile \subseteq Files /\ alreadyRead \subseteq Files
      /\ store \in [Keys -> Seq(Doc)] /\ uidx \in [Keys -> Seq(Item)]
  BY DEF Init
<1>2. /\ spawned \in 0 .. FETCH_THREAD /\ endsSent \in 0 .. WRITE_THREAD
      /\ sizeCopy \in Int /\ producerSize \in Int
      /\ runs \in Nat /\ crashes \in Nat /\ faults \in Nat
  BY DEF Init
<1>3. /\ fpc \in [Fetchers -> {"idle", "read", "remove", "record", "done"}]
      /\ todo \in [Fetchers -> SUBSET Files]
      /\ at \in [Fetchers -> Nat \ {0}] /\ fetchCopy \in [Fetchers -> Int]
  BY DEF Init
<1>4. /\ queue \in [Builders -> Seq(Doc \cup {EndDoc})]
      /\ bpc \in [Builders -> {"idle", "read", "open", "store", "index", "close",
                               "notify", "done", "dead"}]
      /\ bdoc \in [Builders -> Doc \cup {EndDoc}] /\ bpos \in [Builders -> Nat]
      /\ toClose \in [Builders -> SUBSET Keys] /\ snapshot \in [Builders -> SUBSET Keys]
  BY DEF Init
<1>5. \A b \in Builders : bpc[b] \in {"open", "store", "index"} => bdoc[b] \in Doc
  BY DEF Init
<1> QED
  BY <1>1, <1>2, <1>3, <1>4, <1>5 DEF Init, TypeOK

(* Appending to one of a family of sequences.                              *)
LEMMA AppendTyped ==
  ASSUME NEW D, NEW S, NEW q \in [D -> Seq(S)], NEW k \in D, NEW e \in S
  PROVE  [q EXCEPT ![k] = Append(@, e)] \in [D -> Seq(S)]
OBVIOUS

(* Taking the head of one of a family of sequences.                        *)
LEMMA TailTyped ==
  ASSUME NEW D, NEW S, NEW q \in [D -> Seq(S)], NEW k \in D, q[k] # <<>>
  PROVE  /\ Head(q[k]) \in S
         /\ [q EXCEPT ![k] = Tail(@)] \in [D -> Seq(S)]
<1>1. q[k] \in Seq(S)
  OBVIOUS
<1>2. Head(q[k]) \in S /\ Tail(q[k]) \in Seq(S)
  BY <1>1
<1> QED
  BY <1>2

(* Every step keeps the types.                                             *)
LEMMA TypeStep == TypeOK /\ [Next]_vars => TypeOK'
<1> SUFFICES ASSUME TypeOK, [Next]_vars PROVE TypeOK'
  OBVIOUS
<1> USE DEF diskVars, mainVars, fetchVars, buildVars, tableVars
<1>1. CASE Start
  BY <1>1 DEF TypeOK, Start, Anew, Share
<1>2. CASE SpawnRead
  BY <1>2 DEF TypeOK, SpawnRead
<1>3. CASE SpawnWrite
  <2>1. spawned \in Fetchers /\ spawned + 1 \in 0 .. FETCH_THREAD
    BY <1>3 DEF TypeOK, SpawnWrite, Fetchers
  <2>2. fpc' \in [Fetchers -> {"idle", "read", "remove", "record", "done"}]
    BY <1>3, <2>1 DEF TypeOK, SpawnWrite
  <2>3. /\ spawned' \in 0 .. FETCH_THREAD /\ producerSize' \in Int
        /\ mainPc' \in {"spawn", "waitProducers"}
        /\ (mainPc' = "spawn" => spawned' < FETCH_THREAD)
    BY <1>3, <2>1 DEF TypeOK, SpawnWrite
  <2> QED
    BY <1>3, <2>2, <2>3 DEF TypeOK, SpawnWrite
<1>4. CASE SeeProducersDone
  BY <1>4 DEF TypeOK, SeeProducersDone
<1>5. CASE SendEnd
  <2>1. endsSent \in Builders /\ endsSent + 1 \in 0 .. WRITE_THREAD
    BY <1>5 DEF TypeOK, SendEnd, Builders
  <2>2. queue' \in [Builders -> Seq(Doc \cup {EndDoc})]
    BY <1>5, <2>1, AppendTyped DEF TypeOK, SendEnd
  <2>3. /\ mainPc' \in {"sendEnd", "waitConsumers"}
        /\ (mainPc' = "sendEnd" => endsSent' < WRITE_THREAD)
    BY <1>5, <2>1 DEF TypeOK, SendEnd
  <2> QED
    BY <1>5, <2>1, <2>2, <2>3 DEF TypeOK, SendEnd
<1>6. CASE Finish
  BY <1>6 DEF TypeOK, Finish
<1>7. ASSUME NEW i \in Fetchers, FetchPut(i) PROVE TypeOK'
  <2>1. PICK f \in todo[i] : /\ at[i] <= Len(Content[f]) /\ Usable(Content[f][at[i]])
                             /\ queue' = [queue EXCEPT ![BuilderOf(Content[f][at[i]].hash)] =
                                  Append(@, [hash |-> Content[f][at[i]].hash, file |-> f,
                                             at |-> at[i]])]
                             /\ at' = [at EXCEPT ![i] = @ + 1]
    BY <1>7 DEF FetchPut
  <2>2. f \in Files /\ at[i] \in Nat \ {0}
    BY DEF TypeOK
  <2>3. [hash |-> Content[f][at[i]].hash, file |-> f, at |-> at[i]] \in Doc
    BY <2>1, <2>2, Records
  <2>4. BuilderOf(Content[f][at[i]].hash) \in Builders
    BY <2>3, Routing DEF Doc
  <2>5. queue' \in [Builders -> Seq(Doc \cup {EndDoc})]
    <3> DEFINE d == [hash |-> Content[f][at[i]].hash, file |-> f, at |-> at[i]]
               b == BuilderOf(d.hash)
    <3>1. queue' = [queue EXCEPT ![b] = Append(@, d)]
      BY <2>1
    <3>2. d \in Doc \cup {EndDoc} /\ b \in Builders
      BY <2>3, <2>4
    <3>3. queue \in [Builders -> Seq(Doc \cup {EndDoc})]
      BY DEF TypeOK
    <3> HIDE DEF d, b
    <3> QED
      BY <3>1, <3>2, <3>3, AppendTyped
  <2>6. at' \in [Fetchers -> Nat \ {0}]
    BY <2>1, <2>2 DEF TypeOK
  <2> QED
    BY <1>7, <2>5, <2>6 DEF TypeOK, FetchPut
<1>8. ASSUME NEW i \in Fetchers, FetchSkip(i) PROVE TypeOK'
  <2>1. at' \in [Fetchers -> Nat \ {0}]
    BY <1>8 DEF TypeOK, FetchSkip
  <2> QED
    BY <1>8, <2>1 DEF TypeOK, FetchSkip
<1>9. ASSUME NEW i \in Fetchers, FetchLeave(i) PROVE TypeOK'
  BY <1>9 DEF TypeOK, FetchLeave
<1>10. ASSUME NEW i \in Fetchers, FetchFault(i) PROVE TypeOK'
  BY <1>10 DEF TypeOK, FetchFault
<1>11. ASSUME NEW i \in Fetchers, FinishLock(i) PROVE TypeOK'
  BY <1>11 DEF TypeOK, FinishLock
<1>12. ASSUME NEW i \in Fetchers, FinishRemove(i) PROVE TypeOK'
  BY <1>12 DEF TypeOK, FinishRemove
<1>13. ASSUME NEW i \in Fetchers, FinishRecord(i) PROVE TypeOK'
  BY <1>13 DEF TypeOK, FinishRecord, Share
<1>14. ASSUME NEW b \in Builders, TakeDoc(b) PROVE TypeOK'
  <2>1. Head(queue[b]) \in Doc \cup {EndDoc} /\ queue' \in [Builders -> Seq(Doc \cup {EndDoc})]
    BY <1>14, TailTyped DEF TypeOK, TakeDoc
  <2>2. Head(queue[b]) \in Doc
    BY <1>14, <2>1 DEF TakeDoc, EndDoc
  <2>3. bpc'[b] \in {"store", "open"} /\ \A c \in Builders \ {b} : bpc'[c] = bpc[c]
    BY <1>14 DEF TypeOK, TakeDoc
  <2>4. bpc' \in [Builders -> {"idle", "read", "open", "store", "index", "close",
                              "notify", "done", "dead"}]
    BY <1>14, <2>3 DEF TypeOK, TakeDoc
  <2>5. bdoc' = [bdoc EXCEPT ![b] = Head(queue[b])]
    BY <1>14 DEF TakeDoc
  <2>6. /\ bdoc' \in [Builders -> Doc \cup {EndDoc}]
        /\ \A c \in Builders : bpc'[c] \in {"open", "store", "index"} => bdoc'[c] \in Doc
    BY <2>2, <2>3, <2>5 DEF TypeOK
  <2> QED
    BY <1>14, <2>1, <2>4, <2>6 DEF TypeOK, TakeDoc
<1>15. ASSUME NEW b \in Builders, OpenFiles(b) PROVE TypeOK'
  <2>1. KeyOf(bdoc[b].hash) \in Keys
    BY <1>15, Routing DEF TypeOK, OpenFiles, Doc
  <2> QED
    BY <1>15, <2>1 DEF TypeOK, OpenFiles
<1>16. ASSUME NEW b \in Builders, WriteStore(b) PROVE TypeOK'
  <2>1. bdoc[b] \in Doc /\ KeyOf(bdoc[b].hash) \in Keys
    BY <1>16, Routing DEF TypeOK, WriteStore, Doc
  <2>2. store' \in [Keys -> Seq(Doc)]
    BY <1>16, <2>1, AppendTyped DEF TypeOK, WriteStore
  <2>3. store[KeyOf(bdoc[b].hash)] \in Seq(Doc)
    BY <2>1 DEF TypeOK
  <2>4. bpos' \in [Builders -> Nat]
    BY <1>16, <2>3 DEF TypeOK, WriteStore
  <2> QED
    BY <1>16, <2>1, <2>2, <2>4 DEF TypeOK, WriteStore
<1>17. ASSUME NEW b \in Builders, WriteIndex(b) PROVE TypeOK'
  <2>1. bdoc[b] \in Doc /\ KeyOf(bdoc[b].hash) \in Keys
    BY <1>17, Routing DEF TypeOK, WriteIndex, Doc
  <2>2. [hash |-> bdoc[b].hash, pos |-> bpos[b]] \in Item
    BY <2>1 DEF TypeOK, Item, Doc
  <2>3. uidx' \in [Keys -> Seq(Item)]
    BY <1>17, <2>1, <2>2, AppendTyped DEF TypeOK, WriteIndex
  <2> QED
    BY <1>17, <2>3 DEF TypeOK, WriteIndex
<1>18. ASSUME NEW b \in Builders, WriteFails(b) PROVE TypeOK'
  BY <1>18 DEF TypeOK, WriteFails, AfterException
<1>19. ASSUME NEW b \in Builders, TakeEnd(b) PROVE TypeOK'
  BY <1>19 DEF TypeOK, TakeEnd
<1>20. ASSUME NEW b \in Builders, CloseOne(b) PROVE TypeOK'
  BY <1>20 DEF TypeOK, CloseOne
<1>21. ASSUME NEW b \in Builders, CloseFails(b) PROVE TypeOK'
  BY <1>21 DEF TypeOK, CloseFails, AfterException
<1>22. ASSUME NEW b \in Builders, CloseDone(b) PROVE TypeOK'
  BY <1>22 DEF TypeOK, CloseDone
<1>23. ASSUME NEW b \in Builders, BuildComplete(b) PROVE TypeOK'
  BY <1>23 DEF TypeOK, BuildComplete
<1>24. ASSUME NEW b \in Builders, DiskFault(b) PROVE TypeOK'
  BY <1>24 DEF TypeOK, DiskFault, AfterException
<1>25. CASE Crash
  <2>1. /\ fpc' \in [Fetchers -> {"idle", "read", "remove", "record", "done"}]
        /\ todo' \in [Fetchers -> SUBSET Files] /\ at' \in [Fetchers -> Nat \ {0}]
        /\ fetchCopy' \in [Fetchers -> Int]
    BY <1>25 DEF Crash, Anew
  <2>2. /\ queue' \in [Builders -> Seq(Doc \cup {EndDoc})]
        /\ bpc' = [c \in Builders |-> "idle"]
        /\ bdoc' \in [Builders -> Doc \cup {EndDoc}] /\ bpos' \in [Builders -> Nat]
        /\ toClose' \in [Builders -> SUBSET Keys] /\ snapshot' \in [Builders -> SUBSET Keys]
    BY <1>25 DEF Crash, Anew
  <2>3. /\ mainPc' = "down" /\ alreadyRead' = {} /\ threadSet' = {} /\ writerOpen' = FALSE
        /\ spawned' = 0 /\ sizeCopy' = 0 /\ producerSize' = 0 /\ endsSent' = 0
        /\ monitor' = -1 /\ step1Files' = {} /\ closedFiles' = {}
        /\ crashes' = crashes + 1 /\ UNCHANGED <<diskVars, runs, faults, raced>>
    BY <1>25 DEF Crash, Anew
  <2>4. /\ bpc' \in [Builders -> {"idle", "read", "open", "store", "index", "close",
                                 "notify", "done", "dead"}]
        /\ \A c \in Builders : bpc'[c] \in {"open", "store", "index"} => bdoc'[c] \in Doc
    BY <2>2
  <2>5. /\ processFile' \subseteq Files /\ alreadyRead' \subseteq Files
        /\ store' \in [Keys -> Seq(Doc)] /\ uidx' \in [Keys -> Seq(Item)]
        /\ spawned' \in 0 .. FETCH_THREAD /\ endsSent' \in 0 .. WRITE_THREAD
        /\ runs' \in Nat /\ crashes' \in Nat /\ faults' \in Nat /\ raced' \in BOOLEAN
    BY <2>3 DEF TypeOK
  <2>6. /\ sizeCopy' \in Int /\ producerSize' \in Int /\ threadSet' \subseteq Builders
        /\ monitor' \in Fetchers \cup {-1}
        /\ step1Files' \subseteq Keys /\ closedFiles' \subseteq Keys
    BY <2>3
  <2>7. mainPc' = "down" /\ writerOpen' \in BOOLEAN
    BY <1>25 DEF Crash, Anew
  <2> QED
    BY <2>1, <2>2, <2>4, <2>5, <2>6, <2>7 DEF TypeOK
<1>26. CASE UNCHANGED vars
  BY <1>26 DEF TypeOK, vars
<1> QED
  BY <1>1, <1>2, <1>3, <1>4, <1>5, <1>6, <1>7, <1>8, <1>9, <1>10, <1>11, <1>12, <1>13, <1>14, <1>15, <1>16, <1>17, <1>18, <1>19, <1>20, <1>21, <1>22, <1>23, <1>24, <1>25, <1>26
     DEF Next, MainStep, FetcherStep, BuilderStep, Environment

(* Every variable keeps its type, and a builder at work holds a document.  *)
THEOREM TypeCorrect == Spec => []TypeOK
BY TypeInit, TypeStep, PTL DEF Spec

-----------------------------------------------------------------------------
(* The index is sound. The routing of the fetchers makes each builder the  *)
(* owner of a directory: what is in its queue, and what it works on,       *)
(* belongs there. So between its two writes nobody else appends to the     *)
(* file, and the offset it has remembered still is that of its document.   *)

Owned ==
    /\ \A b \in Builders : \A n \in 1 .. Len(queue[b]) :
          queue[b][n].hash # -1 => BuilderOf(queue[b][n].hash) = b
    /\ \A b \in Builders :
          bpc[b] \in {"open", "store", "index"} => BuilderOf(bdoc[b].hash) = b

\* A document that is stored and not yet indexed is the last of its file.
Pending ==
    \A b \in Builders : bpc[b] = "index" =>
        /\ bpos[b] = Len(store[KeyOf(bdoc[b].hash)])
        /\ bpos[b] > 0
        /\ store[KeyOf(bdoc[b].hash)][bpos[b]] = bdoc[b]
        /\ \A q \in DOMAIN uidx[KeyOf(bdoc[b].hash)] :
              uidx[KeyOf(bdoc[b].hash)][q].pos < bpos[b]

IndexInv == TypeOK /\ Owned /\ Pending /\ IndexSound

LEMMA IndexInit == Init => IndexInv
<1> SUFFICES ASSUME Init PROVE IndexInv
  OBVIOUS
<1>1. TypeOK
  BY TypeInit
<1>2. Owned /\ Pending
  BY DEF Init, Owned, Pending
<1>3. IndexSound
  BY DEF Init, IndexSound
<1> QED
  BY <1>1, <1>2, <1>3 DEF IndexInv

(* A step that writes nothing and takes no document up keeps the invariant. *)
LEMMA IndexFrame ==
  ASSUME IndexInv, TypeOK', UNCHANGED <<store, uidx, bdoc, bpos>>,
         \A b \in Builders : bpc'[b] \in {"open", "store", "index"} => 
             /\ bpc[b] \in {"open", "store", "index"}
             /\ bpc'[b] = "index" => bpc[b] = "index",
         \A b \in Builders : \A n \in 1 .. Len(queue'[b]) :
             queue'[b][n].hash # -1 => BuilderOf(queue'[b][n].hash) = b
  PROVE  IndexInv'
<1>1. Owned'
  BY DEF IndexInv, Owned
<1>2. Pending'
  BY DEF IndexInv, Pending
<1>3. IndexSound'
  BY DEF IndexInv, IndexSound
<1> QED
  BY <1>1, <1>2, <1>3 DEF IndexInv

(* The elements of a sequence with one more, and of a tail.                *)
LEMMA AppendElements ==
  ASSUME NEW S, NEW q \in Seq(S), NEW e \in S
  PROVE  /\ Append(q, e) \in Seq(S)
         /\ Len(Append(q, e)) = Len(q) + 1
         /\ \A n \in 1 .. Len(q) : Append(q, e)[n] = q[n]
         /\ Append(q, e)[Len(q) + 1] = e
OBVIOUS

LEMMA TailElements ==
  ASSUME NEW S, NEW q \in Seq(S), q # <<>>
  PROVE  /\ Len(Tail(q)) = Len(q) - 1 /\ Len(q) > 0
         /\ \A n \in 1 .. Len(Tail(q)) : n + 1 \in 1 .. Len(q) /\ Tail(q)[n] = q[n + 1]
OBVIOUS

LEMMA IndexStep == IndexInv /\ [Next]_vars => IndexInv'
<1> SUFFICES ASSUME IndexInv, [Next]_vars PROVE IndexInv'
  OBVIOUS
<1>t. TypeOK /\ TypeOK'
  BY TypeStep DEF IndexInv
<1>o. Owned /\ Pending /\ IndexSound
  BY DEF IndexInv
<1> USE DEF diskVars, mainVars, fetchVars, buildVars, tableVars
<1>1. CASE \/ Start \/ Crash
  <2>1. \A b \in Builders : bpc'[b] \notin {"open", "store", "index"} /\ queue'[b] = <<>>
    BY <1>1 DEF Start, Crash, Anew
  <2>2. UNCHANGED <<store, uidx>>
    BY <1>1 DEF Start, Crash, Anew
  <2>3. Owned' /\ Pending'
    BY <2>1 DEF Owned, Pending
  <2>4. IndexSound'
    BY <1>o, <2>2 DEF IndexSound
  <2> QED
    BY <1>t, <2>3, <2>4 DEF IndexInv
<1>2. CASE SpawnRead \/ SpawnWrite \/ SeeProducersDone \/ Finish
  BY <1>2, <1>t, <1>o, IndexFrame DEF SpawnRead, SpawnWrite, SeeProducersDone, Finish, Owned
<1>3. CASE SendEnd
  <2>1. endsSent \in Builders /\ queue[endsSent] \in Seq(Doc \cup {EndDoc})
    BY <1>3, <1>t DEF TypeOK, SendEnd, Builders
  <2>2. \A b \in Builders : \A n \in 1 .. Len(queue'[b]) :
             queue'[b][n].hash # -1 => BuilderOf(queue'[b][n].hash) = b
    BY <1>3, <1>t, <1>o, <2>1, AppendElements DEF TypeOK, SendEnd, Owned, EndDoc
  <2> QED
    BY <1>3, <1>t, <2>2, IndexFrame DEF SendEnd
<1>4. ASSUME NEW i \in Fetchers, FetchPut(i) PROVE IndexInv'
  <2>1. PICK f \in todo[i] : /\ at[i] <= Len(Content[f]) /\ Usable(Content[f][at[i]])
                             /\ queue' = [queue EXCEPT ![BuilderOf(Content[f][at[i]].hash)] =
                                  Append(@, [hash |-> Content[f][at[i]].hash, file |-> f,
                                             at |-> at[i]])]
    BY <1>4 DEF FetchPut
  <2> DEFINE d == [hash |-> Content[f][at[i]].hash, file |-> f, at |-> at[i]]
  <2>2. d \in Doc
    BY <1>t, <2>1, Records DEF TypeOK
  <2>3. BuilderOf(d.hash) \in Builders
    BY <2>2, Routing DEF Doc
  <2>4. queue' = [queue EXCEPT ![BuilderOf(d.hash)] = Append(@, d)]
    BY <2>1
  <2> HIDE DEF d
  <2>5. \A b \in Builders : \A n \in 1 .. Len(queue'[b]) :
             queue'[b][n].hash # -1 => BuilderOf(queue'[b][n].hash) = b
    <3> SUFFICES ASSUME NEW b \in Builders, NEW n \in 1 .. Len(queue'[b]),
                        queue'[b][n].hash # -1
                 PROVE  BuilderOf(queue'[b][n].hash) = b
      OBVIOUS
    <3>1. CASE b # BuilderOf(d.hash)
      BY <3>1, <1>t, <1>o, <2>4 DEF TypeOK, Owned
    <3>2. CASE b = BuilderOf(d.hash)
      <4>1. queue[b] \in Seq(Doc \cup {EndDoc}) /\ queue'[b] = Append(queue[b], d)
        BY <3>2, <1>t, <2>3, <2>4 DEF TypeOK
      <4>2. n \in 1 .. Len(queue[b]) \/ queue'[b][n] = d
        BY <4>1, <2>2, AppendElements
      <4> QED
        BY <3>2, <4>1, <4>2, <2>2, <1>o, AppendElements DEF Owned
    <3> QED
      BY <3>1, <3>2
  <2>6. UNCHANGED <<store, uidx, bdoc, bpos, bpc>>
    BY <1>4 DEF FetchPut
  <2> QED
    BY <1>t, <2>5, <2>6, IndexFrame
<1>5. ASSUME NEW i \in Fetchers,
             \/ FetchSkip(i) \/ FetchLeave(i) \/ FetchFault(i)
             \/ FinishLock(i) \/ FinishRemove(i) \/ FinishRecord(i)
      PROVE  IndexInv'
  <2>1. UNCHANGED <<store, uidx, bdoc, bpos, bpc, queue>>
    BY <1>5 DEF FetchSkip, FetchLeave, FetchFault, FinishLock, FinishRemove, FinishRecord
  <2> QED
    BY <1>t, <1>o, <2>1, IndexFrame DEF Owned
<1>6. ASSUME NEW b \in Builders, TakeDoc(b) \/ TakeEnd(b) PROVE IndexInv'
  <2>1. queue[b] \in Seq(Doc \cup {EndDoc}) /\ queue[b] # <<>>
    BY <1>6, <1>t DEF TypeOK, TakeDoc, TakeEnd
  <2>2. queue' = [queue EXCEPT ![b] = Tail(@)]
    BY <1>6 DEF TakeDoc, TakeEnd
  <2>3. \A c \in Builders : \A n \in 1 .. Len(queue'[c]) :
             queue'[c][n].hash # -1 => BuilderOf(queue'[c][n].hash) = c
    <3> SUFFICES ASSUME NEW c \in Builders, NEW n \in 1 .. Len(queue'[c]),
                        queue'[c][n].hash # -1
                 PROVE  BuilderOf(queue'[c][n].hash) = c
      OBVIOUS
    <3>1. CASE c # b
      BY <3>1, <1>t, <1>o, <2>2 DEF TypeOK, Owned
    <3>2. CASE c = b
      <4>1. queue'[b] = Tail(queue[b])
        BY <1>t, <2>2 DEF TypeOK
      <4>2. n + 1 \in 1 .. Len(queue[b]) /\ queue'[b][n] = queue[b][n + 1]
        BY <3>2, <4>1, <2>1, TailElements
      <4> QED
        BY <3>2, <4>2, <1>o DEF Owned
    <3> QED
      BY <3>1, <3>2
  <2>4. CASE TakeEnd(b)
    BY <2>3, <2>4, <1>t, IndexFrame DEF TakeEnd, TypeOK
  <2>5. CASE TakeDoc(b)
    <3>1. /\ bpc'[b] \in {"open", "store"} /\ bdoc'[b] = Head(queue[b])
          /\ \A c \in Builders \ {b} : bpc'[c] = bpc[c] /\ bdoc'[c] = bdoc[c]
          /\ UNCHANGED <<store, uidx, bpos>>
      BY <2>5, <1>t DEF TakeDoc, TypeOK
    <3>2. BuilderOf(bdoc'[b].hash) = b
      BY <2>1, <2>5, <3>1, <1>o DEF Owned, TakeDoc
    <3>3. Owned'
      BY <2>3, <3>1, <3>2, <1>o DEF Owned
    <3>4. Pending'
      BY <3>1, <1>o DEF Pending
    <3>5. IndexSound'
      BY <3>1, <1>o DEF IndexSound
    <3> QED
      BY <1>t, <3>3, <3>4, <3>5 DEF IndexInv
  <2> QED
    BY <1>6, <2>4, <2>5
<1>7. ASSUME NEW b \in Builders,
             \/ OpenFiles(b) \/ WriteFails(b) \/ CloseOne(b) \/ CloseFails(b)
             \/ CloseDone(b) \/ BuildComplete(b) \/ DiskFault(b)
      PROVE  IndexInv'
  <2>1. UNCHANGED <<store, uidx, bdoc, bpos, queue>>
    BY <1>7 DEF OpenFiles, WriteFails, CloseOne, CloseFails, CloseDone, BuildComplete, DiskFault
  <2>2. \A c \in Builders : bpc'[c] \in {"open", "store", "index"} =>
             /\ bpc[c] \in {"open", "store", "index"}
             /\ bpc'[c] = "index" => bpc[c] = "index"
    <3>1. CASE CloseOne(b)
      BY <3>1 DEF CloseOne
    <3>2. CASE OpenFiles(b)
      BY <3>2, <1>t DEF TypeOK, OpenFiles
    <3>3. CASE ~OpenFiles(b) /\ ~CloseOne(b)
      <4>1. PICK pc \in {"dead", "notify", "done"} : bpc' = [bpc EXCEPT ![b] = pc]
        BY <1>7, <3>3 DEF WriteFails, CloseFails, CloseDone, BuildComplete, DiskFault,
                          AfterException
      <4> QED
        BY <4>1, <1>t DEF TypeOK
    <3> QED
      BY <3>1, <3>2, <3>3
  <2> QED
    BY <1>t, <1>o, <2>1, <2>2, IndexFrame DEF Owned
<1>8. ASSUME NEW b \in Builders, WriteStore(b) PROVE IndexInv'
  <2> DEFINE k == KeyOf(bdoc[b].hash)
  <2>1. bdoc[b] \in Doc /\ k \in Keys /\ k[1] = b
    BY <1>8, <1>t, <1>o, Routing DEF TypeOK, WriteStore, Doc, Owned
  <2>2. /\ store' = [store EXCEPT ![k] = Append(@, bdoc[b])]
        /\ bpos' = [bpos EXCEPT ![b] = Len(store[k]) + 1]
        /\ bpc' = [bpc EXCEPT ![b] = "index"]
        /\ UNCHANGED <<uidx, bdoc, queue>>
    BY <1>8 DEF WriteStore
  <2>3. store[k] \in Seq(Doc) /\ store'[k] = Append(store[k], bdoc[b])
    BY <1>t, <2>1, <2>2 DEF TypeOK
  <2>4. \A c \in Builders \ {b} : bpc[c] = "index" => KeyOf(bdoc[c].hash) # k
    BY <1>t, <1>o, <2>1, Routing DEF TypeOK, Owned, Doc
  <2>5. /\ Len(store'[k]) = Len(store[k]) + 1
        /\ store'[k][Len(store[k]) + 1] = bdoc[b]
        /\ \A n \in 1 .. Len(store[k]) : store'[k][n] = store[k][n]
    BY <2>1, <2>3, AppendElements
  <2> HIDE DEF k
  <2>6. Owned'
    BY <1>8, <1>t, <1>o, <2>2 DEF Owned, TypeOK, WriteStore
  <2>7. IndexSound'
    <3> SUFFICES ASSUME NEW l \in Keys
                 PROVE  /\ \A q \in DOMAIN uidx[l] :
                              /\ uidx[l][q].pos \in DOMAIN store'[l]
                              /\ store'[l][uidx[l][q].pos].hash = uidx[l][q].hash
                              /\ KeyOf(uidx[l][q].hash) = l
                        /\ \A p, q \in DOMAIN uidx[l] :
                              p < q => uidx[l][p].pos < uidx[l][q].pos
      BY <2>2 DEF IndexSound
    <3>1. CASE l # k
      BY <3>1, <1>t, <1>o, <2>2 DEF IndexSound, TypeOK
    <3>2. CASE l = k
      <4>1. /\ \A q \in DOMAIN uidx[k] :
                  /\ uidx[k][q].pos \in DOMAIN store[k]
                  /\ store[k][uidx[k][q].pos].hash = uidx[k][q].hash
                  /\ KeyOf(uidx[k][q].hash) = k
            /\ \A p, q \in DOMAIN uidx[k] : p < q => uidx[k][p].pos < uidx[k][q].pos
        BY <1>o, <2>1 DEF IndexSound
      <4>2. DOMAIN store[k] = 1 .. Len(store[k]) /\ DOMAIN store'[k] = 1 .. Len(store[k]) + 1
        BY <2>1, <2>3, <2>5, AppendElements
      <4>3. Len(store[k]) \in Nat
        BY <2>3
      <4>4. \A q \in DOMAIN uidx[k] :
               /\ uidx[k][q].pos \in DOMAIN store'[k]
               /\ store'[k][uidx[k][q].pos].hash = uidx[k][q].hash
               /\ KeyOf(uidx[k][q].hash) = k
        <5> SUFFICES ASSUME NEW q \in DOMAIN uidx[k]
                     PROVE  /\ uidx[k][q].pos \in DOMAIN store'[k]
                            /\ store'[k][uidx[k][q].pos].hash = uidx[k][q].hash
                            /\ KeyOf(uidx[k][q].hash) = k
          OBVIOUS
        <5>1. uidx[k][q].pos \in 1 .. Len(store[k])
          BY <4>1, <4>2
        <5>2. store'[k][uidx[k][q].pos] = store[k][uidx[k][q].pos]
          BY <5>1, <2>5
        <5> QED
          BY <4>1, <4>2, <4>3, <5>1, <5>2
      <4> QED
        BY <3>2, <4>1, <4>4
    <3> QED
      BY <3>1, <3>2
  <2>8. Pending'
    <3> SUFFICES ASSUME NEW c \in Builders, bpc'[c] = "index"
                 PROVE  /\ bpos'[c] = Len(store'[KeyOf(bdoc[c].hash)])
                        /\ bpos'[c] > 0
                        /\ store'[KeyOf(bdoc[c].hash)][bpos'[c]] = bdoc[c]
                        /\ \A q \in DOMAIN uidx[KeyOf(bdoc[c].hash)] :
                              uidx[KeyOf(bdoc[c].hash)][q].pos < bpos'[c]
      BY <2>2 DEF Pending
    <3>1. CASE c = b
      <4>1. bpos'[b] = Len(store[k]) + 1
        BY <1>t, <2>2 DEF TypeOK
      <4>2. \A q \in DOMAIN uidx[k] : uidx[k][q].pos \in 1 .. Len(store[k])
        BY <1>o, <2>1, <2>3 DEF IndexSound
      <4>3. bpos'[b] = Len(store'[k]) /\ store'[k][bpos'[b]] = bdoc[b]
        BY <4>1, <2>3, <2>5
      <4>4. bpos'[b] > 0 /\ \A q \in DOMAIN uidx[k] : uidx[k][q].pos < bpos'[b]
        BY <4>1, <4>2, <2>5
      <4> QED
        BY <3>1, <4>3, <4>4 DEF k
    <3>2. CASE c # b
      <4>1. KeyOf(bdoc[c].hash) # k /\ bpc[c] = "index" /\ bpos'[c] = bpos[c]
        BY <3>2, <1>t, <2>2, <2>4 DEF TypeOK
      <4>2. KeyOf(bdoc[c].hash) \in Keys
        BY <4>1, <1>t, Routing DEF TypeOK, Doc
      <4>3. store'[KeyOf(bdoc[c].hash)] = store[KeyOf(bdoc[c].hash)]
        BY <4>1, <4>2, <2>2, <1>t DEF TypeOK
      <4> QED
        BY <4>1, <4>3, <1>o DEF Pending
    <3> QED
      BY <3>1, <3>2
  <2> QED
    BY <1>t, <2>6, <2>7, <2>8 DEF IndexInv
<1>9. ASSUME NEW b \in Builders, WriteIndex(b) PROVE IndexInv'
  <2> DEFINE k == KeyOf(bdoc[b].hash)
             e == [hash |-> bdoc[b].hash, pos |-> bpos[b]]
  <2>1. bdoc[b] \in Doc /\ k \in Keys /\ k[1] = b
    BY <1>9, <1>t, <1>o, Routing DEF TypeOK, WriteIndex, Doc, Owned
  <2>2. /\ uidx' = [uidx EXCEPT ![k] = Append(@, e)]
        /\ bpc' = [bpc EXCEPT ![b] = "read"]
        /\ UNCHANGED <<store, bdoc, bpos, queue>>
    BY <1>9 DEF WriteIndex
  <2>3. e \in Item /\ uidx[k] \in Seq(Item) /\ uidx'[k] = Append(uidx[k], e)
    BY <1>t, <2>1, <2>2 DEF TypeOK, Item, Doc
  <2>4. \A c \in Builders \ {b} : bpc[c] = "index" => KeyOf(bdoc[c].hash) # k
    BY <1>t, <1>o, <2>1, Routing DEF TypeOK, Owned, Doc
  <2>5. /\ Len(uidx'[k]) = Len(uidx[k]) + 1
        /\ uidx'[k][Len(uidx[k]) + 1] = e
        /\ \A n \in 1 .. Len(uidx[k]) : uidx'[k][n] = uidx[k][n]
    BY <2>3, AppendElements
  <2>6. /\ bpos[b] \in DOMAIN store[k] /\ store[k][bpos[b]] = bdoc[b]
        /\ \A q \in DOMAIN uidx[k] : uidx[k][q].pos < bpos[b]
    <3>1. store[k] \in Seq(Doc)
      BY <1>t, <2>1 DEF TypeOK
    <3>2. /\ bpos[b] = Len(store[k]) /\ bpos[b] > 0 /\ store[k][bpos[b]] = bdoc[b]
          /\ \A q \in DOMAIN uidx[k] : uidx[k][q].pos < bpos[b]
      BY <1>9, <1>o DEF Pending, WriteIndex
    <3> QED
      BY <3>1, <3>2
  <2>7. e.hash = bdoc[b].hash /\ e.pos = bpos[b] /\ KeyOf(e.hash) = k
    OBVIOUS
  <2> HIDE DEF k, e
  <2>8. Owned'
    BY <1>t, <1>o, <2>2 DEF Owned, TypeOK
  <2>9. Pending'
    <3> SUFFICES ASSUME NEW c \in Builders, bpc'[c] = "index"
                 PROVE  \A q \in DOMAIN uidx'[KeyOf(bdoc[c].hash)] :
                           uidx'[KeyOf(bdoc[c].hash)][q].pos < bpos[c]
      BY <1>t, <1>o, <2>2 DEF Pending, TypeOK
    <3>1. c # b /\ bpc[c] = "index"
      BY <1>t, <2>2 DEF TypeOK
    <3>2. KeyOf(bdoc[c].hash) # k /\ KeyOf(bdoc[c].hash) \in Keys
      BY <3>1, <2>4, <1>t, Routing DEF TypeOK, Doc
    <3>3. uidx'[KeyOf(bdoc[c].hash)] = uidx[KeyOf(bdoc[c].hash)]
      BY <3>2, <2>2, <1>t DEF TypeOK
    <3> QED
      BY <3>1, <3>3, <1>o DEF Pending
  <2>10. IndexSound'
    <3> SUFFICES ASSUME NEW l \in Keys
                 PROVE  /\ \A q \in DOMAIN uidx'[l] :
                              /\ uidx'[l][q].pos \in DOMAIN store[l]
                              /\ store[l][uidx'[l][q].pos].hash = uidx'[l][q].hash
                              /\ KeyOf(uidx'[l][q].hash) = l
                        /\ \A p, q \in DOMAIN uidx'[l] :
                              p < q => uidx'[l][p].pos < uidx'[l][q].pos
      BY <2>2 DEF IndexSound
    <3>1. CASE l # k
      <4>1. uidx'[l] = uidx[l]
        BY <3>1, <1>t, <2>2 DEF TypeOK
      <4> QED
        BY <4>1, <1>o DEF IndexSound
    <3>2. CASE l = k
      <4>1. DOMAIN uidx[k] = 1 .. Len(uidx[k]) /\ DOMAIN uidx'[k] = 1 .. Len(uidx[k]) + 1
        BY <2>3, <2>5, AppendElements
      <4>2. \A q \in DOMAIN uidx[k] :
               /\ uidx[k][q].pos \in DOMAIN store[k]
               /\ store[k][uidx[k][q].pos].hash = uidx[k][q].hash
               /\ KeyOf(uidx[k][q].hash) = k
        BY <1>o, <2>1 DEF IndexSound
      <4>3. \A p, q \in DOMAIN uidx[k] : p < q => uidx[k][p].pos < uidx[k][q].pos
        BY <1>o, <2>1 DEF IndexSound
      <4>4. Len(uidx[k]) \in Nat
        BY <2>3
      <4>5. \A q \in DOMAIN uidx'[k] :
               /\ uidx'[k][q].pos \in DOMAIN store[k]
               /\ store[k][uidx'[k][q].pos].hash = uidx'[k][q].hash
               /\ KeyOf(uidx'[k][q].hash) = k
        <5> SUFFICES ASSUME NEW q \in DOMAIN uidx'[k]
                     PROVE  /\ uidx'[k][q].pos \in DOMAIN store[k]
                            /\ store[k][uidx'[k][q].pos].hash = uidx'[k][q].hash
                            /\ KeyOf(uidx'[k][q].hash) = k
          OBVIOUS
        <5>1. CASE q \in DOMAIN uidx[k]
          BY <5>1, <4>1, <4>2, <2>5
        <5>2. CASE q = Len(uidx[k]) + 1
          BY <5>2, <2>5, <2>6, <2>7
        <5> QED
          BY <5>1, <5>2, <4>1, <4>4
      <4>6. \A p, q \in DOMAIN uidx'[k] : p < q => uidx'[k][p].pos < uidx'[k][q].pos
        <5> SUFFICES ASSUME NEW p \in DOMAIN uidx'[k], NEW q \in DOMAIN uidx'[k], p < q
                     PROVE  uidx'[k][p].pos < uidx'[k][q].pos
          OBVIOUS
        <5>1. p \in DOMAIN uidx[k] /\ uidx'[k][p] = uidx[k][p]
          BY <4>1, <4>4, <2>5
        <5>2. CASE q \in DOMAIN uidx[k]
          BY <5>1, <5>2, <4>1, <4>3, <2>5
        <5>3. CASE q = Len(uidx[k]) + 1
          BY <5>1, <5>3, <2>5, <2>6, <2>7
        <5> QED
          BY <5>2, <5>3, <4>1, <4>4
      <4> QED
        BY <3>2, <4>5, <4>6
    <3> QED
      BY <3>1, <3>2
  <2> QED
    BY <1>t, <2>8, <2>9, <2>10 DEF IndexInv
<1>10. CASE UNCHANGED vars
  BY <1>10, <1>t, <1>o, IndexFrame DEF vars, Owned
<1> QED
  BY <1>1, <1>2, <1>3, <1>4, <1>5, <1>6, <1>7, <1>8, <1>9, <1>10
     DEF Next, MainStep, FetcherStep, BuilderStep, Environment

(* Every index item of every file always leads to a document with its      *)
(* hash, and no two to one document, for any number of fetchers, builders, *)
(* files, crashes, I/O errors and runs.                                    *)
THEOREM IndexAlwaysSound == Spec => []IndexSound
<1>1. IndexInv => IndexSound
  BY DEF IndexInv
<1> QED
  BY <1>1, IndexInit, IndexStep, PTL DEF Spec

-----------------------------------------------------------------------------
(* The end of a dump: main's wait for the fetchers, the ending documents,  *)
(* and what holds when main returns, provided that no fetcher completes    *)
(* while main still starts others.                                         *)

(* The lock of the DumpData object is held inside fileReadComplete.        *)
Locked == \A i \in Fetchers : fpc[i] \in {"remove", "record"} <=> monitor = i

\* A fetcher that main has not started does not run.
NotStarted ==
    /\ mainPc = "down" => \A i \in Fetchers : fpc[i] = "idle"
    /\ mainPc \in {"spawn", "add"} =>
          \A i \in Fetchers : i >= spawned => fpc[i] = "idle"

Unfinished == {i \in Fetchers : fpc[i] \in {"read", "remove"}}

\* producerThreadSet while main fills it ...
Filling ==
    mainPc \in {"spawn", "add"} =>
        /\ producerSize = spawned
        /\ mainPc = "add" => sizeCopy = spawned
        /\ \A i \in Fetchers : fpc[i] = IF i < spawned THEN "read" ELSE "idle"

\* ... and while the fetchers empty it: its size is right, and the one of them
\* that holds the lock knows it.
Emptying ==
    mainPc \in {"waitProducers", "sendEnd", "waitConsumers", "done"} =>
        /\ \A i \in Fetchers : fpc[i] # "idle"
        /\ producerSize = Cardinality(Unfinished)
        /\ \A i \in Fetchers : fpc[i] = "remove" => fetchCopy[i] = producerSize

ProducerInv ==
    /\ TypeOK
    /\ Locked
    /\ NotStarted
    /\ ~raced => Filling /\ Emptying /\ EndAfterProducers

LEMMA FetchersFinite ==
    /\ IsFiniteSet(Fetchers)
    /\ Cardinality(Fetchers) = FETCH_THREAD
<1>1. 0 \in Int /\ FETCH_THREAD - 1 \in Int /\ ~(0 > FETCH_THREAD - 1)
  OBVIOUS
<1> QED
  BY <1>1, FS_Interval DEF Fetchers

LEMMA UnfinishedFinite == IsFiniteSet(Unfinished) /\ Cardinality(Unfinished) \in Nat
<1>1. Unfinished \in SUBSET Fetchers
  BY DEF Unfinished
<1> QED
  BY <1>1, FetchersFinite, FS_Subset, FS_CardinalityType

LEMMA ProducerInit == Init => ProducerInv
<1> SUFFICES ASSUME Init PROVE ProducerInv
  OBVIOUS
<1>1. TypeOK
  BY TypeInit
<1>2. \A i \in Fetchers : fpc[i] = "idle" /\ monitor # i
  BY DEF Init, Fetchers
<1>3. mainPc = "down"
  BY DEF Init
<1> QED
  BY <1>1, <1>2, <1>3 DEF ProducerInv, Locked, NotStarted, Filling, Emptying, EndAfterProducers

LEMMA ProducerStep == ProducerInv /\ [Next]_vars => ProducerInv'
<1> SUFFICES ASSUME ProducerInv, [Next]_vars PROVE ProducerInv'
  OBVIOUS
<1>t. TypeOK /\ TypeOK'
  BY TypeStep DEF ProducerInv
<1>o. Locked /\ NotStarted /\ (~raced => Filling /\ Emptying /\ EndAfterProducers)
  BY DEF ProducerInv
<1> USE DEF diskVars, mainVars, fetchVars, buildVars, tableVars
\* Steps that leave main's place, the fetchers' places and the set alone.
<1>1. ASSUME UNCHANGED <<mainPc, spawned, sizeCopy, producerSize, monitor, fpc, fetchCopy, raced>>
      PROVE  ProducerInv'
  <2>1. Locked' /\ NotStarted'
    BY <1>1, <1>o DEF Locked, NotStarted
  <2>2. Unfinished' = Unfinished
    BY <1>1 DEF Unfinished
  <2>3. ~raced' => Filling' /\ Emptying' /\ EndAfterProducers'
    BY <1>1, <1>o, <2>2 DEF Filling, Emptying, EndAfterProducers
  <2> QED
    BY <1>t, <2>1, <2>3 DEF ProducerInv
<1>2. CASE Start
  <2>1. /\ mainPc' = "spawn" /\ spawned' = 0 /\ producerSize' = 0 /\ monitor' = -1
        /\ fpc' = [i \in Fetchers |-> "idle"]
    BY <1>2 DEF Start, Anew
  <2>2. Locked' /\ NotStarted' /\ Filling'
    BY <2>1 DEF Locked, NotStarted, Filling, Fetchers
  <2>3. Emptying' /\ EndAfterProducers'
    BY <2>1 DEF Emptying, EndAfterProducers
  <2> QED
    BY <1>t, <2>2, <2>3 DEF ProducerInv
<1>3. CASE Crash
  <2>1. /\ mainPc' = "down" /\ monitor' = -1
        /\ fpc' = [i \in Fetchers |-> "idle"]
    BY <1>3 DEF Crash, Anew
  <2>2. Locked' /\ NotStarted'
    BY <2>1 DEF Locked, NotStarted, Fetchers
  <2>3. Filling' /\ Emptying' /\ EndAfterProducers'
    BY <2>1 DEF Filling, Emptying, EndAfterProducers
  <2> QED
    BY <1>t, <2>2, <2>3 DEF ProducerInv
<1>4. CASE SpawnRead
  <2>1. /\ mainPc = "spawn" /\ mainPc' = "add" /\ sizeCopy' = producerSize
        /\ UNCHANGED <<spawned, producerSize, monitor, fpc, raced>>
    BY <1>4 DEF SpawnRead
  <2>2. Locked' /\ NotStarted'
    BY <2>1, <1>o DEF Locked, NotStarted
  <2>3. ~raced' => Filling'
    BY <2>1, <1>o DEF Filling
  <2>4. Emptying' /\ EndAfterProducers'
    BY <2>1 DEF Emptying, EndAfterProducers
  <2> QED
    BY <1>t, <2>2, <2>3, <2>4 DEF ProducerInv
<1>5. CASE SpawnWrite
  <2>1. /\ mainPc = "add" /\ producerSize' = sizeCopy + 1 /\ spawned' = spawned + 1
        /\ fpc' = [fpc EXCEPT ![spawned] = "read"]
        /\ mainPc' = IF spawned' = FETCH_THREAD THEN "waitProducers" ELSE "spawn"
        /\ UNCHANGED <<monitor, raced, fetchCopy>>
    BY <1>5 DEF SpawnWrite
  <2>2. spawned \in Fetchers
    BY <1>t, <2>1 DEF TypeOK, Fetchers
  <2>3. fpc[spawned] = "idle" /\ monitor # spawned
    BY <2>1, <2>2, <1>o DEF NotStarted, Locked, Fetchers
  <2>4. \A i \in Fetchers : fpc'[i] = IF i = spawned THEN "read" ELSE fpc[i]
    BY <2>1, <1>t DEF TypeOK
  <2>5. Locked'
    BY <2>1, <2>2, <2>3, <2>4, <1>o DEF Locked
  <2>6. NotStarted'
    BY <2>1, <2>2, <2>4, <1>o DEF NotStarted, Fetchers
  <2>7. ASSUME ~raced'
        PROVE  Filling' /\ Emptying' /\ EndAfterProducers'
    <3>1. Filling
      BY <2>1, <2>7, <1>o
    <3>2. /\ producerSize' = spawned'
          /\ \A i \in Fetchers : fpc'[i] = IF i < spawned' THEN "read" ELSE "idle"
      BY <2>1, <2>2, <2>4, <3>1 DEF Filling, Fetchers
    <3>3. CASE mainPc' = "spawn"
      BY <3>2, <3>3 DEF Filling, Emptying, EndAfterProducers
    <3>4. CASE spawned' = FETCH_THREAD
      <4>1. \A i \in Fetchers : fpc'[i] = "read"
        BY <3>2, <3>4 DEF Fetchers
      <4>2. Unfinished' = Fetchers
        BY <4>1 DEF Unfinished
      <4>3. mainPc' = "waitProducers"
        BY <2>1, <3>4
      <4> QED
        BY <3>2, <3>4, <4>1, <4>2, <4>3, FetchersFinite
           DEF Filling, Emptying, EndAfterProducers
    <3> QED
      BY <2>1, <3>3, <3>4
  <2> QED
    BY <1>t, <2>5, <2>6, <2>7 DEF ProducerInv
<1>6. CASE SeeProducersDone
  <2>1. /\ mainPc = "waitProducers" /\ producerSize = 0 /\ mainPc' = "sendEnd"
        /\ UNCHANGED <<spawned, sizeCopy, producerSize, monitor, fpc, fetchCopy, raced>>
    BY <1>6 DEF SeeProducersDone, NoProducer
  <2>2. Locked' /\ NotStarted'
    BY <2>1, <1>o DEF Locked, NotStarted
  <2>3. Unfinished' = Unfinished
    BY <2>1 DEF Unfinished
  <2>4. ASSUME ~raced' PROVE Filling' /\ Emptying' /\ EndAfterProducers'
    <3>1. Emptying
      BY <2>1, <2>4, <1>o
    <3>2. Unfinished = {}
      BY <2>1, <3>1, UnfinishedFinite, FS_EmptySet DEF Emptying
    <3>3. \A i \in Fetchers : fpc[i] \in {"record", "done"}
      BY <2>1, <3>1, <3>2, <1>t DEF Emptying, Unfinished, TypeOK
    <3> QED
      BY <2>1, <2>3, <3>1, <3>3 DEF Filling, Emptying, EndAfterProducers
  <2> QED
    BY <1>t, <2>2, <2>4 DEF ProducerInv
<1>7. CASE SendEnd \/ Finish
  <2>1. /\ mainPc \in {"sendEnd", "waitConsumers"}
        /\ mainPc' \in {"sendEnd", "waitConsumers", "done"}
        /\ UNCHANGED <<spawned, sizeCopy, producerSize, monitor, fpc, fetchCopy, raced>>
    BY <1>7 DEF SendEnd, Finish
  <2>2. Locked' /\ NotStarted'
    BY <2>1, <1>o DEF Locked, NotStarted
  <2>3. Unfinished' = Unfinished
    BY <2>1 DEF Unfinished
  <2>4. ~raced' => Filling' /\ Emptying' /\ EndAfterProducers'
    BY <2>1, <2>3, <1>o DEF Filling, Emptying, EndAfterProducers
  <2> QED
    BY <1>t, <2>2, <2>4 DEF ProducerInv
<1>8. ASSUME NEW i \in Fetchers, FinishLock(i) PROVE ProducerInv'
  <2>1. /\ fpc[i] = "read" /\ monitor = -1 /\ monitor' = i
        /\ raced' = (raced \/ mainPc \in {"spawn", "add"})
        /\ fetchCopy' = [fetchCopy EXCEPT ![i] = producerSize]
        /\ fpc' = [fpc EXCEPT ![i] = "remove"]
        /\ UNCHANGED <<mainPc, spawned, sizeCopy, producerSize>>
    BY <1>8 DEF FinishLock, LockFree
  <2>2. \A j \in Fetchers : fpc'[j] = IF j = i THEN "remove" ELSE fpc[j]
    BY <2>1, <1>t DEF TypeOK
  <2>3. \A j \in Fetchers : fpc[j] \notin {"remove", "record"}
    BY <2>1, <1>o DEF Locked, Fetchers
  <2>4. Locked'
    BY <2>1, <2>2, <2>3 DEF Locked
  <2>5. NotStarted'
    BY <2>1, <2>2, <1>o DEF NotStarted
  <2>6. Unfinished' = Unfinished
    BY <2>1, <2>2 DEF Unfinished
  <2>7. ASSUME ~raced' PROVE Filling' /\ Emptying' /\ EndAfterProducers'
    <3>1. mainPc \notin {"spawn", "add"} /\ ~raced
      BY <2>1, <2>7
    <3>2. Emptying /\ EndAfterProducers
      BY <3>1, <1>o
    <3>3. fetchCopy'[i] = producerSize
      BY <2>1, <1>t DEF TypeOK
    <3>4. \A j \in Fetchers : fpc'[j] = "remove" => j = i
      BY <2>2, <2>3
    <3> QED
      BY <2>1, <2>2, <2>6, <3>1, <3>2, <3>3, <3>4 DEF Filling, Emptying, EndAfterProducers
  <2> QED
    BY <1>t, <2>4, <2>5, <2>7 DEF ProducerInv
<1>9. ASSUME NEW i \in Fetchers, FinishRemove(i) PROVE ProducerInv'
  <2>1. /\ fpc[i] = "remove" /\ producerSize' = fetchCopy[i] - 1
        /\ fpc' = [fpc EXCEPT ![i] = "record"]
        /\ UNCHANGED <<mainPc, spawned, sizeCopy, monitor, fetchCopy, raced>>
    BY <1>9 DEF FinishRemove
  <2>2. \A j \in Fetchers : fpc'[j] = IF j = i THEN "record" ELSE fpc[j]
    BY <2>1, <1>t DEF TypeOK
  <2>3. \A j \in Fetchers : j # i => fpc[j] \notin {"remove", "record"}
    BY <2>1, <1>o DEF Locked
  <2>4. Locked'
    BY <2>1, <2>2, <1>o DEF Locked
  <2>5. NotStarted'
    BY <2>1, <2>2, <1>o DEF NotStarted
  <2>6. Unfinished' = Unfinished \ {i} /\ i \in Unfinished
    BY <2>1, <2>2 DEF Unfinished
  <2>7. ASSUME ~raced' PROVE Filling' /\ Emptying' /\ EndAfterProducers'
    <3>1. Filling /\ Emptying /\ EndAfterProducers
      BY <2>1, <2>7, <1>o
    <3>2. mainPc \notin {"spawn", "add"}
      BY <2>1, <3>1 DEF Filling
    <3>3. Filling'
      BY <2>1, <3>2 DEF Filling
    <3>4. Cardinality(Unfinished') = Cardinality(Unfinished) - 1
      BY <2>6, UnfinishedFinite, FS_RemoveElement
    <3>5. \A j \in Fetchers : fpc'[j] # "remove"
      BY <2>2, <2>3
    <3>6. Emptying'
      BY <2>1, <2>2, <3>1, <3>4, <3>5 DEF Emptying
    <3>7. EndAfterProducers'
      BY <2>1, <2>2, <3>1 DEF EndAfterProducers
    <3> QED
      BY <3>3, <3>6, <3>7
  <2> QED
    BY <1>t, <2>4, <2>5, <2>7 DEF ProducerInv
<1>10. ASSUME NEW i \in Fetchers, FinishRecord(i) PROVE ProducerInv'
  <2>1. /\ fpc[i] = "record" /\ monitor' = -1
        /\ fpc' = [fpc EXCEPT ![i] = "done"]
        /\ UNCHANGED <<mainPc, spawned, sizeCopy, producerSize, fetchCopy, raced>>
    BY <1>10 DEF FinishRecord
  <2>2. \A j \in Fetchers : fpc'[j] = IF j = i THEN "done" ELSE fpc[j]
    BY <2>1, <1>t DEF TypeOK
  <2>3. \A j \in Fetchers : j # i => fpc[j] \notin {"remove", "record"}
    BY <2>1, <1>o DEF Locked
  <2>4. Locked'
    BY <2>1, <2>2, <2>3 DEF Locked, Fetchers
  <2>5. NotStarted'
    BY <2>1, <2>2, <1>o DEF NotStarted
  <2>6. Unfinished' = Unfinished
    BY <2>1, <2>2 DEF Unfinished
  <2>7. ASSUME ~raced' PROVE Filling' /\ Emptying' /\ EndAfterProducers'
    <3>1. Filling /\ Emptying /\ EndAfterProducers
      BY <2>1, <2>7, <1>o
    <3>2. mainPc \notin {"spawn", "add"}
      BY <2>1, <3>1 DEF Filling
    <3>3. Filling' /\ EndAfterProducers'
      BY <2>1, <2>2, <3>1, <3>2 DEF Filling, EndAfterProducers
    <3>4. Emptying'
      BY <2>1, <2>2, <2>6, <3>1 DEF Emptying
    <3> QED
      BY <3>3, <3>4
  <2> QED
    BY <1>t, <2>4, <2>5, <2>7 DEF ProducerInv
<1>11. ASSUME NEW i \in Fetchers,
              FetchPut(i) \/ FetchSkip(i) \/ FetchLeave(i) \/ FetchFault(i)
       PROVE  ProducerInv'
  BY <1>1, <1>11 DEF FetchPut, FetchSkip, FetchLeave, FetchFault
<1>12. ASSUME NEW b \in Builders, BuilderStep(b) \/ DiskFault(b)
       PROVE  ProducerInv'
  BY <1>1, <1>12 DEF BuilderStep, DiskFault, TakeDoc, OpenFiles, WriteStore, WriteIndex,
       WriteFails, TakeEnd, CloseOne, CloseFails, CloseDone, BuildComplete
<1>13. CASE UNCHANGED vars
  BY <1>1, <1>13 DEF vars
<1> QED
  BY <1>2, <1>3, <1>4, <1>5, <1>6, <1>7, <1>8, <1>9, <1>10, <1>11, <1>12, <1>13
     DEF Next, MainStep, FetcherStep, Environment

(* Main sends the ending documents only when every fetcher has put its     *)
(* last document, for any numbers of fetchers, builders and files, if no   *)
(* fetcher completes while main still starts others.                       *)
THEOREM EndComesLast == Spec => []ProducersWaitedFor
<1>1. ProducerInv => ProducersWaitedFor
  BY DEF ProducerInv, ProducersWaitedFor
<1> QED
  BY <1>1, ProducerInit, ProducerStep, PTL DEF Spec

-----------------------------------------------------------------------------
(* What holds when main returns. An ending document goes to a builder once *)
(* all documents have; the builder that takes it finds its queue empty for *)
(* good; and it can report so only when no fetcher holds the lock, that is *)
(* when each of them has flushed its part of the process file.             *)

Closing(b) == bpc[b] \in {"close", "notify", "done"}

\* The ending document is in b's queue or has been taken only after main has
\* sent it.
EndSent ==
    \A b \in Builders :
        Closing(b) \/ (\E n \in 1 .. Len(queue[b]) : queue[b][n].hash = -1) =>
            mainPc \in {"sendEnd", "waitConsumers", "done"} /\ b < endsSent

EndIsLast ==
    \A b \in Builders :
        /\ \A n \in 1 .. Len(queue[b]) : queue[b][n].hash = -1 => n = Len(queue[b])
        /\ Closing(b) => queue[b] = <<>>

\* A builder that has reported has come to its end after all fetchers have.
Reported ==
    mainPc # "down" => \A b \in Builders \ threadSet :
        /\ bpc[b] = "done"
        /\ ~raced => \A i \in Fetchers : fpc[i] = "done"

WriterClosedLast ==
    /\ mainPc \notin {"down", "done"} => writerOpen
    /\ mainPc = "done" => threadSet = {}

Recorded ==
    /\ alreadyRead \subseteq processFile
    /\ ~raced => \A i \in Fetchers : fpc[i] = "done" => Share(i) \subseteq processFile

EndInv ==
    /\ ProducerInv
    /\ EndSent
    /\ ~raced => EndIsLast
    /\ Reported
    /\ WriterClosedLast
    /\ Recorded

LEMMA EndInit == Init => EndInv
<1> SUFFICES ASSUME Init PROVE EndInv
  OBVIOUS
<1>1. \A b \in Builders : ~Closing(b) /\ queue[b] = <<>>
  BY DEF Init, Closing
<1>2. EndSent /\ EndIsLast
  BY <1>1 DEF EndSent, EndIsLast
<1>3. Reported /\ WriterClosedLast /\ Recorded
  BY DEF Init, Reported, WriterClosedLast, Recorded
<1> QED
  BY <1>2, <1>3, ProducerInit DEF EndInv

(* A step of a builder between taking documents and reporting.             *)
LEMMA EndFrame ==
  ASSUME EndInv, ProducerInv',
         UNCHANGED <<queue, mainPc, endsSent, threadSet, writerOpen, alreadyRead,
                     processFile, fpc, raced>>,
         \A b \in Builders : /\ Closing(b)' => Closing(b)
                             /\ bpc[b] = "done" => bpc'[b] = "done"
  PROVE  EndInv'
<1>1. EndSent'
  BY DEF EndInv, EndSent
<1>2. ~raced' => EndIsLast'
  BY DEF EndInv, EndIsLast
<1>3. Reported' /\ WriterClosedLast'
  BY DEF EndInv, Reported, WriterClosedLast
<1>4. Recorded'
  BY DEF EndInv, Recorded, Share
<1> QED
  BY <1>1, <1>2, <1>3, <1>4 DEF EndInv

LEMMA EndStep == EndInv /\ [Next]_vars => EndInv'
<1> SUFFICES ASSUME EndInv, [Next]_vars PROVE EndInv'
  OBVIOUS
<1>p. ProducerInv /\ ProducerInv'
  BY ProducerStep DEF EndInv
<1>t. TypeOK /\ TypeOK'
  BY <1>p DEF ProducerInv
<1>o. /\ EndSent /\ Reported /\ WriterClosedLast /\ Recorded
      /\ ~raced => EndIsLast
  BY DEF EndInv
<1> USE DEF diskVars, mainVars, fetchVars, buildVars, tableVars
<1>1. CASE Start \/ Crash
  <2>1. /\ \A b \in Builders : bpc'[b] \in {"read", "idle"} /\ queue'[b] = <<>>
        /\ \A i \in Fetchers : fpc'[i] = "idle"
        /\ processFile' = processFile
        /\ \/ mainPc' = "down" /\ alreadyRead' = {}
           \/ mainPc' = "spawn" /\ alreadyRead' = processFile /\ threadSet' = Builders
    BY <1>1 DEF Start, Crash, Anew
  <2>2. EndSent' /\ EndIsLast'
    BY <2>1 DEF EndSent, EndIsLast, Closing
  <2>3. Reported' /\ Recorded'
    BY <2>1 DEF Reported, Recorded
  <2>4. WriterClosedLast'
    BY <1>1 DEF Start, Crash, Anew, WriterClosedLast
  <2> QED
    BY <1>p, <2>2, <2>3, <2>4 DEF EndInv
<1>2. CASE SpawnRead \/ SeeProducersDone
  <2>1. /\ mainPc \in {"spawn", "waitProducers"} /\ mainPc' \in {"add", "sendEnd"}
        /\ UNCHANGED <<queue, bpc, endsSent, threadSet, writerOpen, alreadyRead,
                       processFile, fpc, raced>>
    BY <1>2 DEF SpawnRead, SeeProducersDone
  <2>2. EndSent' /\ (~raced' => EndIsLast')
    BY <2>1, <1>o DEF EndSent, EndIsLast, Closing
  <2>3. Reported' /\ WriterClosedLast' /\ Recorded'
    BY <2>1, <1>o DEF Reported, WriterClosedLast, Recorded, Share
  <2> QED
    BY <1>p, <2>2, <2>3 DEF EndInv
<1>3. CASE SpawnWrite
  <2>1. /\ mainPc = "add" /\ mainPc' \in {"spawn", "waitProducers"}
        /\ fpc' = [fpc EXCEPT ![spawned] = "read"]
        /\ UNCHANGED <<queue, bpc, endsSent, threadSet, writerOpen, alreadyRead,
                       processFile, raced>>
    BY <1>3 DEF SpawnWrite
  <2>2. EndSent' /\ (~raced' => EndIsLast')
    BY <2>1, <1>o DEF EndSent, EndIsLast, Closing
  <2>3. \A b \in Builders : b \in threadSet
    BY <2>1, <1>o DEF EndSent, Reported, Closing
  <2>4. Reported' /\ WriterClosedLast'
    BY <2>1, <2>3, <1>o DEF Reported, WriterClosedLast
  <2>5. \A i \in Fetchers : fpc'[i] = "done" => fpc[i] = "done"
    BY <2>1, <1>t DEF TypeOK
  <2>6. Recorded'
    BY <2>1, <2>5, <1>o DEF Recorded, Share
  <2> QED
    BY <1>p, <2>2, <2>4, <2>6 DEF EndInv
<1>4. CASE SendEnd
  <2>1. /\ mainPc = "sendEnd" /\ mainPc' \in {"sendEnd", "waitConsumers"}
        /\ queue' = [queue EXCEPT ![endsSent] = Append(@, EndDoc)]
        /\ endsSent' = endsSent + 1
        /\ UNCHANGED <<bpc, threadSet, writerOpen, alreadyRead, processFile, fpc, raced>>
    BY <1>4 DEF SendEnd
  <2>2. endsSent \in Builders
    BY <2>1, <1>t DEF TypeOK, Builders
  <2>3. \A b \in Builders : b # endsSent => queue'[b] = queue[b]
    BY <2>1, <1>t DEF TypeOK
  <2>4. queue[endsSent] \in Seq(Doc \cup {EndDoc}) /\ queue'[endsSent] = Append(queue[endsSent], EndDoc)
    BY <2>1, <2>2, <1>t DEF TypeOK
  <2>5. /\ ~Closing(endsSent)
        /\ \A n \in 1 .. Len(queue[endsSent]) : queue[endsSent][n].hash # -1
    BY <2>2, <1>o DEF EndSent, Builders
  <2>6. EndSent'
    BY <2>1, <2>2, <2>3, <1>o DEF EndSent, Closing, Builders
  <2>7. ASSUME ~raced' PROVE EndIsLast'
    <3> SUFFICES ASSUME NEW b \in Builders
                 PROVE  /\ \A n \in 1 .. Len(queue'[b]) :
                              queue'[b][n].hash = -1 => n = Len(queue'[b])
                        /\ Closing(b)' => queue'[b] = <<>>
      BY DEF EndIsLast
    <3>1. CASE b # endsSent
      BY <3>1, <2>1, <2>3, <2>7, <1>o DEF EndIsLast, Closing
    <3>2. CASE b = endsSent
      <4>1. /\ Len(queue'[endsSent]) = Len(queue[endsSent]) + 1
            /\ \A n \in 1 .. Len(queue[endsSent]) : queue'[endsSent][n] = queue[endsSent][n]
        BY <2>4, AppendElements
      <4>2. Len(queue[endsSent]) \in Nat
        BY <2>4
      <4> QED
        BY <3>2, <4>1, <4>2, <2>1, <2>5 DEF Closing
    <3> QED
      BY <3>1, <3>2
  <2>8. Reported' /\ WriterClosedLast' /\ Recorded'
    BY <2>1, <1>o DEF Reported, WriterClosedLast, Recorded, Share
  <2> QED
    BY <1>p, <2>6, <2>7, <2>8 DEF EndInv
<1>5. CASE Finish
  <2>1. /\ mainPc = "waitConsumers" /\ threadSet = {} /\ mainPc' = "done"
        /\ UNCHANGED <<queue, bpc, endsSent, threadSet, alreadyRead, processFile, fpc, raced>>
    BY <1>5 DEF Finish
  <2>2. EndSent' /\ (~raced' => EndIsLast')
    BY <2>1, <1>o DEF EndSent, EndIsLast, Closing
  <2>3. Reported' /\ WriterClosedLast' /\ Recorded'
    BY <2>1, <1>o DEF Reported, WriterClosedLast, Recorded, Share
  <2> QED
    BY <1>p, <2>2, <2>3 DEF EndInv
<1>6. ASSUME NEW i \in Fetchers, FetchPut(i) PROVE EndInv'
  <2>1. PICK f \in todo[i] : /\ at[i] <= Len(Content[f]) /\ Usable(Content[f][at[i]])
                             /\ queue' = [queue EXCEPT ![BuilderOf(Content[f][at[i]].hash)] =
                                  Append(@, [hash |-> Content[f][at[i]].hash, file |-> f,
                                             at |-> at[i]])]
    BY <1>6 DEF FetchPut
  <2> DEFINE d == [hash |-> Content[f][at[i]].hash, file |-> f, at |-> at[i]]
             c == BuilderOf(d.hash)
  <2>2. d \in Doc
    BY <1>t, <2>1, Records DEF TypeOK
  <2>3. c \in Builders /\ d.hash # -1
    BY <2>2, Routing DEF Doc
  <2>4. queue' = [queue EXCEPT ![c] = Append(@, d)]
    BY <2>1
  <2> HIDE DEF d, c
  <2>5. queue[c] \in Seq(Doc \cup {EndDoc}) /\ queue'[c] = Append(queue[c], d)
    BY <2>3, <2>4, <1>t DEF TypeOK
  <2>6. \A b \in Builders : b # c => queue'[b] = queue[b]
    BY <2>4, <1>t DEF TypeOK
  <2>7. /\ Len(queue'[c]) = Len(queue[c]) + 1 /\ Len(queue[c]) \in Nat
        /\ queue'[c][Len(queue[c]) + 1] = d
        /\ \A n \in 1 .. Len(queue[c]) : queue'[c][n] = queue[c][n]
    <3> DEFINE q == queue[c]
    <3>1. q \in Seq(Doc \cup {EndDoc}) /\ d \in Doc \cup {EndDoc}
      BY <2>2, <2>5
    <3>2. Len(q) \in Nat
      BY <3>1
    <3>3. queue'[c] = Append(q, d)
      BY <2>5
    <3> HIDE DEF q
    <3>4. /\ Len(Append(q, d)) = Len(q) + 1 /\ Append(q, d)[Len(q) + 1] = d
          /\ \A n \in 1 .. Len(q) : Append(q, d)[n] = q[n]
      BY <3>1, AppendElements
    <3>5. Len(queue'[c]) = Len(q) + 1 /\ queue'[c][Len(q) + 1] = d
      BY <3>3, <3>4
    <3>6. \A n \in 1 .. Len(q) : queue'[c][n] = q[n]
      BY <3>3, <3>4
    <3> QED
      BY <3>2, <3>5, <3>6 DEF q
  <2>8. /\ fpc[i] = "read"
        /\ UNCHANGED <<bpc, mainPc, endsSent, threadSet, writerOpen, alreadyRead,
                       processFile, fpc, raced>>
    BY <1>6 DEF FetchPut, Reading
  <2>9. ASSUME NEW n \in 1 .. Len(queue'[c]), queue'[c][n].hash = -1
        PROVE  n \in 1 .. Len(queue[c]) /\ queue[c][n].hash = -1
    <3>1. n \in 1 .. Len(queue[c]) \/ n = Len(queue[c]) + 1
      BY <2>7
    <3>2. n # Len(queue[c]) + 1
      BY <2>3, <2>7, <2>9
    <3>3. queue'[c][n] = queue[c][n]
      BY <2>7, <3>1, <3>2
    <3> QED
      BY <2>9, <3>1, <3>2, <3>3
  <2>10. EndSent'
    BY <2>6, <2>8, <2>9, <1>o DEF EndSent, Closing
  \* A fetcher is still reading, so that no ending document has been sent.
  <2>11. ASSUME ~raced' PROVE EndIsLast'
    <3>1. EndAfterProducers
      BY <2>8, <2>11, <1>p DEF ProducerInv
    <3>2. mainPc \notin {"sendEnd", "waitConsumers", "done"}
      BY <3>1, <2>8 DEF EndAfterProducers
    <3> QED
      BY <3>2, <2>8, <2>10 DEF EndSent, EndIsLast, Closing
  <2>12. Reported' /\ WriterClosedLast' /\ Recorded'
    BY <2>8, <1>o DEF Reported, WriterClosedLast, Recorded, Share
  <2> QED
    BY <1>p, <2>10, <2>11, <2>12 DEF EndInv
<1>7. ASSUME NEW i \in Fetchers, FetchSkip(i) \/ FetchLeave(i) \/ FetchFault(i)
      PROVE  EndInv'
  BY <1>7, <1>p, EndFrame DEF FetchSkip, FetchLeave, FetchFault, Closing
<1>8. ASSUME NEW i \in Fetchers, FinishLock(i) \/ FinishRemove(i)
      PROVE  EndInv'
  <2>1. /\ \A j \in Fetchers : fpc'[j] = "done" <=> fpc[j] = "done"
        /\ UNCHANGED <<queue, bpc, mainPc, endsSent, threadSet, writerOpen, alreadyRead,
                       processFile>>
        /\ ~raced' => ~raced
    BY <1>8, <1>t DEF FinishLock, FinishRemove, TypeOK
  <2>2. EndSent' /\ (~raced' => EndIsLast')
    BY <2>1, <1>o DEF EndSent, EndIsLast, Closing
  <2>3. Reported' /\ WriterClosedLast' /\ Recorded'
    BY <2>1, <1>o DEF Reported, WriterClosedLast, Recorded, Share
  <2> QED
    BY <1>p, <2>2, <2>3 DEF EndInv
<1>9. ASSUME NEW i \in Fetchers, FinishRecord(i) PROVE EndInv'
  <2>1. /\ fpc[i] = "record" /\ fpc' = [fpc EXCEPT ![i] = "done"]
        /\ processFile' = IF writerOpen THEN processFile \cup Share(i) ELSE processFile
        /\ UNCHANGED <<queue, bpc, mainPc, endsSent, threadSet, writerOpen, alreadyRead, raced>>
    BY <1>9 DEF FinishRecord
  <2>2. \A j \in Fetchers : fpc'[j] = IF j = i THEN "done" ELSE fpc[j]
    BY <2>1, <1>t DEF TypeOK
  <2>3. EndSent' /\ (~raced' => EndIsLast')
    BY <2>1, <1>o DEF EndSent, EndIsLast, Closing
  <2>4. Reported' /\ WriterClosedLast'
    BY <2>1, <2>2, <1>o DEF Reported, WriterClosedLast
  <2>5. ASSUME ~raced PROVE writerOpen
    <3>1. mainPc # "down"
      BY <2>1, <1>p DEF ProducerInv, NotStarted
    <3>2. 0 \in Builders
      BY DEF Builders
    <3>3. mainPc # "done"
      BY <2>1, <2>5, <3>1, <3>2, <1>o DEF Reported, WriterClosedLast
    <3> QED
      BY <3>1, <3>3, <1>o DEF WriterClosedLast
  <2>6. Recorded'
    <3>1. alreadyRead' \subseteq processFile'
      BY <2>1, <1>o DEF Recorded
    <3>2. ASSUME ~raced', NEW j \in Fetchers, fpc'[j] = "done"
          PROVE  Share(j)' \subseteq processFile'
      <4>1. Share(j)' = Share(j)
        BY <2>1 DEF Share
      <4>2. writerOpen
        BY <2>1, <2>5, <3>2
      <4> QED
        BY <2>1, <2>2, <3>2, <4>1, <4>2, <1>o DEF Recorded
    <3> QED
      BY <3>1, <3>2 DEF Recorded
  <2> QED
    BY <1>p, <2>3, <2>4, <2>6 DEF EndInv
<1>10. ASSUME NEW b \in Builders, TakeDoc(b) \/ TakeEnd(b) PROVE EndInv'
  <2>1. /\ queue[b] # <<>> /\ bpc[b] = "read" /\ queue' = [queue EXCEPT ![b] = Tail(@)]
        /\ UNCHANGED <<mainPc, endsSent, threadSet, writerOpen, alreadyRead, processFile,
                       fpc, raced>>
    BY <1>10 DEF TakeDoc, TakeEnd
  <2>2. queue[b] \in Seq(Doc \cup {EndDoc}) /\ queue'[b] = Tail(queue[b])
    BY <2>1, <1>t DEF TypeOK
  <2>3. /\ Len(queue'[b]) = Len(queue[b]) - 1 /\ Len(queue[b]) > 0 /\ Len(queue[b]) \in Nat
        /\ \A n \in 1 .. Len(queue'[b]) :
              n + 1 \in 1 .. Len(queue[b]) /\ queue'[b][n] = queue[b][n + 1]
    <3> DEFINE q == queue[b]
    <3>1. q \in Seq(Doc \cup {EndDoc}) /\ q # <<>>
      BY <2>1, <2>2
    <3>2. Len(q) \in Nat
      BY <3>1
    <3> HIDE DEF q
    <3>3. /\ Len(Tail(q)) = Len(q) - 1 /\ Len(q) > 0
          /\ \A n \in 1 .. Len(Tail(q)) : n + 1 \in 1 .. Len(q) /\ Tail(q)[n] = q[n + 1]
      BY <3>1, TailElements
    <3> QED
      BY <3>2, <3>3, <2>2 DEF q
  <2>4. \A c \in Builders : c # b => queue'[c] = queue[c] /\ bpc'[c] = bpc[c]
    BY <2>1, <1>10, <1>t DEF TypeOK, TakeDoc, TakeEnd
  <2>5. Closing(b)' => Head(queue[b]).hash = -1
    BY <1>10, <1>t DEF TakeDoc, TakeEnd, Closing, TypeOK
  <2>6. Head(queue[b]) = queue[b][1] /\ 1 \in 1 .. Len(queue[b])
    BY <2>2, <2>3
  <2>7. EndSent'
    <3> SUFFICES ASSUME NEW c \in Builders,
                        Closing(c)' \/ \E n \in 1 .. Len(queue'[c]) : queue'[c][n].hash = -1
                 PROVE  mainPc \in {"sendEnd", "waitConsumers", "done"} /\ c < endsSent
      BY <2>1 DEF EndSent
    <3>1. CASE c # b
      BY <3>1, <2>4, <1>o DEF EndSent, Closing
    <3>2. CASE c = b
      <4>1. \E n \in 1 .. Len(queue[b]) : queue[b][n].hash = -1
        BY <3>2, <2>3, <2>5, <2>6
      <4> QED
        BY <3>2, <4>1, <1>o DEF EndSent
    <3> QED
      BY <3>1, <3>2
  <2>8. ASSUME ~raced' PROVE EndIsLast'
    <3> SUFFICES ASSUME NEW c \in Builders
                 PROVE  /\ \A n \in 1 .. Len(queue'[c]) :
                              queue'[c][n].hash = -1 => n = Len(queue'[c])
                        /\ Closing(c)' => queue'[c] = <<>>
      BY DEF EndIsLast
    <3>1. EndIsLast
      BY <2>1, <2>8, <1>o
    <3>2. CASE c # b
      BY <3>1, <3>2, <2>4 DEF EndIsLast, Closing
    <3>3. CASE c = b
      <4>1. \A n \in 1 .. Len(queue[b]) : queue[b][n].hash = -1 => n = Len(queue[b])
        BY <3>1 DEF EndIsLast
      <4>2. Closing(b)' => Len(queue[b]) = 1
        BY <4>1, <2>5, <2>6
      <4>3. Closing(b)' => queue'[b] = <<>>
        <5>1. queue'[b] \in Seq(Doc \cup {EndDoc})
          BY <1>t DEF TypeOK
        <5>2. Closing(b)' => Len(queue'[b]) = 0
          BY <4>2, <2>3
        <5> QED
          BY <5>1, <5>2
      <4>4. ASSUME NEW n \in 1 .. Len(queue'[b]), queue'[b][n].hash = -1
            PROVE  n = Len(queue'[b])
        <5>1. n + 1 \in 1 .. Len(queue[b]) /\ queue[b][n + 1].hash = -1
          BY <2>3, <4>4
        <5>2. n + 1 = Len(queue[b])
          BY <4>1, <5>1
        <5>3. Len(queue'[b]) = Len(queue[b]) - 1
          BY <2>3
        <5> QED
          BY <5>2, <5>3
      <4> QED
        BY <3>3, <4>3, <4>4
    <3> QED
      BY <3>2, <3>3
  <2>9. Reported' /\ WriterClosedLast' /\ Recorded'
    <3>1. \A c \in Builders : bpc[c] = "done" => bpc'[c] = "done"
      BY <2>1, <2>4
    <3> QED
      BY <3>1, <2>1, <1>o DEF Reported, WriterClosedLast, Recorded, Share
  <2> QED
    BY <1>p, <2>7, <2>8, <2>9 DEF EndInv
<1>11. ASSUME NEW b \in Builders,
              \/ OpenFiles(b) \/ WriteStore(b) \/ WriteIndex(b) \/ WriteFails(b)
              \/ CloseOne(b) \/ CloseFails(b) \/ CloseDone(b) \/ DiskFault(b)
       PROVE  EndInv'
  <2>1. UNCHANGED <<queue, mainPc, endsSent, threadSet, writerOpen, alreadyRead,
                    processFile, fpc, raced>>
    BY <1>11 DEF OpenFiles, WriteStore, WriteIndex, WriteFails, CloseOne, CloseFails,
                 CloseDone, DiskFault
  <2>2. \A c \in Builders : /\ Closing(c)' => Closing(c)
                            /\ bpc[c] = "done" => bpc'[c] = "done"
    <3>1. CASE CloseOne(b)
      BY <3>1 DEF CloseOne, Closing
    <3>2. CASE CloseDone(b)
      <4>1. bpc[b] = "close" /\ bpc' = [bpc EXCEPT ![b] = "notify"]
        BY <3>2 DEF CloseDone
      <4> QED
        BY <4>1, <1>t DEF Closing, TypeOK
    <3>3. CASE ~CloseOne(b) /\ ~CloseDone(b)
      <4>1. /\ bpc[b] \in {"open", "store", "index", "close"}
            /\ \E x \in {"store", "index", "read", "dead"} : bpc' = [bpc EXCEPT ![b] = x]
        BY <1>11, <3>3 DEF OpenFiles, WriteStore, WriteIndex, WriteFails, CloseFails,
                           DiskFault, AfterException
      <4> QED
        BY <4>1, <1>t DEF Closing, TypeOK
    <3> QED
      BY <3>1, <3>2, <3>3
  <2> QED
    BY <1>p, <2>1, <2>2, EndFrame
<1>12. ASSUME NEW b \in Builders, BuildComplete(b) PROVE EndInv'
  <2>1. /\ bpc[b] = "notify" /\ monitor = -1 /\ threadSet' = threadSet \ {b}
        /\ bpc' = [bpc EXCEPT ![b] = "done"]
        /\ UNCHANGED <<queue, mainPc, endsSent, writerOpen, alreadyRead, processFile,
                       fpc, raced>>
    BY <1>12 DEF BuildComplete, LockFree
  <2>2. \A c \in Builders : bpc'[c] = IF c = b THEN "done" ELSE bpc[c]
    BY <2>1, <1>t DEF TypeOK
  <2>3. \A c \in Builders : Closing(c)' <=> Closing(c)
    BY <2>1, <2>2 DEF Closing
  <2>4. EndSent' /\ (~raced' => EndIsLast')
    BY <2>1, <2>3, <1>o DEF EndSent, EndIsLast
  <2>5. ~raced => \A i \in Fetchers : fpc[i] = "done"
    <3>1. mainPc \in {"sendEnd", "waitConsumers", "done"}
      BY <2>1, <1>o DEF EndSent, Closing
    <3>2. \A i \in Fetchers : fpc[i] # "record"
      BY <2>1, <1>p DEF ProducerInv, Locked, Fetchers
    <3> QED
      BY <3>1, <3>2, <1>p DEF ProducerInv, EndAfterProducers
  <2>6. Reported'
    BY <2>1, <2>2, <2>5, <1>o DEF Reported
  <2>7. WriterClosedLast' /\ Recorded'
    BY <2>1, <1>o DEF WriterClosedLast, Recorded, Share
  <2> QED
    BY <1>p, <2>4, <2>6, <2>7 DEF EndInv
<1>13. CASE UNCHANGED vars
  BY <1>13, <1>p, EndFrame DEF vars, Closing
<1> QED
  BY <1>1, <1>2, <1>3, <1>4, <1>5, <1>6, <1>7, <1>8, <1>9, <1>10, <1>11, <1>12, <1>13
     DEF Next, MainStep, FetcherStep, BuilderStep, Environment

LEMMA DoneBuilt == EndInv => DoneMeansBuilt
BY DEF EndInv, EndIsLast, Reported, WriterClosedLast, DoneMeansBuilt, Closing

(* When main returns, each builder has taken everything that was put to    *)
(* its queue and has closed its files without an exception.                *)
THEOREM DoneIsBuilt == Spec => []DoneMeansBuilt
BY DoneBuilt, EndInit, EndStep, PTL DEF Spec

LEMMA DoneRecorded == EndInv => DoneRecordsEveryFile
<1> SUFFICES ASSUME EndInv, mainPc = "done", ~raced PROVE processFile = Files
  BY DEF DoneRecordsEveryFile
<1>1. 0 \in Builders /\ threadSet = {}
  BY DEF EndInv, WriterClosedLast, Builders
<1>2. \A i \in Fetchers : Share(i) \subseteq processFile
  BY <1>1 DEF EndInv, Reported, Recorded
<1>3. ASSUME NEW f \in Files PROVE f \in processFile
  <2>1. f - 1 \in Nat
    BY DEF Files
  <2>2. (f - 1) % FETCH_THREAD \in Fetchers
    BY <2>1 DEF Fetchers
  <2>3. f \in alreadyRead \/ f \in Share((f - 1) % FETCH_THREAD)
    BY DEF Share
  <2> QED
    BY <1>2, <2>2, <2>3 DEF EndInv, Recorded
<1> QED
  BY <1>3 DEF EndInv, ProducerInv, TypeOK

(* When main returns, the process file names every input file.             *)
THEOREM DoneIsRecorded == Spec => []DoneRecordsEveryFile
BY DoneRecorded, EndInit, EndStep, PTL DEF Spec

-----------------------------------------------------------------------------
(* Which input files a run reads: none the process file names.            *)

\* A fetcher reads files of its own share, and none once it has completed.
InShare ==
    \A i \in Fetchers :
        /\ todo[i] \subseteq Share(i)
        /\ fpc[i] \in {"remove", "record", "done"} => todo[i] = {}

\* What the process file names was there when the run began, or is of a fetcher
\* that has completed.
NamedByDone ==
    mainPc # "down" =>
        \A f \in processFile :
            \/ f \in alreadyRead
            \/ \E i \in Fetchers : fpc[i] = "done" /\ f \in Share(i)

ReadInv == ProducerInv /\ InShare /\ NamedByDone

LEMMA ReadInit == Init => ReadInv
<1> SUFFICES ASSUME Init PROVE ReadInv
  OBVIOUS
<1>1. InShare /\ NamedByDone
  BY DEF Init, InShare, NamedByDone
<1> QED
  BY <1>1, ProducerInit DEF ReadInv

(* A step that completes no fetcher, starts none and leaves the files alone. *)
LEMMA ReadFrame ==
  ASSUME ReadInv, ProducerInv',
         UNCHANGED <<processFile, alreadyRead>>,
         mainPc' # "down" => mainPc # "down",
         \A i \in Fetchers : todo'[i] \subseteq todo[i],
         \A i \in Fetchers : fpc'[i] = fpc[i]
  PROVE  ReadInv'
<1>1. \A i \in Fetchers : Share(i)' = Share(i)
  BY DEF Share
<1>2. InShare'
  BY <1>1 DEF ReadInv, InShare
<1>3. NamedByDone'
  BY <1>1 DEF ReadInv, NamedByDone
<1> QED
  BY <1>2, <1>3 DEF ReadInv

LEMMA ReadStep == ReadInv /\ [Next]_vars => ReadInv'
<1> SUFFICES ASSUME ReadInv, [Next]_vars PROVE ReadInv'
  OBVIOUS
<1>p. ProducerInv /\ ProducerInv'
  BY ProducerStep DEF ReadInv
<1>t. TypeOK /\ TypeOK'
  BY <1>p DEF ProducerInv
<1>o. InShare /\ NamedByDone
  BY DEF ReadInv
<1> USE DEF diskVars, mainVars, fetchVars, buildVars, tableVars
<1>1. CASE Start
  <2>1. /\ fpc' = [i \in Fetchers |-> "idle"] /\ todo' = [i \in Fetchers |-> Share(i)']
        /\ alreadyRead' = processFile /\ processFile' = processFile
    BY <1>1 DEF Start, Anew
  <2>2. InShare' /\ NamedByDone'
    BY <2>1 DEF InShare, NamedByDone
  <2> QED
    BY <1>p, <2>2 DEF ReadInv
<1>2. CASE Crash
  <2>1. /\ mainPc' = "down" /\ fpc' = [i \in Fetchers |-> "idle"]
        /\ todo' = [i \in Fetchers |-> {}]
    BY <1>2 DEF Crash, Anew
  <2>2. InShare' /\ NamedByDone'
    BY <2>1 DEF InShare, NamedByDone
  <2> QED
    BY <1>p, <2>2 DEF ReadInv
<1>3. CASE SpawnRead \/ SeeProducersDone \/ SendEnd \/ Finish
  BY <1>3, <1>p, ReadFrame DEF SpawnRead, SeeProducersDone, SendEnd, Finish
<1>4. CASE SpawnWrite
  <2>1. /\ mainPc = "add" /\ mainPc' # "down" /\ fpc' = [fpc EXCEPT ![spawned] = "read"]
        /\ UNCHANGED <<processFile, alreadyRead, todo>>
    BY <1>4 DEF SpawnWrite
  <2>2. spawned \in Fetchers
    BY <2>1, <1>t DEF TypeOK, Fetchers
  <2>3. fpc[spawned] = "idle"
    BY <2>1, <2>2, <1>p DEF ProducerInv, NotStarted, Fetchers
  <2>4. \A i \in Fetchers : fpc'[i] = IF i = spawned THEN "read" ELSE fpc[i]
    BY <2>1, <1>t DEF TypeOK
  <2>5. InShare'
    BY <2>1, <2>4, <1>o DEF InShare, Share
  <2>6. NamedByDone'
    BY <2>1, <2>3, <2>4, <1>o DEF NamedByDone, Share
  <2> QED
    BY <1>p, <2>5, <2>6 DEF ReadInv
<1>5. ASSUME NEW i \in Fetchers,
             FetchPut(i) \/ FetchSkip(i) \/ FetchLeave(i) \/ FetchFault(i)
      PROVE  ReadInv'
  <2>1. \A j \in Fetchers : todo'[j] \subseteq todo[j]
    <3>1. CASE UNCHANGED todo
      BY <3>1
    <3>2. CASE FetchLeave(i) \/ FetchFault(i)
      <4>1. PICK f \in todo[i] : todo' = [todo EXCEPT ![i] = @ \ {f}]
        BY <3>2 DEF FetchLeave, FetchFault
      <4>2. todo \in [Fetchers -> SUBSET Files]
        BY <1>t DEF TypeOK
      <4> QED
        BY <4>1, <4>2
    <3> QED
      BY <1>5, <3>1, <3>2 DEF FetchPut, FetchSkip
  <2>2. UNCHANGED <<processFile, alreadyRead, mainPc, fpc>>
    BY <1>5 DEF FetchPut, FetchSkip, FetchLeave, FetchFault
  <2> QED
    BY <1>p, <2>1, <2>2, ReadFrame
<1>6. ASSUME NEW i \in Fetchers, FinishLock(i) \/ FinishRemove(i) PROVE ReadInv'
  <2>1. /\ fpc[i] # "done" /\ todo[i] = {}
        /\ \A j \in Fetchers : j # i => fpc'[j] = fpc[j]
        /\ UNCHANGED <<processFile, alreadyRead, mainPc, todo>>
    BY <1>6, <1>t, <1>o DEF FinishLock, FinishRemove, TypeOK, InShare
  <2>2. InShare'
    BY <2>1, <1>o DEF InShare, Share
  <2>3. NamedByDone'
    BY <2>1, <1>o DEF NamedByDone, Share
  <2> QED
    BY <1>p, <2>2, <2>3 DEF ReadInv
<1>7. ASSUME NEW i \in Fetchers, FinishRecord(i) PROVE ReadInv'
  <2>1. /\ fpc[i] = "record" /\ fpc' = [fpc EXCEPT ![i] = "done"]
        /\ processFile' = IF writerOpen THEN processFile \cup Share(i) ELSE processFile
        /\ UNCHANGED <<alreadyRead, mainPc, todo>>
    BY <1>7 DEF FinishRecord
  <2>2. \A j \in Fetchers : fpc'[j] = IF j = i THEN "done" ELSE fpc[j]
    BY <2>1, <1>t DEF TypeOK
  <2>3. InShare'
    BY <2>1, <2>2, <1>o DEF InShare, Share
  <2>4. NamedByDone'
    <3> SUFFICES ASSUME mainPc' # "down", NEW f \in processFile'
                 PROVE  \/ f \in alreadyRead'
                        \/ \E j \in Fetchers : fpc'[j] = "done" /\ f \in Share(j)'
      BY DEF NamedByDone
    <3>1. \A j \in Fetchers : Share(j)' = Share(j)
      BY <2>1 DEF Share
    <3>2. CASE f \in Share(i)
      BY <3>1, <3>2, <2>2
    <3>3. CASE f \in processFile
      BY <3>1, <3>3, <2>1, <2>2, <1>o DEF NamedByDone
    <3> QED
      BY <3>2, <3>3, <2>1
  <2> QED
    BY <1>p, <2>3, <2>4 DEF ReadInv
<1>8. ASSUME NEW b \in Builders, BuilderStep(b) \/ DiskFault(b) PROVE ReadInv'
  <2>1. UNCHANGED <<processFile, alreadyRead, mainPc, todo, fpc>>
    BY <1>8 DEF BuilderStep, DiskFault, TakeDoc, OpenFiles, WriteStore, WriteIndex,
       WriteFails, TakeEnd, CloseOne, CloseFails, CloseDone, BuildComplete
  <2> QED
    BY <1>p, <2>1, ReadFrame
<1>9. CASE UNCHANGED vars
  BY <1>9, <1>p, ReadFrame DEF vars
<1> QED
  BY <1>1, <1>2, <1>3, <1>4, <1>5, <1>6, <1>7, <1>8, <1>9
     DEF Next, MainStep, FetcherStep, Environment

(* No step queues a document of a file that the process file names.        *)
LEMMA NoStepRereads ==
  ASSUME ReadInv, [Next]_vars, NEW b \in Builders, Len(queue'[b]) = Len(queue[b]) + 1
  PROVE  queue'[b][Len(queue'[b])].file \notin processFile
<1>p. ProducerInv /\ InShare /\ NamedByDone
  BY DEF ReadInv
<1>t. TypeOK /\ TypeOK'
  BY <1>p, TypeStep DEF ProducerInv
<1>q. queue[b] \in Seq(Doc \cup {EndDoc})
  BY <1>t DEF TypeOK
<1>l. queue[b] \in Seq(Doc \cup {EndDoc}) /\ Len(queue[b]) \in Nat
  <2>1. Len(queue[b]) \in Nat
    BY <1>q
  <2> QED
    BY <1>q, <2>1
\* Only the queue that grows can be the one a document was put to.
<1>a. ASSUME NEW c \in Builders, NEW d, queue' = [queue EXCEPT ![c] = Append(@, d)]
      PROVE  queue'[b] = Append(queue[b], d)
  <2>1. queue \in [Builders -> Seq(Doc \cup {EndDoc})]
    BY <1>t DEF TypeOK
  <2>2. CASE c = b
    BY <1>a, <2>1, <2>2
  <2>3. CASE c # b
    <3>1. queue'[b] = queue[b]
      BY <1>a, <2>1, <2>3
    <3> QED
      BY <3>1, <1>l
  <2> QED
    BY <2>2, <2>3
<1> USE DEF diskVars, mainVars, fetchVars, buildVars, tableVars
<1>1. CASE \E i \in Fetchers : FetchPut(i)
  <2>1. PICK i \in Fetchers : FetchPut(i)
    BY <1>1
  <2>2. PICK f \in todo[i] : /\ fpc[i] = "read"
                             /\ at[i] <= Len(Content[f]) /\ Usable(Content[f][at[i]])
                             /\ queue' = [queue EXCEPT ![BuilderOf(Content[f][at[i]].hash)] =
                                  Append(@, [hash |-> Content[f][at[i]].hash, file |-> f,
                                             at |-> at[i]])]
    BY <2>1 DEF FetchPut, Reading
  <2> DEFINE d == [hash |-> Content[f][at[i]].hash, file |-> f, at |-> at[i]]
  <2>3. d \in Doc /\ d.file = f
    BY <1>t, <2>2, Records DEF TypeOK
  <2>4. queue' = [queue EXCEPT ![BuilderOf(d.hash)] = Append(@, d)]
    BY <2>2
  <2> HIDE DEF d
  <2>4a. BuilderOf(d.hash) \in Builders
    BY <2>3, Routing DEF Doc
  <2>5. queue'[b] = Append(queue[b], d)
    BY <1>a, <2>4, <2>4a
  <2>6. queue'[b][Len(queue'[b])] = d
    BY <1>l, <2>3, <2>5, AppendElements
  <2>7. f \notin processFile
    <3>1. mainPc # "down"
      BY <2>2, <1>p DEF ProducerInv, NotStarted
    <3>2. f \in Share(i)
      BY <2>2, <1>p DEF InShare
    <3>3. f \notin alreadyRead /\ \A j \in Fetchers : f \in Share(j) => j = i
      BY <3>2 DEF Share
    <3> QED
      BY <3>1, <3>3, <2>2, <1>p DEF NamedByDone
  <2> QED
    BY <2>3, <2>6, <2>7
<1>2. CASE SendEnd
  <2>1. queue' = [queue EXCEPT ![endsSent] = Append(@, EndDoc)]
    BY <1>2 DEF SendEnd
  <2>1a. endsSent \in Builders
    BY <1>2, <1>t DEF SendEnd, TypeOK, Builders
  <2>2. queue'[b] = Append(queue[b], EndDoc)
    BY <1>a, <2>1, <2>1a
  <2>3. queue'[b][Len(queue'[b])] = EndDoc
    BY <1>l, <2>2, AppendElements
  <2>4. 0 \notin Files
    BY DEF Files
  <2> QED
    BY <2>3, <2>4, <1>t DEF EndDoc, TypeOK
<1>3. CASE \E c \in Builders : TakeDoc(c) \/ TakeEnd(c)
  <2>1. PICK c \in Builders : queue[c] # <<>> /\ queue' = [queue EXCEPT ![c] = Tail(@)]
    BY <1>3 DEF TakeDoc, TakeEnd
  <2>2. c # b
    BY <2>1, <1>l, <1>t, TailElements DEF TypeOK
  <2> QED
    BY <2>1, <2>2, <1>l, <1>t DEF TypeOK
<1>4. CASE Start \/ Crash
  <2>1. queue'[b] = <<>>
    BY <1>4 DEF Start, Crash, Anew
  <2> QED
    BY <2>1, <1>l
<1>5. CASE UNCHANGED queue
  BY <1>5, <1>l
<1>6. CASE \/ SpawnRead \/ SpawnWrite \/ SeeProducersDone \/ Finish
           \/ \E i \in Fetchers : \/ FetchSkip(i) \/ FetchLeave(i) \/ FetchFault(i)
                                 \/ FinishLock(i) \/ FinishRemove(i) \/ FinishRecord(i)
  BY <1>5, <1>6 DEF SpawnRead, SpawnWrite, SeeProducersDone, Finish, FetchSkip, FetchLeave,
     FetchFault, FinishLock, FinishRemove, FinishRecord
<1>7. CASE \E c \in Builders :
              \/ OpenFiles(c) \/ WriteStore(c) \/ WriteIndex(c) \/ WriteFails(c)
              \/ CloseOne(c) \/ CloseFails(c) \/ CloseDone(c) \/ BuildComplete(c)
              \/ DiskFault(c)
  BY <1>5, <1>7 DEF OpenFiles, WriteStore, WriteIndex, WriteFails, CloseOne, CloseFails,
     CloseDone, BuildComplete, DiskFault
<1>8. CASE UNCHANGED vars
  BY <1>5, <1>8 DEF vars
<1> QED
  BY <1>1, <1>2, <1>3, <1>4, <1>6, <1>7, <1>8
     DEF Next, MainStep, FetcherStep, BuilderStep, Environment

(* A file the process file names is never read again: no document of it is *)
(* put to a queue, in this run or a later one.                             *)
THEOREM FilesAreNotReread == Spec => NeverReread
<1>1. ReadInv /\ [Next]_vars =>
        [\A b \in Builders :
            Len(queue'[b]) = Len(queue[b]) + 1 =>
                queue'[b][Len(queue'[b])].file \notin processFile]_vars
  BY NoStepRereads
<1> QED
  BY <1>1, ReadInit, ReadStep, PTL DEF Spec, NeverReread

=============================================================================

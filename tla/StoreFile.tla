----------------------------- MODULE StoreFile ------------------------------
(***************************************************************************)
(* One .store file and its .uidx file, byte by byte, as the one builder    *)
(* that owns them writes them (DocumentFile, Document, IndexFileUnordered, *)
(* and the order of IndexBuilder.step1), with a kill of the process in the *)
(* middle of a write and the reopening by the next run. RandomAccessFile   *)
(* writes an int or a long one byte at a time, so that a write may stop    *)
(* after any byte. Loss of power, which may also lose or reorder completed *)
(* writes, is left out: the code never syncs.                              *)
(***************************************************************************)
EXTENDS Integers, Sequences

CONSTANTS
    Documents,   \* documents: records [hash, length], length of the data
    MaxInt,      \* Integer.MAX_VALUE (2^31 - 1)
    MaxBytes,    \* bound: no document is begun in a store file this long
    MaxCrashes   \* bound: kills of the process

ASSUME StoreAssumption ==
    /\ Documents \subseteq [hash : Nat, length : Nat]
    /\ MaxInt \in Nat \ {0}
    /\ MaxBytes \in Nat
    /\ MaxCrashes \in Nat

HeaderSize == 8     \* version and meta of a .uidx file
ItemSize == 12      \* hash and offset
RecordHead == 16    \* meta, hash and length in front of the data

VARIABLES
    store, uidx,    \* the bytes of the two files
    pc,             \* where the writer is: "closed" when it does not run
    offset,         \* DocumentFile.offset, an int
    storePos,       \* file pointers of the two RandomAccessFiles
    indexPos,
    item,           \* the index item of the document being written
    returned,       \* history: number of completed index writes
    crashes

vars == <<store, uidx, pc, offset, storePos, indexPos, item, returned, crashes>>

\* A byte is the at-th byte of what it was written for. The header of a .uidx
\* file and a gap that seek leaves are zeros.
NoItem == [hash |-> 0, offset |-> 0]
Zero == [of |-> NoItem, at |-> 0]

BytesOf(x, size) == [n \in 1 .. size |-> [of |-> x, at |-> n]]
Zeros(n) == [m \in 1 .. n |-> Zero]

\* File f after bytes are written at position pos; a gap is filled with zeros.
Overwrite(f, pos, bytes) ==
    LET g == f \o Zeros(IF pos > Len(f) THEN pos - Len(f) ELSE 0)
    IN SubSeq(g, 1, pos) \o bytes \o SubSeq(g, pos + Len(bytes) + 1, Len(g))

\* Java's int arithmetic, and its remainder, which has the sign of n.
Wrap(n) == ((n + MaxInt + 1) % (2 * (MaxInt + 1))) - (MaxInt + 1)
JavaRem(n, m) == IF n >= 0 THEN n % m ELSE -((-n) % m)

RealLength(d) == RecordHead + d.length

\* Where openWrite of each file goes on. Mutants: the store is written from its
\* beginning; the torn item is kept; the header is forgotten.
StoreFromStart == 0
StoreEnd == Len(store)

KeepTornItem == Len(uidx)
ForgetHeader == Len(uidx) - JavaRem(Len(uidx), ItemSize)
IndexEnd == Len(uidx) - JavaRem(Len(uidx) - HeaderSize, ItemSize)

-----------------------------------------------------------------------------
Init ==
    /\ store = <<>> /\ uidx = <<>>
    /\ pc = "closed"
    /\ offset = 0 /\ storePos = 0 /\ indexPos = 0
    /\ item = NoItem
    /\ returned = 0 /\ crashes = 0

\* DocumentFile.openWrite
OpenStore ==
    /\ pc = "closed"
    /\ storePos' = StoreEnd
    /\ offset' = Wrap(Len(store))
    /\ pc' = "openIndex"
    /\ UNCHANGED <<store, uidx, indexPos, item, returned, crashes>>

\* IndexFileUnordered.openWrite: a new file gets a header, an old one is taken
\* up after its last complete item.
OpenIndex ==
    /\ pc = "openIndex"
    /\ \/ /\ uidx = <<>>
          /\ uidx' = Zeros(HeaderSize)
          /\ indexPos' = HeaderSize
       \/ /\ uidx # <<>>
          /\ indexPos' = IndexEnd
          /\ UNCHANGED uidx
    /\ pc' = "ready"
    /\ UNCHANGED <<store, offset, storePos, item, returned, crashes>>

\* DocumentFile.writeOne, with the offset asked for before it ...
WriteStore(d) ==
    /\ pc = "ready" /\ Len(store) < MaxBytes
    /\ item' = [hash |-> d.hash, offset |-> offset]
    /\ store' = Overwrite(store, storePos, BytesOf(d, RealLength(d)))
    /\ storePos' = storePos + RealLength(d)
    /\ offset' = Wrap(offset + RealLength(d))
    /\ pc' = "index"
    /\ UNCHANGED <<uidx, indexPos, returned, crashes>>

\* ... and IndexFileUnordered.writeOne.
WriteIndex ==
    /\ pc = "index"
    /\ uidx' = Overwrite(uidx, indexPos, BytesOf(item, ItemSize))
    /\ indexPos' = indexPos + ItemSize
    /\ returned' = returned + 1
    /\ pc' = "ready"
    /\ UNCHANGED <<store, offset, storePos, item, crashes>>

\* closeWrite of both files, at the end of the stream.
Close ==
    /\ pc = "ready"
    /\ pc' = "closed"
    /\ UNCHANGED <<store, uidx, offset, storePos, indexPos, item, returned, crashes>>

\* The process is killed after n bytes of the write at hand, if there is one.
Crash ==
    /\ pc # "closed" /\ crashes < MaxCrashes
    /\ crashes' = crashes + 1
    /\ pc' = "closed"
    /\ \/ UNCHANGED <<store, uidx>>
       \/ /\ pc = "openIndex" /\ uidx = <<>>
          /\ \E n \in 1 .. HeaderSize : uidx' = Zeros(n)
          /\ UNCHANGED store
       \/ /\ pc = "ready" /\ Len(store) < MaxBytes
          /\ \E d \in Documents : \E n \in 1 .. RealLength(d) :
                store' = Overwrite(store, storePos, SubSeq(BytesOf(d, RealLength(d)), 1, n))
          /\ UNCHANGED uidx
       \/ /\ pc = "index"
          /\ \E n \in 1 .. ItemSize :
                uidx' = Overwrite(uidx, indexPos, SubSeq(BytesOf(item, ItemSize), 1, n))
          /\ UNCHANGED store
    /\ UNCHANGED <<offset, storePos, indexPos, item, returned>>

Next ==
    \/ OpenStore \/ OpenIndex
    \/ \E d \in Documents : WriteStore(d)
    \/ WriteIndex \/ Close \/ Crash

Spec == Init /\ [][Next]_vars

-----------------------------------------------------------------------------
(* What the readers of the two files make of them.                         *)

Garbage == [hash |-> -1, length |-> -1, offset |-> -1]

\* IndexFileUnordered.readAllFromFile: the complete items behind the header.
ReadAll ==
    [n \in 1 .. (Len(uidx) - HeaderSize) \div ItemSize |->
        LET chunk == SubSeq(uidx, HeaderSize + (n - 1) * ItemSize + 1,
                                  HeaderSize + n * ItemSize)
        IN IF chunk = BytesOf(chunk[1].of, ItemSize) THEN chunk[1].of ELSE Garbage]

\* Document.readOne: the document whose bytes begin at offset o; a seek to a
\* negative offset fails.
ReadOne(o) ==
    IF o \notin 0 .. Len(store) - RecordHead THEN Garbage
    ELSE LET d == store[o + 1].of
         IN IF /\ o + RealLength(d) <= Len(store)
               /\ SubSeq(store, o + 1, o + RealLength(d)) = BytesOf(d, RealLength(d))
            THEN d ELSE Garbage

ReadableLog == [n \in DOMAIN ReadAll |-> ReadOne(ReadAll[n].offset)]

(* Whatever a kill left torn, in either file or in both, each complete     *)
(* index item is one the builder wrote, and leads to a complete document   *)
(* with the hash of the item: the two writes of IndexBuilder 120-124 and   *)
(* the two ways of reopening (append behind the torn record, overwrite the *)
(* torn item) fit together. Holds while offsets fit an int.                *)
ItemsReadBack ==
    \A n \in DOMAIN ReadAll :
        ReadAll[n] # Garbage /\ ReadOne(ReadAll[n].offset).hash = ReadAll[n].hash

(* No completed index write is ever lost: recovery drops the torn item and *)
(* nothing in front of it (IndexFileUnordered 44-46).                      *)
CompletedWritesStay == returned <= Len(ReadableLog)

Log == INSTANCE IndexedLog WITH log <- ReadableLog

(* The two files implement the log of documents: an entry appears whole,   *)
(* and no later write, kill or reopening changes what it reads.            *)
ImplementsIndexedLog == Log!Spec
=============================================================================

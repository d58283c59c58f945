--------------------------- MODULE StoreFileProofs --------------------------
(***************************************************************************)
(* Proofs about StoreFile: while the offsets fit an int, the two files     *)
(* implement the log of documents of IndexedLog, whatever the documents,   *)
(* the number of kills and the bytes at which they strike.                 *)
(*                                                                         *)
(* The argument: the store file is only appended to, so that a document    *)
(* once written whole stays where it is; the index file is written from    *)
(* the end of its last complete item, so that complete items stay as well  *)
(* and a write cut short adds none; an item is written only after the      *)
(* document it points to.  Reading the files back then gives, item by      *)
(* item, the documents in front of the item being written.                 *)
(***************************************************************************)
EXTENDS StoreFile, SequenceTheorems, TLAPS

\* No document is begun at an offset that an int does not hold.
OffsetsFit == MaxBytes <= MaxInt + 1

Items == [hash : Nat, offset : Nat]
Byte == [of : Documents \cup Items, at : Nat]

\* The number of complete items of an index file of this length.
Complete(size) == IF size < HeaderSize THEN 0 ELSE (size - HeaderSize) \div ItemSize

\* The n-th item of index file f is it, whole; document d lies whole at offset
\* o of store file f.
ItemAt(f, n, it) ==
    \A j \in 1 .. ItemSize : f[HeaderSize + (n - 1) * ItemSize + j] = [of |-> it, at |-> j]
DocAt(f, o, d) ==
    /\ o + RealLength(d) <= Len(f)
    /\ \A j \in 1 .. RealLength(d) : f[o + j] = [of |-> d, at |-> j]

\* Item it points to document d, which lies whole in store file f.
Leads(f, it, d) == it.hash = d.hash /\ DocAt(f, it.offset, d)

(* The types of the variables.                                             *)
TypeInv ==
    /\ store \in Seq(Byte) /\ uidx \in Seq(Byte)
    /\ pc \in {"closed", "openIndex", "ready", "index"}
    /\ item \in Items
    /\ returned \in Nat /\ crashes \in Nat

(* While the builder runs, the store file is written at its end, and an    *)
(* offset that is still handed out is that end; the index file is written  *)
(* behind its last complete item.                                          *)
PositionsInv ==
    /\ pc # "closed" => /\ storePos = Len(store)
                        /\ Len(store) < MaxBytes => offset = Len(store)
    /\ pc \in {"ready", "index"} =>
          /\ uidx # <<>>
          /\ indexPos = HeaderSize + ItemSize * Complete(Len(uidx))

(* Every complete item, and the one about to be written, leads to a        *)
(* document; the completed writes are among the complete items.            *)
ItemsInv ==
    /\ \A n \in 1 .. Complete(Len(uidx)) :
          \E it \in Items, d \in Documents : ItemAt(uidx, n, it) /\ Leads(store, it, d)
    /\ pc = "index" => \E d \in Documents : Leads(store, item, d)
    /\ returned <= Complete(Len(uidx))

IInv == TypeInv /\ PositionsInv /\ ItemsInv

-----------------------------------------------------------------------------
(* Lemmas about the operators of StoreFile.                                *)

\* A size that an int holds survives the cast to int.
LEMMA WrapOfInt ==
    ASSUME NEW n \in Nat, n <= MaxInt
    PROVE  Wrap(n) = n
BY StoreAssumption DEF Wrap

\* The items of an index file and what is left of the next one.
LEMMA CompleteItems ==
    ASSUME NEW size \in Nat
    PROVE  /\ Complete(size) \in Nat
           /\ size >= HeaderSize =>
                /\ size - (HeaderSize + ItemSize * Complete(size)) \in 0 .. ItemSize - 1
                /\ JavaRem(size - HeaderSize, ItemSize)
                     = size - (HeaderSize + ItemSize * Complete(size))
           /\ size < HeaderSize =>
                Complete(size) = 0 /\ JavaRem(size - HeaderSize, ItemSize) = size - HeaderSize
           /\ \A n \in Int : n \in 1 .. ((size - HeaderSize) \div ItemSize)
                                <=> n \in 1 .. Complete(size)
BY DEF Complete, HeaderSize, ItemSize, JavaRem

\* A size between two item boundaries has the items of the lower one.
LEMMA CompleteAt ==
    ASSUME NEW k \in Nat, NEW r \in 0 .. ItemSize - 1
    PROVE  Complete(HeaderSize + ItemSize * k + r) = k
BY DEF Complete, HeaderSize, ItemSize

LEMMA CompleteIsNat ==
    ASSUME NEW f \in Seq(Byte)
    PROVE  Len(f) \in Nat /\ Complete(Len(f)) \in Nat
<1>1. Len(f) \in Nat
  OBVIOUS
<1> QED BY <1>1, CompleteItems

LEMMA BytesOfProperties ==
    ASSUME NEW x \in Documents \cup Items, NEW size \in Nat
    PROVE  /\ BytesOf(x, size) \in Seq(Byte)
           /\ Len(BytesOf(x, size)) = size
           /\ \A j \in 1 .. size : BytesOf(x, size)[j] = [of |-> x, at |-> j]
           /\ \A n \in 1 .. size :
                /\ SubSeq(BytesOf(x, size), 1, n) \in Seq(Byte)
                /\ Len(SubSeq(BytesOf(x, size), 1, n)) = n
                /\ \A j \in 1 .. n : SubSeq(BytesOf(x, size), 1, n)[j] = [of |-> x, at |-> j]
<1>1. \A j \in 1 .. size : [of |-> x, at |-> j] \in Byte
  BY DEF Byte
<1>2. BytesOf(x, size) \in [1 .. size -> Byte]
  BY <1>1 DEF BytesOf
<1>3. BytesOf(x, size) \in Seq(Byte) /\ Len(BytesOf(x, size)) = size
  BY <1>2
<1>4. \A j \in 1 .. size : BytesOf(x, size)[j] = [of |-> x, at |-> j]
  BY DEF BytesOf
<1>5. ASSUME NEW n \in 1 .. size
      PROVE  /\ SubSeq(BytesOf(x, size), 1, n) \in Seq(Byte)
             /\ Len(SubSeq(BytesOf(x, size), 1, n)) = n
             /\ \A j \in 1 .. n : SubSeq(BytesOf(x, size), 1, n)[j] = [of |-> x, at |-> j]
  <2>1. ASSUME NEW i \in 1 .. n
        PROVE  BytesOf(x, size)[i] \in Byte
    <3>1. i \in 1 .. size
      OBVIOUS
    <3> QED BY <3>1, <1>1, <1>4
  <2>2. /\ SubSeq(BytesOf(x, size), 1, n) \in Seq(Byte)
        /\ Len(SubSeq(BytesOf(x, size), 1, n)) = IF 1 <= n THEN n - 1 + 1 ELSE 0
        /\ \A i \in 1 .. n - 1 + 1 : SubSeq(BytesOf(x, size), 1, n)[i] = BytesOf(x, size)[1 + i - 1]
    BY <2>1, SubSeqProperties
  <2> QED BY <2>2, <1>4
<1> QED BY <1>3, <1>4, <1>5

LEMMA ZerosProperties ==
    ASSUME NEW n \in Nat
    PROVE  /\ Zeros(n) \in Seq(Byte)
           /\ Len(Zeros(n)) = n
<1>1. Zero \in Byte
  BY DEF Zero, NoItem, Byte, Items
<1>2. Zeros(n) \in [1 .. n -> Byte]
  BY <1>1 DEF Zeros
<1> QED BY <1>2

\* What lies in front of the written bytes stays, and they are where they were
\* to be; what they do not reach is not lost either.
LEMMA OverwriteProperties ==
    ASSUME NEW f \in Seq(Byte), NEW pos \in Nat, NEW b \in Seq(Byte)
    PROVE  /\ Overwrite(f, pos, b) \in Seq(Byte)
           /\ Len(Overwrite(f, pos, b))
                = IF Len(f) > pos + Len(b) THEN Len(f) ELSE pos + Len(b)
           /\ \A i \in 1 .. pos : i <= Len(f) => Overwrite(f, pos, b)[i] = f[i]
           /\ \A i \in 1 .. Len(b) : Overwrite(f, pos, b)[pos + i] = b[i]
<1> DEFINE h == f \o Zeros(IF pos > Len(f) THEN pos - Len(f) ELSE 0)
           head == SubSeq(h, 1, pos)
           last == SubSeq(h, pos + Len(b) + 1, Len(h))
<1>0. Len(f) \in Nat /\ Len(b) \in Nat
  OBVIOUS
<1>1. /\ h \in Seq(Byte)
      /\ Len(h) = IF pos > Len(f) THEN pos ELSE Len(f)
      /\ \A i \in 1 .. Len(f) : h[i] = f[i]
  <2> DEFINE z == Zeros(IF pos > Len(f) THEN pos - Len(f) ELSE 0)
  <2>1. z \in Seq(Byte) /\ Len(z) = IF pos > Len(f) THEN pos - Len(f) ELSE 0
    BY <1>0, ZerosProperties
  <2> HIDE DEF z
  <2>2. /\ f \o z \in Seq(Byte)
        /\ Len(f \o z) = Len(f) + Len(z)
        /\ \A i \in 1 .. Len(f) + Len(z) : (f \o z)[i] = IF i <= Len(f) THEN f[i] ELSE z[i - Len(f)]
    BY <2>1, ConcatProperties
  <2>3. h = f \o z
    BY DEF z
  <2> HIDE DEF h
  <2> QED BY <1>0, <2>1, <2>2, <2>3
<1> HIDE DEF h
<1>2. /\ head \in Seq(Byte) /\ Len(head) = pos
      /\ \A i \in 1 .. pos : head[i] = h[i]
  <2>1. \A i \in 1 .. pos : h[i] \in Byte
    BY <1>0, <1>1
  <2>2. /\ head \in Seq(Byte)
        /\ Len(head) = IF 1 <= pos THEN pos - 1 + 1 ELSE 0
        /\ \A i \in 1 .. pos - 1 + 1 : head[i] = h[1 + i - 1]
    BY <2>1, SubSeqProperties
  <2> QED BY <2>2
<1>3. /\ last \in Seq(Byte)
      /\ Len(last) = IF pos + Len(b) + 1 <= Len(h) THEN Len(h) - (pos + Len(b)) ELSE 0
  <2>1. \A i \in pos + Len(b) + 1 .. Len(h) : h[i] \in Byte
    BY <1>0, <1>1
  <2>2. /\ last \in Seq(Byte)
        /\ Len(last) = IF pos + Len(b) + 1 <= Len(h) THEN Len(h) - (pos + Len(b) + 1) + 1 ELSE 0
    BY <2>1, <1>0, <1>1, SubSeqProperties
  <2> QED BY <2>2, <1>0, <1>1
<1>4. Overwrite(f, pos, b) = (head \o b) \o last
  BY DEF Overwrite, h
<1> HIDE DEF head, last
<1>5. /\ head \o b \in Seq(Byte)
      /\ Len(head \o b) = pos + Len(b)
      /\ \A i \in 1 .. pos + Len(b) : (head \o b)[i] = IF i <= pos THEN head[i] ELSE b[i - pos]
  BY <1>2, ConcatProperties
<1>6. /\ (head \o b) \o last \in Seq(Byte)
      /\ Len((head \o b) \o last) = pos + Len(b) + Len(last)
      /\ \A i \in 1 .. pos + Len(b) + Len(last) :
            i <= pos + Len(b) => ((head \o b) \o last)[i] = (head \o b)[i]
  BY <1>3, <1>5, ConcatProperties
<1>7. ASSUME NEW i \in 1 .. pos, i <= Len(f)
      PROVE  Overwrite(f, pos, b)[i] = f[i]
  BY <1>0, <1>1, <1>2, <1>3, <1>4, <1>5, <1>6, <1>7
<1>8. ASSUME NEW i \in 1 .. Len(b)
      PROVE  Overwrite(f, pos, b)[pos + i] = b[i]
  <2>1. /\ pos + i \in 1 .. pos + Len(b) /\ pos + i \in 1 .. pos + Len(b) + Len(last)
        /\ ~(pos + i <= pos) /\ (pos + i) - pos = i
    <3>1. Len(last) \in Nat
      BY <1>3
    <3> QED BY <1>0, <3>1
  <2>2. ((head \o b) \o last)[pos + i] = (head \o b)[pos + i]
    BY <2>1, <1>6
  <2>3. (head \o b)[pos + i] = b[(pos + i) - pos]
    BY <2>1, <1>5
  <2> QED BY <2>1, <2>2, <2>3, <1>4
<1>9. /\ Overwrite(f, pos, b) \in Seq(Byte)
      /\ Len(Overwrite(f, pos, b)) = IF Len(f) > pos + Len(b) THEN Len(f) ELSE pos + Len(b)
  <2>1. Len(last) = IF Len(f) > pos + Len(b) THEN Len(f) - (pos + Len(b)) ELSE 0
    BY <1>0, <1>1, <1>3
  <2>2. Overwrite(f, pos, b) \in Seq(Byte) /\ Len(Overwrite(f, pos, b)) = pos + Len(b) + Len(last)
    BY <1>4, <1>6
  <2>3. CASE Len(f) > pos + Len(b)
    BY <1>0, <2>1, <2>2, <2>3
  <2>4. CASE ~(Len(f) > pos + Len(b))
    BY <1>0, <2>1, <2>2, <2>4
  <2> QED BY <2>3, <2>4
<1> QED BY <1>7, <1>8, <1>9

-----------------------------------------------------------------------------
(* What the writes do to the two files.                                    *)

\* The files keep what they hold: the store file to its end, the index file
\* behind the header and as far as its complete items reach.
StoreKept(f, g) == Len(f) <= Len(g) /\ \A i \in 1 .. Len(f) : g[i] = f[i]
ItemsKept(f, g) ==
    \A i \in HeaderSize + 1 .. HeaderSize + ItemSize * Complete(Len(f)) : g[i] = f[i]

LEMMA DocumentStays ==
    ASSUME NEW f \in Seq(Byte), NEW g \in Seq(Byte), StoreKept(f, g),
           NEW o \in Nat, NEW d \in Documents, DocAt(f, o, d)
    PROVE  DocAt(g, o, d)
<1>1. RealLength(d) \in Nat /\ Len(f) \in Nat /\ Len(g) \in Nat
  BY StoreAssumption DEF RealLength, RecordHead
<1>2. o + RealLength(d) <= Len(g)
  BY <1>1 DEF DocAt, StoreKept
<1>3. ASSUME NEW j \in 1 .. RealLength(d)
      PROVE  g[o + j] = [of |-> d, at |-> j]
  <2>1. o + j \in 1 .. Len(f)
    BY <1>1 DEF DocAt
  <2> QED BY <2>1 DEF DocAt, StoreKept
<1> QED BY <1>2, <1>3 DEF DocAt

LEMMA ItemStays ==
    ASSUME NEW f \in Seq(Byte), NEW g, ItemsKept(f, g),
           NEW n \in 1 .. Complete(Len(f)), NEW it, ItemAt(f, n, it)
    PROVE  ItemAt(g, n, it)
<1>1. Complete(Len(f)) \in Nat
  BY CompleteItems
<1>2. ASSUME NEW j \in 1 .. ItemSize
      PROVE  g[HeaderSize + (n - 1) * ItemSize + j] = [of |-> it, at |-> j]
  <2>1. HeaderSize + (n - 1) * ItemSize + j
          \in HeaderSize + 1 .. HeaderSize + ItemSize * Complete(Len(f))
    BY <1>1 DEF HeaderSize, ItemSize
  <2> QED BY <2>1 DEF ItemsKept, ItemAt
<1> QED BY <1>2 DEF ItemAt

\* Bytes written at the end of the store file.
LEMMA StoreGrows ==
    ASSUME NEW f \in Seq(Byte), NEW b \in Seq(Byte)
    PROVE  /\ Overwrite(f, Len(f), b) \in Seq(Byte)
           /\ Len(Overwrite(f, Len(f), b)) = Len(f) + Len(b)
           /\ StoreKept(f, Overwrite(f, Len(f), b))
<1>1. Len(f) \in Nat /\ Len(b) \in Nat
  OBVIOUS
<1>2. /\ Overwrite(f, Len(f), b) \in Seq(Byte)
      /\ Len(Overwrite(f, Len(f), b)) = IF Len(f) > Len(f) + Len(b) THEN Len(f) ELSE Len(f) + Len(b)
      /\ \A i \in 1 .. Len(f) : i <= Len(f) => Overwrite(f, Len(f), b)[i] = f[i]
  BY <1>1, OverwriteProperties
<1> QED BY <1>1, <1>2 DEF StoreKept

\* A document written there lies whole at what was the end.
LEMMA DocumentWritten ==
    ASSUME NEW f \in Seq(Byte), NEW d \in Documents
    PROVE  DocAt(Overwrite(f, Len(f), BytesOf(d, RealLength(d))), Len(f), d)
<1>1. RealLength(d) \in Nat /\ Len(f) \in Nat
  BY StoreAssumption DEF RealLength, RecordHead
<1>2. /\ BytesOf(d, RealLength(d)) \in Seq(Byte)
      /\ Len(BytesOf(d, RealLength(d))) = RealLength(d)
      /\ \A j \in 1 .. RealLength(d) : BytesOf(d, RealLength(d))[j] = [of |-> d, at |-> j]
  BY <1>1, BytesOfProperties
<1>3. \A j \in 1 .. RealLength(d) :
        Overwrite(f, Len(f), BytesOf(d, RealLength(d)))[Len(f) + j] = BytesOf(d, RealLength(d))[j]
  <2> DEFINE b == BytesOf(d, RealLength(d))
  <2>1. b \in Seq(Byte) /\ Len(b) = RealLength(d)
    BY <1>2
  <2> HIDE DEF b
  <2>2. \A i \in 1 .. Len(b) : Overwrite(f, Len(f), b)[Len(f) + i] = b[i]
    BY <1>1, <2>1, OverwriteProperties
  <2>3. \A i \in 1 .. RealLength(d) : Overwrite(f, Len(f), b)[Len(f) + i] = b[i]
    BY <2>1, <2>2
  <2> QED BY <2>3 DEF b
<1>4. Len(Overwrite(f, Len(f), BytesOf(d, RealLength(d)))) = Len(f) + RealLength(d)
  BY <1>2, StoreGrows
<1>5. \A j \in 1 .. RealLength(d) :
        Overwrite(f, Len(f), BytesOf(d, RealLength(d)))[Len(f) + j] = [of |-> d, at |-> j]
  BY <1>2, <1>3
<1> QED BY <1>1, <1>4, <1>5 DEF DocAt

\* A length between the ends of two items, as the items are counted.
LEMMA BehindTheLast ==
    ASSUME NEW n \in Nat, NEW m \in Nat, 8 + 12 * n <= m, m < 20 + 12 * n
    PROVE  m - (HeaderSize + ItemSize * n) \in 0 .. ItemSize - 1
  BY DEF HeaderSize, ItemSize

\* The first n bytes of an item, written behind the last complete item: the
\* items stay, and only a whole one is added to them.
LEMMA IndexGrows ==
    ASSUME NEW f \in Seq(Byte), NEW b \in Seq(Byte), NEW pos, Len(b) \in 1 .. ItemSize,
           pos = HeaderSize + ItemSize * Complete(Len(f))
    PROVE  /\ Overwrite(f, pos, b) \in Seq(Byte)
           /\ Len(Overwrite(f, pos, b)) > 0
           /\ ItemsKept(f, Overwrite(f, pos, b))
           /\ Len(b) < ItemSize => Complete(Len(Overwrite(f, pos, b))) = Complete(Len(f))
           /\ Len(b) = ItemSize =>
                /\ Complete(Len(Overwrite(f, pos, b))) = Complete(Len(f)) + 1
                /\ \A x : (\A j \in 1 .. ItemSize : b[j] = [of |-> x, at |-> j])
                         => ItemAt(Overwrite(f, pos, b), Complete(Len(f)) + 1, x)
<1> DEFINE g == Overwrite(f, pos, b)
           k == Complete(Len(f))
<1>1. /\ Len(f) \in Nat /\ Len(b) \in Nat /\ k \in Nat /\ pos \in Nat
      /\ pos = 8 + 12 * k /\ Len(b) \in 1 .. 12
  <2>1. k \in Nat /\ Len(f) \in Nat
    BY CompleteIsNat
  <2> HIDE DEF k
  <2>2. pos = HeaderSize + ItemSize * k
    BY DEF k
  <2> QED BY <2>1, <2>2 DEF HeaderSize, ItemSize
<1>2. /\ Len(f) >= HeaderSize => Len(f) - (HeaderSize + ItemSize * k) \in 0 .. ItemSize - 1
      /\ Len(f) < HeaderSize => k = 0
  BY <1>1, CompleteItems
<1>3. /\ Len(f) < 20 + 12 * k
      /\ k = 0 \/ 8 + 12 * k <= Len(f)
  <2> HIDE DEF k
  <2> QED BY <1>1, <1>2 DEF HeaderSize, ItemSize
<1>4. /\ g \in Seq(Byte)
      /\ Len(g) = IF Len(f) > pos + Len(b) THEN Len(f) ELSE pos + Len(b)
      /\ \A i \in 1 .. pos : i <= Len(f) => g[i] = f[i]
      /\ \A i \in 1 .. Len(b) : g[pos + i] = b[i]
  BY <1>1, OverwriteProperties
<1> HIDE DEF g, k
<1>5. Len(g) \in Nat
  BY <1>4
<1>6. Len(g) \in Nat /\ Len(g) > 0
  <2>1. CASE Len(f) > pos + Len(b)
    BY <1>1, <1>4, <1>5, <2>1
  <2>2. CASE ~(Len(f) > pos + Len(b))
    BY <1>1, <1>4, <1>5, <2>2
  <2> QED BY <2>1, <2>2
<1>7. ItemsKept(f, g)
  <2>1. ASSUME NEW i \in HeaderSize + 1 .. HeaderSize + ItemSize * k
        PROVE  i \in 1 .. pos /\ i <= Len(f)
    <3>1. i \in Int /\ 9 <= i /\ i <= 8 + 12 * k
      BY <1>1 DEF HeaderSize, ItemSize
    <3> QED BY <1>1, <1>3, <3>1
  <2> QED BY <2>1, <1>4 DEF ItemsKept, k
<1>n. k \in Nat
  BY <1>1
<1>8. ASSUME Len(b) < ItemSize
      PROVE  Complete(Len(g)) = k
  <2>1. Len(g) - (HeaderSize + ItemSize * k) \in 0 .. ItemSize - 1
    <3>1. CASE Len(f) > pos + Len(b)
      <4>1. Len(g) = Len(f)
        BY <1>4, <3>1
      <4>2. 8 + 12 * k <= Len(g) /\ Len(g) < 20 + 12 * k
        BY <1>1, <1>3, <3>1, <4>1
      <4> QED BY <1>n, <1>5, <4>2, BehindTheLast
    <3>2. CASE ~(Len(f) > pos + Len(b))
      <4>1. Len(g) = pos + Len(b)
        BY <1>4, <3>2
      <4>2. Len(b) < 12
        BY <1>8 DEF ItemSize
      <4>3. 8 + 12 * k <= Len(g) /\ Len(g) < 20 + 12 * k
        BY <1>1, <4>1, <4>2
      <4> QED BY <1>n, <1>5, <4>3, BehindTheLast
    <3> QED BY <3>1, <3>2
  <2>2. Complete(HeaderSize + ItemSize * k + (Len(g) - (HeaderSize + ItemSize * k))) = k
    BY <1>1, <2>1, CompleteAt
  <2>3. HeaderSize + ItemSize * k + (Len(g) - (HeaderSize + ItemSize * k)) = Len(g)
    BY <1>1, <1>6 DEF HeaderSize, ItemSize
  <2> QED BY <2>2, <2>3
<1>9. ASSUME Len(b) = ItemSize
      PROVE  /\ Complete(Len(g)) = k + 1
             /\ \A x : (\A j \in 1 .. ItemSize : b[j] = [of |-> x, at |-> j])
                      => ItemAt(g, k + 1, x)
  <2>1. Len(g) = HeaderSize + ItemSize * (k + 1) + 0
    <3>1. Len(b) = 12
      BY <1>9 DEF ItemSize
    <3>2. pos + Len(b) = 20 + 12 * k
      BY <1>1, <3>1
    <3>3. ~(Len(f) > pos + Len(b))
      BY <1>1, <1>3, <3>2
    <3>4. Len(g) = 20 + 12 * k
      BY <1>4, <3>2, <3>3
    <3> QED BY <1>1, <3>4 DEF HeaderSize, ItemSize
  <2>2. Complete(Len(g)) = k + 1
    <3>1. k + 1 \in Nat /\ 0 \in 0 .. ItemSize - 1
      BY <1>1 DEF ItemSize
    <3> QED BY <2>1, <3>1, CompleteAt
  <2>3. ASSUME NEW j \in 1 .. ItemSize
        PROVE  g[HeaderSize + ((k + 1) - 1) * ItemSize + j] = b[j]
    <3>1. HeaderSize + ((k + 1) - 1) * ItemSize + j = pos + j
      BY <1>1 DEF HeaderSize, ItemSize
    <3> QED BY <1>4, <1>9, <3>1
  <2> QED BY <2>2, <2>3 DEF ItemAt
<1> QED BY <1>4, <1>6, <1>7, <1>8, <1>9, <1>1 DEF g, k, ItemSize

\* Reading the two files back: a whole item gives itself, and the document it
\* leads to.
LEMMA ReadBack ==
    ASSUME store \in Seq(Byte), uidx \in Seq(Byte),
           NEW n \in 1 .. Complete(Len(uidx)), NEW it \in Items, NEW d \in Documents,
           ItemAt(uidx, n, it), Leads(store, it, d)
    PROVE  /\ n \in DOMAIN ReadAll
           /\ ReadAll[n] = it
           /\ ReadOne(it.offset) = d
           /\ ReadableLog[n] = d
<1>1. /\ Len(uidx) \in Nat /\ Len(store) \in Nat /\ Complete(Len(uidx)) \in Nat
      /\ n \in Int /\ n >= 1 /\ 8 + 12 * n <= Len(uidx)
  <2> DEFINE k == Complete(Len(uidx))
  <2>1. Len(uidx) \in Nat /\ Len(store) \in Nat /\ k \in Nat
    BY CompleteIsNat
  <2>2. /\ Len(uidx) >= HeaderSize => Len(uidx) - (HeaderSize + ItemSize * k) \in 0 .. ItemSize - 1
        /\ Len(uidx) < HeaderSize => k = 0
    BY <2>1, CompleteItems
  <2>3. n \in 1 .. k
    OBVIOUS
  <2> HIDE DEF k
  <2>4. n \in Int /\ n >= 1 /\ n <= k
    BY <2>1, <2>3
  <2>5. 8 + 12 * n <= Len(uidx)
    BY <2>1, <2>2, <2>4 DEF HeaderSize, ItemSize
  <2> QED BY <2>1, <2>4, <2>5 DEF k
<1>2. DOMAIN ReadAll = 1 .. ((Len(uidx) - HeaderSize) \div ItemSize) /\ n \in DOMAIN ReadAll
  BY <1>1, CompleteItems DEF ReadAll
<1> DEFINE from == HeaderSize + (n - 1) * ItemSize + 1
           chunk == SubSeq(uidx, from, HeaderSize + n * ItemSize)
<1>3. chunk = BytesOf(it, ItemSize)
  <2>1. ASSUME NEW i \in from .. HeaderSize + n * ItemSize
        PROVE  uidx[i] \in Byte
    <3>1. i \in 1 .. Len(uidx)
      BY <1>1 DEF HeaderSize, ItemSize
    <3> QED BY <3>1
  <2>2. /\ chunk \in Seq(Byte)
        /\ Len(chunk) = ItemSize
        /\ \A i \in 1 .. ItemSize : chunk[i] = uidx[from + i - 1]
    <3>1. from \in Int /\ HeaderSize + n * ItemSize \in Int
      BY DEF HeaderSize, ItemSize
    <3>2. /\ chunk \in Seq(Byte)
          /\ Len(chunk) = IF from <= HeaderSize + n * ItemSize
                          THEN (HeaderSize + n * ItemSize) - from + 1 ELSE 0
          /\ \A i \in 1 .. (HeaderSize + n * ItemSize) - from + 1 : chunk[i] = uidx[from + i - 1]
      BY <2>1, <3>1, SubSeqProperties
    <3>3. from <= HeaderSize + n * ItemSize /\ (HeaderSize + n * ItemSize) - from + 1 = ItemSize
      BY <1>1 DEF HeaderSize, ItemSize
    <3> HIDE DEF chunk
    <3> QED BY <3>2, <3>3
  <2>3. /\ BytesOf(it, ItemSize) \in Seq(Byte)
        /\ Len(BytesOf(it, ItemSize)) = ItemSize
        /\ \A j \in 1 .. ItemSize : BytesOf(it, ItemSize)[j] = [of |-> it, at |-> j]
    <3>1. ItemSize \in Nat /\ it \in Documents \cup Items
      BY DEF ItemSize
    <3> QED BY <3>1, BytesOfProperties
  <2>4. ASSUME NEW j \in 1 .. ItemSize
        PROVE  chunk[j] = BytesOf(it, ItemSize)[j]
    <3>1. from + j - 1 = HeaderSize + (n - 1) * ItemSize + j
      BY DEF HeaderSize, ItemSize
    <3>2. uidx[HeaderSize + (n - 1) * ItemSize + j] = [of |-> it, at |-> j]
      BY DEF ItemAt
    <3> HIDE DEF from, chunk
    <3>3. chunk[j] = uidx[from + j - 1]
      BY <2>2
    <3> QED BY <2>3, <3>1, <3>2, <3>3
  <2> HIDE DEF chunk
  <2> QED BY <2>2, <2>3, <2>4, SeqEqual
<1>4. BytesOf(it, ItemSize)[1].of = it
  BY DEF BytesOf, ItemSize
<1>5. ReadAll[n] = it
  <2>1. ReadAll[n] = IF chunk = BytesOf(chunk[1].of, ItemSize) THEN chunk[1].of ELSE Garbage
    BY <1>2 DEF ReadAll
  <2> HIDE DEF chunk
  <2> QED BY <1>3, <1>4, <2>1
<1>6. ReadOne(it.offset) = d
  <2> DEFINE o == it.offset
             piece == SubSeq(store, o + 1, o + RealLength(d))
  <2>1. o \in Nat /\ RealLength(d) \in Nat /\ RealLength(d) >= RecordHead
    BY StoreAssumption DEF Items, RealLength, RecordHead
  <2>2. /\ o + RealLength(d) <= Len(store)
        /\ \A j \in 1 .. RealLength(d) : store[o + j] = [of |-> d, at |-> j]
    BY DEF Leads, DocAt
  <2> HIDE DEF o
  <2>3. o \in 0 .. Len(store) - RecordHead
    BY <1>1, <2>1, <2>2 DEF RecordHead
  <2>4. store[o + 1].of = d
    <3>1. 1 \in 1 .. RealLength(d)
      BY <2>1 DEF RecordHead
    <3>2. store[o + 1] = [of |-> d, at |-> 1]
      BY <2>2, <3>1
    <3> QED BY <3>2
  <2>5. piece = BytesOf(d, RealLength(d))
    <3>1. \A i \in o + 1 .. o + RealLength(d) : store[i] \in Byte
      BY <1>1, <2>1, <2>2
    <3>2. /\ piece \in Seq(Byte)
          /\ Len(piece) = IF o + 1 <= o + RealLength(d) THEN (o + RealLength(d)) - (o + 1) + 1 ELSE 0
          /\ \A i \in 1 .. (o + RealLength(d)) - (o + 1) + 1 : piece[i] = store[(o + 1) + i - 1]
      BY <2>1, <3>1, SubSeqProperties
    <3>3. /\ BytesOf(d, RealLength(d)) \in Seq(Byte)
          /\ Len(BytesOf(d, RealLength(d))) = RealLength(d)
          /\ \A j \in 1 .. RealLength(d) : BytesOf(d, RealLength(d))[j] = [of |-> d, at |-> j]
      BY <2>1, BytesOfProperties
    <3> HIDE DEF piece
    <3>4. piece \in Seq(Byte) /\ Len(piece) = RealLength(d)
      BY <2>1, <3>2 DEF RecordHead
    <3>5. ASSUME NEW j \in 1 .. RealLength(d)
          PROVE  piece[j] = BytesOf(d, RealLength(d))[j]
      <4>1. j \in 1 .. (o + RealLength(d)) - (o + 1) + 1 /\ (o + 1) + j - 1 = o + j
        BY <2>1
      <4> QED BY <2>2, <3>2, <3>3, <4>1
    <3> QED BY <3>3, <3>4, <3>5, SeqEqual
  <2>6. ReadOne(o) = IF o + RealLength(d) <= Len(store) /\ piece = BytesOf(d, RealLength(d))
                     THEN d ELSE Garbage
    BY <2>3, <2>4 DEF ReadOne
  <2> HIDE DEF piece
  <2>7. ReadOne(o) = d
    BY <2>2, <2>5, <2>6
  <2> QED BY <2>7 DEF o
<1>7. ReadableLog[n] = ReadOne(ReadAll[n].offset)
  BY <1>2 DEF ReadableLog
<1> QED BY <1>2, <1>5, <1>6, <1>7

\* What a reader finds as the n-th entry, as a formula on the two files; it
\* holds before and after every step.
EntryRead ==
    store \in Seq(Byte) /\ uidx \in Seq(Byte) =>
        \A n \in 1 .. Complete(Len(uidx)), it \in Items, d \in Documents :
            ItemAt(uidx, n, it) /\ Leads(store, it, d) => ReadableLog[n] = d

LEMMA EntriesRead == EntryRead
BY ReadBack DEF EntryRead

-----------------------------------------------------------------------------
(* The inductive invariant.                                                *)

\* What a step may do to the files: keep them, or complete the item at hand.
FilesKept ==
    /\ StoreKept(store, store') /\ ItemsKept(uidx, uidx')
    /\ \/ Complete(Len(uidx')) = Complete(Len(uidx))
       \/ /\ pc = "index"
          /\ Complete(Len(uidx')) = Complete(Len(uidx)) + 1
          /\ ItemAt(uidx', Complete(Len(uidx)) + 1, item)

LEMMA SameStore == ASSUME store \in Seq(Byte), store' = store PROVE StoreKept(store, store')
BY DEF StoreKept

LEMMA SameItems ==
    ASSUME uidx' = uidx
    PROVE  ItemsKept(uidx, uidx') /\ Complete(Len(uidx')) = Complete(Len(uidx))
BY DEF ItemsKept

\* A new index file, its header whole or torn, has no item.
LEMMA HeaderOnly ==
    ASSUME NEW n \in 0 .. HeaderSize
    PROVE  Zeros(n) \in Seq(Byte) /\ Len(Zeros(n)) = n /\ Complete(n) = 0
BY ZerosProperties DEF Complete, HeaderSize, ItemSize

LEMMA InitInv == Init => IInv
<1> SUFFICES ASSUME Init PROVE IInv
  OBVIOUS
<1>1. Complete(Len(<<>>)) = 0
  BY DEF Complete, HeaderSize
<1>2. TypeInv
  BY DEF Init, TypeInv, Items, NoItem
<1>3. PositionsInv
  BY DEF Init, PositionsInv
<1>4. ItemsInv
  BY <1>1 DEF Init, ItemsInv
<1> QED BY <1>2, <1>3, <1>4 DEF IInv

\* A write to the store file, cut short or not, leaves every item as it was.
LEMMA StoreWriteKeeps ==
    ASSUME TypeInv, NEW b \in Seq(Byte), storePos = Len(store),
           store' = Overwrite(store, storePos, b), uidx' = uidx
    PROVE  store' \in Seq(Byte) /\ uidx' \in Seq(Byte) /\ FilesKept
<1>1. store \in Seq(Byte) /\ uidx \in Seq(Byte)
  BY DEF TypeInv
<1>2. store' \in Seq(Byte) /\ StoreKept(store, store')
  BY <1>1, StoreGrows
<1> QED BY <1>1, <1>2, SameItems DEF FilesKept

\* A write to the index file leaves every item as it was, and adds one if it
\* is whole.
LEMMA IndexWriteKeeps ==
    ASSUME TypeInv, NEW n \in 1 .. ItemSize, NEW b \in Seq(Byte), Len(b) = n,
           \A j \in 1 .. n : b[j] = [of |-> item, at |-> j],
           pc = "index", indexPos = HeaderSize + ItemSize * Complete(Len(uidx)),
           uidx' = Overwrite(uidx, indexPos, b), store' = store
    PROVE  /\ store' \in Seq(Byte) /\ uidx' \in Seq(Byte) /\ FilesKept
           /\ Len(uidx') > 0
           /\ n = ItemSize => Complete(Len(uidx')) = Complete(Len(uidx)) + 1
<1>1. store \in Seq(Byte) /\ uidx \in Seq(Byte)
  BY DEF TypeInv
<1>2. /\ uidx' \in Seq(Byte) /\ Len(uidx') > 0 /\ ItemsKept(uidx, uidx')
      /\ n < ItemSize => Complete(Len(uidx')) = Complete(Len(uidx))
      /\ n = ItemSize => /\ Complete(Len(uidx')) = Complete(Len(uidx)) + 1
                         /\ ItemAt(uidx', Complete(Len(uidx)) + 1, item)
  <2> DEFINE g == Overwrite(uidx, indexPos, b)
  <2>1. Len(b) \in 1 .. ItemSize /\ \A j \in 1 .. Len(b) : b[j] = [of |-> item, at |-> j]
    OBVIOUS
  <2>2. /\ g \in Seq(Byte) /\ Len(g) > 0 /\ ItemsKept(uidx, g)
        /\ Len(b) < ItemSize => Complete(Len(g)) = Complete(Len(uidx))
        /\ Len(b) = ItemSize =>
             /\ Complete(Len(g)) = Complete(Len(uidx)) + 1
             /\ \A x : (\A j \in 1 .. ItemSize : b[j] = [of |-> x, at |-> j])
                      => ItemAt(g, Complete(Len(uidx)) + 1, x)
    BY <1>1, <2>1, IndexGrows
  <2> QED BY <2>2
<1>3. StoreKept(store, store')
  BY <1>1, SameStore
<1>4. n < ItemSize \/ n = ItemSize
  BY DEF ItemSize
<1>5. FilesKept
  BY <1>2, <1>3, <1>4 DEF FilesKept
<1> QED BY <1>1, <1>2, <1>5

\* The whole of a document or an item, and its first bytes.
LEMMA BytesToWrite ==
    ASSUME TypeInv
    PROVE  /\ \A d \in Documents :
                 /\ RealLength(d) \in Nat
                 /\ BytesOf(d, RealLength(d)) \in Seq(Byte)
                 /\ Len(BytesOf(d, RealLength(d))) = RealLength(d)
                 /\ \A n \in 1 .. RealLength(d) :
                       SubSeq(BytesOf(d, RealLength(d)), 1, n) \in Seq(Byte)
           /\ BytesOf(item, ItemSize) \in Seq(Byte) /\ Len(BytesOf(item, ItemSize)) = ItemSize
           /\ \A j \in 1 .. ItemSize : BytesOf(item, ItemSize)[j] = [of |-> item, at |-> j]
           /\ \A n \in 1 .. ItemSize :
                 /\ SubSeq(BytesOf(item, ItemSize), 1, n) \in Seq(Byte)
                 /\ Len(SubSeq(BytesOf(item, ItemSize), 1, n)) = n
                 /\ \A j \in 1 .. n :
                       SubSeq(BytesOf(item, ItemSize), 1, n)[j] = [of |-> item, at |-> j]
<1>1. ASSUME NEW d \in Documents
      PROVE  /\ RealLength(d) \in Nat
             /\ BytesOf(d, RealLength(d)) \in Seq(Byte)
             /\ Len(BytesOf(d, RealLength(d))) = RealLength(d)
             /\ \A n \in 1 .. RealLength(d) :
                   SubSeq(BytesOf(d, RealLength(d)), 1, n) \in Seq(Byte)
  <2>1. RealLength(d) \in Nat
    BY StoreAssumption DEF RealLength, RecordHead
  <2> QED BY <2>1, BytesOfProperties
<1>2. item \in Documents \cup Items /\ ItemSize \in Nat
  BY DEF TypeInv, ItemSize
<1>3. /\ BytesOf(item, ItemSize) \in Seq(Byte) /\ Len(BytesOf(item, ItemSize)) = ItemSize
      /\ \A j \in 1 .. ItemSize : BytesOf(item, ItemSize)[j] = [of |-> item, at |-> j]
      /\ \A n \in 1 .. ItemSize :
            /\ SubSeq(BytesOf(item, ItemSize), 1, n) \in Seq(Byte)
            /\ Len(SubSeq(BytesOf(item, ItemSize), 1, n)) = n
            /\ \A j \in 1 .. n :
                  SubSeq(BytesOf(item, ItemSize), 1, n)[j] = [of |-> item, at |-> j]
  <2> DEFINE b == BytesOf(item, ItemSize)
  <2> HIDE DEF b
  <2>1. /\ b \in Seq(Byte) /\ Len(b) = ItemSize
        /\ \A j \in 1 .. ItemSize : b[j] = [of |-> item, at |-> j]
    BY <1>2, BytesOfProperties DEF b
  <2>2. \A n \in 1 .. ItemSize :
          /\ SubSeq(b, 1, n) \in Seq(Byte)
          /\ Len(SubSeq(b, 1, n)) = n
          /\ \A j \in 1 .. n : SubSeq(b, 1, n)[j] = [of |-> item, at |-> j]
    BY <1>2, BytesOfProperties DEF b
  <2> QED BY <2>1, <2>2 DEF b
<1> QED BY <1>1, <1>3

\* The types, and the files.
LEMMA TypeStep ==
    ASSUME OffsetsFit, IInv, [Next]_vars
    PROVE  TypeInv' /\ FilesKept
<1> USE DEF IInv
<1>0. /\ store \in Seq(Byte) /\ uidx \in Seq(Byte)
      /\ item \in Items /\ returned \in Nat /\ crashes \in Nat
      /\ pc \in {"closed", "openIndex", "ready", "index"}
  BY DEF TypeInv
<1>1. ASSUME UNCHANGED <<store, uidx>>
      PROVE  store' \in Seq(Byte) /\ uidx' \in Seq(Byte) /\ FilesKept
  BY <1>0, <1>1, SameStore, SameItems DEF FilesKept
<1>2. ASSUME NEW n \in 0 .. HeaderSize, uidx = <<>>, uidx' = Zeros(n), store' = store
      PROVE  store' \in Seq(Byte) /\ uidx' \in Seq(Byte) /\ FilesKept
  <2>1. Complete(Len(uidx)) = 0
    BY <1>2 DEF Complete, HeaderSize
  <2>2. uidx' \in Seq(Byte) /\ Complete(Len(uidx')) = 0
    BY <1>2, HeaderOnly
  <2>3. ItemsKept(uidx, uidx')
    BY <2>1 DEF ItemsKept, HeaderSize, ItemSize
  <2> QED BY <1>0, <1>2, <2>1, <2>2, <2>3, SameStore DEF FilesKept
<1>3. CASE OpenStore
  BY <1>0, <1>1, <1>3 DEF OpenStore, TypeInv
<1>4. CASE OpenIndex
  <2>1. store' \in Seq(Byte) /\ uidx' \in Seq(Byte) /\ FilesKept
    BY <1>1, <1>2, <1>4 DEF OpenIndex, HeaderSize
  <2> QED BY <1>0, <1>4, <2>1 DEF OpenIndex, TypeInv
<1>5. ASSUME NEW d \in Documents, WriteStore(d)
      PROVE  TypeInv' /\ FilesKept
  <2>1. storePos = Len(store) /\ offset = Len(store)
    BY <1>5 DEF WriteStore, PositionsInv
  <2>2. store' \in Seq(Byte) /\ uidx' \in Seq(Byte) /\ FilesKept
    BY <1>5, <2>1, BytesToWrite, StoreWriteKeeps DEF WriteStore
  <2>3. item' \in Items
    BY <1>0, <1>5, <2>1, StoreAssumption DEF WriteStore, Items
  <2> QED BY <1>0, <1>5, <2>2, <2>3 DEF WriteStore, TypeInv
<1>6. CASE WriteIndex
  <2>1. store' \in Seq(Byte) /\ uidx' \in Seq(Byte) /\ FilesKept
    <3>1. ItemSize \in 1 .. ItemSize
      BY DEF ItemSize
    <3> QED BY <1>6, <3>1, BytesToWrite, IndexWriteKeeps DEF WriteIndex, PositionsInv
  <2> QED BY <1>0, <1>6, <2>1 DEF WriteIndex, TypeInv
<1>7. CASE Close
  BY <1>0, <1>1, <1>7 DEF Close, TypeInv
<1>8. CASE Crash
  <2>1. store' \in Seq(Byte) /\ uidx' \in Seq(Byte) /\ FilesKept
    <3>1. CASE UNCHANGED <<store, uidx>>
      BY <1>1, <3>1
    <3>2. CASE /\ pc = "openIndex" /\ uidx = <<>>
               /\ \E n \in 1 .. HeaderSize : uidx' = Zeros(n)
               /\ UNCHANGED store
      BY <1>2, <3>2 DEF HeaderSize
    <3>3. ASSUME pc = "ready", uidx' = uidx, NEW d \in Documents, NEW n \in 1 .. RealLength(d),
                 store' = Overwrite(store, storePos, SubSeq(BytesOf(d, RealLength(d)), 1, n))
          PROVE  store' \in Seq(Byte) /\ uidx' \in Seq(Byte) /\ FilesKept
      <4>1. storePos = Len(store)
        BY <3>3 DEF PositionsInv
      <4> QED BY <3>3, <4>1, BytesToWrite, StoreWriteKeeps
    <3>4. ASSUME pc = "index", store' = store, NEW n \in 1 .. ItemSize,
                 uidx' = Overwrite(uidx, indexPos, SubSeq(BytesOf(item, ItemSize), 1, n))
          PROVE  store' \in Seq(Byte) /\ uidx' \in Seq(Byte) /\ FilesKept
      <4>1. indexPos = HeaderSize + ItemSize * Complete(Len(uidx))
        BY <3>4 DEF PositionsInv
      <4> QED BY <3>4, <4>1, BytesToWrite, IndexWriteKeeps
    <3> QED BY <1>8, <3>1, <3>2, <3>3, <3>4 DEF Crash
  <2> QED BY <1>0, <1>8, <2>1 DEF Crash, TypeInv
<1>9. CASE UNCHANGED vars
  BY <1>0, <1>1, <1>9 DEF vars, TypeInv
<1> QED BY <1>3, <1>4, <1>5, <1>6, <1>7, <1>8, <1>9 DEF Next

\* The positions.
LEMMA PositionsStep ==
    ASSUME OffsetsFit, IInv, [Next]_vars
    PROVE  PositionsInv'
<1> USE DEF IInv
<1>0. /\ store \in Seq(Byte) /\ uidx \in Seq(Byte) /\ Len(store) \in Nat /\ Len(uidx) \in Nat
      /\ Complete(Len(uidx)) \in Nat
  BY CompleteIsNat DEF TypeInv
<1>1. CASE OpenStore
  <2>1. Len(store) < MaxBytes => Wrap(Len(store)) = Len(store)
    BY <1>0, WrapOfInt, StoreAssumption DEF OffsetsFit
  <2> QED BY <1>1, <2>1 DEF OpenStore, StoreEnd, PositionsInv
<1>2. CASE OpenIndex
  <2>1. /\ storePos = Len(store)
        /\ Len(store) < MaxBytes => offset = Len(store)
        /\ store' = store /\ offset' = offset /\ storePos' = storePos /\ pc' = "ready"
    BY <1>2 DEF OpenIndex, PositionsInv
  <2>2. CASE uidx = <<>> /\ uidx' = Zeros(HeaderSize) /\ indexPos' = HeaderSize
    <3>1. Len(uidx') = HeaderSize /\ Complete(HeaderSize) = 0
      BY <2>2, HeaderOnly DEF HeaderSize
    <3>2. uidx' # <<>>
      BY <3>1 DEF HeaderSize
    <3>3. indexPos' = HeaderSize + ItemSize * Complete(Len(uidx'))
      <4>1. Complete(Len(uidx')) = 0
        BY <3>1
      <4>2. indexPos' = HeaderSize
        BY <2>2
      <4> QED BY <4>1, <4>2 DEF HeaderSize, ItemSize
    <3> QED BY <2>1, <3>2, <3>3 DEF PositionsInv
  <2>3. CASE uidx # <<>> /\ indexPos' = IndexEnd /\ uidx' = uidx
    <3>1. IndexEnd = HeaderSize + ItemSize * Complete(Len(uidx))
      <4> DEFINE k == Complete(Len(uidx))
                 r == JavaRem(Len(uidx) - HeaderSize, ItemSize)
      <4>1. /\ Len(uidx) >= HeaderSize => r = Len(uidx) - (HeaderSize + ItemSize * k)
            /\ Len(uidx) < HeaderSize => k = 0 /\ r = Len(uidx) - HeaderSize
        BY <1>0, CompleteItems
      <4>2. IndexEnd = Len(uidx) - r
        BY DEF IndexEnd
      <4>3. k \in Nat
        BY <1>0
      <4> HIDE DEF k, r
      <4>4. IndexEnd = HeaderSize + ItemSize * k
        BY <1>0, <4>1, <4>2, <4>3 DEF HeaderSize, ItemSize
      <4> QED BY <4>4 DEF k
    <3> QED BY <2>1, <2>3, <3>1 DEF PositionsInv
  <2> QED BY <1>2, <2>2, <2>3 DEF OpenIndex
<1>3. ASSUME NEW d \in Documents, WriteStore(d)
      PROVE  PositionsInv'
  <2>1. /\ storePos = Len(store) /\ offset = Len(store)
        /\ uidx # <<>> /\ indexPos = HeaderSize + ItemSize * Complete(Len(uidx))
    BY <1>3 DEF WriteStore, PositionsInv
  <2>2. RealLength(d) \in Nat /\ Len(store') = Len(store) + RealLength(d)
    <3> DEFINE b == BytesOf(d, RealLength(d))
    <3>1. TypeInv
      OBVIOUS
    <3>2. RealLength(d) \in Nat /\ b \in Seq(Byte) /\ Len(b) = RealLength(d)
      BY <3>1, BytesToWrite
    <3>3. store' = Overwrite(store, Len(store), b)
      BY <1>3, <2>1 DEF WriteStore
    <3> HIDE DEF b
    <3> QED BY <1>0, <3>2, <3>3, StoreGrows
  <2>3. storePos' = Len(store')
    BY <1>3, <2>1, <2>2 DEF WriteStore
  <2>4. ASSUME Len(store') < MaxBytes
        PROVE  offset' = Len(store')
    <3>1. Wrap(Len(store) + RealLength(d)) = Len(store) + RealLength(d)
      BY <1>0, <2>2, <2>4, WrapOfInt, StoreAssumption DEF OffsetsFit
    <3> QED BY <1>3, <2>1, <2>2, <3>1 DEF WriteStore
  <2> QED BY <1>3, <2>1, <2>3, <2>4 DEF WriteStore, PositionsInv
<1>4. CASE WriteIndex
  <2>1. /\ storePos = Len(store)
        /\ Len(store) < MaxBytes => offset = Len(store)
        /\ indexPos = HeaderSize + ItemSize * Complete(Len(uidx))
    BY <1>4 DEF WriteIndex, PositionsInv
  <2>2. Len(uidx') > 0 /\ Complete(Len(uidx')) = Complete(Len(uidx)) + 1
    <3>1. ItemSize \in 1 .. ItemSize
      BY DEF ItemSize
    <3> QED BY <1>4, <2>1, <3>1, BytesToWrite, IndexWriteKeeps DEF WriteIndex
  <2>3. uidx' # <<>>
    BY <2>2
  <2>4. indexPos' = HeaderSize + ItemSize * Complete(Len(uidx'))
    BY <1>0, <1>4, <2>1, <2>2 DEF WriteIndex, HeaderSize, ItemSize
  <2> QED BY <1>4, <2>1, <2>3, <2>4 DEF WriteIndex, PositionsInv
<1>5. CASE Close
  BY <1>5 DEF Close, PositionsInv
<1>6. CASE Crash
  BY <1>6 DEF Crash, PositionsInv
<1>7. CASE UNCHANGED vars
  BY <1>7 DEF vars, PositionsInv
<1> QED BY <1>1, <1>2, <1>3, <1>4, <1>5, <1>6, <1>7 DEF Next

\* The items.
LEMMA ItemsStep ==
    ASSUME IInv, TypeInv', FilesKept, [Next]_vars
    PROVE  ItemsInv'
<1> DEFINE k == Complete(Len(uidx))
<1>0. /\ store \in Seq(Byte) /\ uidx \in Seq(Byte) /\ store' \in Seq(Byte) /\ uidx' \in Seq(Byte)
      /\ k \in Nat /\ returned \in Nat
  BY CompleteIsNat DEF IInv, TypeInv
<1>1. ASSUME NEW it \in Items, NEW d \in Documents, Leads(store, it, d)
      PROVE  Leads(store', it, d)
  <2>1. it.offset \in Nat
    BY DEF Items
  <2> QED BY <1>0, <1>1, <2>1, DocumentStays DEF Leads, FilesKept
<1>2. ASSUME NEW n \in 1 .. k
      PROVE  \E it \in Items, d \in Documents : ItemAt(uidx', n, it) /\ Leads(store', it, d)
  <2>1. PICK it \in Items, d \in Documents : ItemAt(uidx, n, it) /\ Leads(store, it, d)
    BY DEF IInv, ItemsInv
  <2>2. ItemAt(uidx', n, it)
    BY <1>0, <2>1, ItemStays DEF FilesKept
  <2> QED BY <1>1, <2>1, <2>2
<1>3. \A n \in 1 .. Complete(Len(uidx')) :
         \E it \in Items, d \in Documents : ItemAt(uidx', n, it) /\ Leads(store', it, d)
  <2>1. CASE Complete(Len(uidx')) = k
    BY <1>2, <2>1
  <2>2. CASE /\ pc = "index" /\ Complete(Len(uidx')) = k + 1
             /\ ItemAt(uidx', k + 1, item)
    <3>1. \E d \in Documents : Leads(store', item, d)
      BY <1>1, <2>2 DEF IInv, TypeInv, ItemsInv
    <3>2. \A n \in 1 .. k + 1 : n \in 1 .. k \/ n = k + 1
      BY <1>0
    <3>3. item \in Items
      BY DEF IInv, TypeInv
    <3> HIDE DEF k
    <3> QED BY <1>2, <2>2, <3>1, <3>2, <3>3
  <2> QED BY <2>1, <2>2 DEF FilesKept
<1>4. returned <= Complete(Len(uidx')) /\ (returned' = returned + 1 => WriteIndex)
  <2>1. returned <= k
    BY DEF IInv, ItemsInv
  <2>2. Complete(Len(uidx')) = k \/ Complete(Len(uidx')) = k + 1
    BY DEF FilesKept
  <2>3. returned' = returned + 1 => WriteIndex
    BY <1>0 DEF Next, OpenStore, OpenIndex, WriteStore, Close, Crash, vars
  <2> HIDE DEF k
  <2> QED BY <1>0, <2>1, <2>2, <2>3
<1>5. returned' <= Complete(Len(uidx'))
  <2>1. CASE WriteIndex
    <3>1. Complete(Len(uidx')) = k + 1
      <4>1. ItemSize \in 1 .. ItemSize /\ TypeInv
        BY DEF ItemSize, IInv
      <4> QED BY <2>1, <4>1, BytesToWrite, IndexWriteKeeps DEF WriteIndex, IInv, PositionsInv
    <3>2. returned <= k /\ returned' = returned + 1
      BY <2>1 DEF WriteIndex, IInv, ItemsInv
    <3> HIDE DEF k
    <3> QED BY <1>0, <3>1, <3>2
  <2>2. CASE ~WriteIndex
    <3>1. returned' = returned
      BY <2>2 DEF Next, OpenStore, OpenIndex, WriteStore, Close, Crash, vars
    <3> QED BY <1>4, <3>1
  <2> QED BY <2>1, <2>2
<1>6. ASSUME pc' = "index"
      PROVE  \E d \in Documents : Leads(store', item', d)
  <2>1. CASE \E d \in Documents : WriteStore(d)
    <3>1. PICK d \in Documents : WriteStore(d)
      BY <2>1
    <3>2. storePos = Len(store) /\ offset = Len(store)
      BY <3>1 DEF WriteStore, IInv, PositionsInv
    <3>3. DocAt(store', Len(store), d)
      BY <1>0, <3>1, <3>2, DocumentWritten DEF WriteStore
    <3> QED BY <3>1, <3>2, <3>3 DEF WriteStore, Leads
  <2>2. CASE ~\E d \in Documents : WriteStore(d)
    <3>1. pc = "index" /\ item' = item
      BY <1>6, <2>2 DEF Next, OpenStore, OpenIndex, WriteIndex, Close, Crash, vars
    <3> QED BY <1>1, <3>1 DEF IInv, TypeInv, ItemsInv
  <2> QED BY <2>1, <2>2
<1> QED BY <1>3, <1>5, <1>6 DEF ItemsInv

LEMMA StepInv == ASSUME OffsetsFit, IInv, [Next]_vars PROVE IInv'
<1>1. TypeInv' /\ FilesKept
  BY TypeStep
<1>2. PositionsInv'
  BY PositionsStep
<1>3. ItemsInv'
  BY <1>1, ItemsStep
<1> QED BY <1>1, <1>2, <1>3 DEF IInv

LEMMA SpecInv == ASSUME OffsetsFit PROVE Spec => []IInv
<1>1. IInv /\ [Next]_vars => IInv'
  BY StepInv
<1> QED BY InitInv, <1>1, PTL DEF Spec

-----------------------------------------------------------------------------
(* What a reader finds.                                                    *)

\* The log a reader finds has an entry for each complete item.
LogRead ==
    /\ ReadableLog \in Seq(Documents)
    /\ Len(ReadableLog) = Complete(Len(uidx))
    /\ DOMAIN ReadAll = 1 .. Complete(Len(uidx))

LEMMA ReadLog == IInv => LogRead
<1> SUFFICES ASSUME IInv PROVE LogRead
  OBVIOUS
<1> DEFINE k == Complete(Len(uidx))
<1>1. store \in Seq(Byte) /\ uidx \in Seq(Byte) /\ Len(uidx) \in Nat /\ k \in Nat
  BY CompleteIsNat DEF IInv, TypeInv
<1>2. DOMAIN ReadAll = 1 .. k
  <2>1. DOMAIN ReadAll = 1 .. ((Len(uidx) - HeaderSize) \div ItemSize)
    BY DEF ReadAll
  <2>2. \A n \in Int : n \in 1 .. ((Len(uidx) - HeaderSize) \div ItemSize) <=> n \in 1 .. k
    BY <1>1, CompleteItems
  <2>3. \A n : n \in 1 .. ((Len(uidx) - HeaderSize) \div ItemSize) => n \in Int
    OBVIOUS
  <2>4. \A n : n \in 1 .. k => n \in Int
    OBVIOUS
  <2> HIDE DEF k
  <2> QED BY <2>1, <2>2, <2>3, <2>4
<1>3. ASSUME NEW n \in 1 .. k
      PROVE  ReadableLog[n] \in Documents
  <2>1. PICK it \in Items, d \in Documents : ItemAt(uidx, n, it) /\ Leads(store, it, d)
    BY DEF IInv, ItemsInv
  <2> QED BY <1>1, <2>1, ReadBack
<1>4. DOMAIN ReadableLog = 1 .. k /\ ReadableLog = [n \in 1 .. k |-> ReadableLog[n]]
  BY <1>2 DEF ReadableLog
<1> HIDE DEF k
<1>5. ReadableLog \in [1 .. k -> Documents]
  BY <1>3, <1>4
<1>6. ReadableLog \in Seq(Documents) /\ Len(ReadableLog) = k
  BY <1>1, <1>5
<1> QED BY <1>2, <1>6 DEF k, LogRead

\* Every complete index item is one that was written, and leads to a whole
\* document with its hash (ItemsReadBack of StoreFile), as long as offsets fit
\* an int, for all documents, sizes and numbers of kills.
THEOREM ItemsReadBackHolds == ASSUME OffsetsFit PROVE Spec => []ItemsReadBack
<1>1. IInv => ItemsReadBack
  <2> SUFFICES ASSUME IInv, NEW n \in DOMAIN ReadAll
               PROVE  ReadAll[n] # Garbage /\ ReadOne(ReadAll[n].offset).hash = ReadAll[n].hash
    BY DEF ItemsReadBack
  <2>1. n \in 1 .. Complete(Len(uidx)) /\ store \in Seq(Byte) /\ uidx \in Seq(Byte)
    BY ReadLog DEF IInv, TypeInv, LogRead
  <2>2. PICK it \in Items, d \in Documents : ItemAt(uidx, n, it) /\ Leads(store, it, d)
    BY <2>1 DEF IInv, ItemsInv
  <2>3. ReadAll[n] = it /\ ReadOne(it.offset) = d
    BY <2>1, <2>2, ReadBack
  <2>4. d.hash = it.hash
    BY <2>2 DEF Leads
  <2>5. it # Garbage
    <3>1. it.hash \in Nat
      BY DEF Items
    <3>2. Garbage.hash = -1
      BY DEF Garbage
    <3> QED BY <3>1, <3>2
  <2> QED BY <2>3, <2>4, <2>5
<1> QED BY <1>1, SpecInv, PTL

\* No completed index write is lost (CompletedWritesStay of StoreFile).
THEOREM CompletedWritesStayHolds == ASSUME OffsetsFit PROVE Spec => []CompletedWritesStay
<1>1. IInv => CompletedWritesStay
  BY ReadLog DEF IInv, ItemsInv, CompletedWritesStay, LogRead
<1> QED BY <1>1, SpecInv, PTL

\* The two files start as an empty log.
LEMMA LogInit == Init => Log!Init
<1> SUFFICES ASSUME Init PROVE Log!Init
  OBVIOUS
<1>1. IInv
  BY InitInv
<1>2. Complete(Len(uidx)) = 0
  BY DEF Init, Complete, HeaderSize
<1>3. ReadableLog = <<>>
  BY <1>1, <1>2, ReadLog, EmptySeq DEF LogRead
<1> QED BY <1>3 DEF Log!Init

\* A step leaves the log as it is, or adds the document of the item at hand.
LEMMA LogStep ==
    ASSUME IInv, IInv', FilesKept
    PROVE  Log!Next \/ ReadableLog' = ReadableLog
<1> DEFINE k == Complete(Len(uidx))
           k1 == Complete(Len(uidx'))
<1>1. EntryRead /\ EntryRead'
  BY EntriesRead, PTL
<1>2. LogRead /\ LogRead'
  BY ReadLog, PTL
<1>3. /\ store \in Seq(Byte) /\ uidx \in Seq(Byte) /\ store' \in Seq(Byte) /\ uidx' \in Seq(Byte)
      /\ k \in Nat /\ k1 \in Nat
  BY CompleteIsNat DEF IInv, TypeInv
<1>4. ASSUME NEW it \in Items, NEW d \in Documents, Leads(store, it, d)
      PROVE  Leads(store', it, d)
  <2>1. it.offset \in Nat
    BY DEF Items
  <2> QED BY <1>3, <1>4, <2>1, DocumentStays DEF Leads, FilesKept
<1>5. ASSUME NEW n \in 1 .. k, n \in 1 .. k1
      PROVE  ReadableLog'[n] = ReadableLog[n]
  <2>1. PICK it \in Items, d \in Documents : ItemAt(uidx, n, it) /\ Leads(store, it, d)
    BY DEF IInv, ItemsInv
  <2>2. ItemAt(uidx', n, it)
    BY <1>3, <2>1, ItemStays DEF FilesKept
  <2>3. Leads(store', it, d)
    BY <1>4, <2>1
  <2>4. ReadableLog[n] = d
    BY <1>3, <1>1, <2>1 DEF EntryRead
  <2>5. ReadableLog'[n] = d
    BY <1>3, <1>5, <1>1, <2>2, <2>3 DEF EntryRead
  <2> QED BY <2>4, <2>5
<1> HIDE DEF k, k1
<1>6. CASE k1 = k
  <2>1. ReadableLog' = ReadableLog
    BY <1>5, <1>6, <1>2, SeqEqual DEF k, k1, LogRead
  <2> QED BY <2>1
<1>7. CASE pc = "index" /\ k1 = k + 1 /\ ItemAt(uidx', k + 1, item)
  <2>1. PICK d \in Documents : Leads(store, item, d)
    BY <1>7 DEF IInv, ItemsInv
  <2>2. item \in Items /\ Leads(store', item, d)
    BY <1>4, <2>1 DEF IInv, TypeInv
  <2>3. ReadableLog'[k + 1] = d
    <3>1. k + 1 \in 1 .. k1
      BY <1>3, <1>7
    <3> QED BY <1>3, <1>7, <1>1, <2>2, <3>1 DEF k1, EntryRead
  <2>4. /\ Append(ReadableLog, d) \in Seq(Documents)
        /\ Len(Append(ReadableLog, d)) = k + 1
        /\ \A i \in 1 .. k : Append(ReadableLog, d)[i] = ReadableLog[i]
        /\ Append(ReadableLog, d)[k + 1] = d
    <3>1. ReadableLog \in Seq(Documents) /\ Len(ReadableLog) = k
      BY <1>2 DEF LogRead, k
    <3> QED BY <3>1, AppendProperties
  <2>5. ASSUME NEW i \in 1 .. k + 1
        PROVE  ReadableLog'[i] = Append(ReadableLog, d)[i]
    <3>1. CASE i \in 1 .. k
      <4>1. i \in 1 .. k1
        BY <1>3, <1>7, <3>1
      <4> QED BY <1>5, <2>4, <3>1, <4>1
    <3>2. CASE i = k + 1
      BY <2>3, <2>4, <3>2
    <3>3. i \in 1 .. k \/ i = k + 1
      BY <1>3
    <3> QED BY <3>1, <3>2, <3>3
  <2>6. ReadableLog' = Append(ReadableLog, d)
    <3>1. Len(ReadableLog') = k + 1
      BY <1>7, <1>2 DEF k1, LogRead
    <3>2. ReadableLog' \in Seq(Documents)
      BY <1>2 DEF LogRead
    <3> QED BY <2>4, <2>5, <3>1, <3>2, SeqEqual
  <2> QED BY <2>6 DEF Log!Next, Log!Add
<1> QED BY <1>6, <1>7 DEF FilesKept, k, k1

\* The two files implement the log of documents (ImplementsIndexedLog): each
\* step of the writer, each kill and each reopening leaves the log that a reader
\* finds as it is, or adds one whole document at its end.
THEOREM LogImplemented == ASSUME OffsetsFit PROVE Spec => ImplementsIndexedLog
<1>1. IInv /\ IInv' /\ [Next]_vars => [Log!Next]_ReadableLog
  <2> SUFFICES ASSUME IInv, IInv', [Next]_vars
               PROVE  Log!Next \/ ReadableLog' = ReadableLog
    OBVIOUS
  <2>1. FilesKept
    BY TypeStep
  <2> QED BY <2>1, LogStep
<1> QED BY <1>1, LogInit, SpecInv, PTL DEF Spec, ImplementsIndexedLog, Log!Spec
=============================================================================

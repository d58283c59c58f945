-------------------------- MODULE DumpStoreProofs ---------------------------
(***************************************************************************)
(* What becomes of a document of the input: that it is stored, and how     *)
(* often.                                                                  *)
(***************************************************************************)
EXTENDS DumpDataProofs

USE DumpAssumption

(* A document of the input is still to be put by the fetcher of its file,  *)
(* then in the queue of its builder, then held by the builder.             *)
EarlyAt(i, d) ==
    /\ d.file \in todo[i]
    /\ (\A g \in todo[i] : d.file <= g) => at[i] <= d.at

Early(d) == \E i \in Fetchers : EarlyAt(i, d)
Queued(d) == \E b \in Builders : \E n \in 1 .. Len(queue[b]) : queue[b][n] = d
Held(d) == \E b \in Builders : bpc[b] \in {"open", "store"} /\ bdoc[b] = d

\* This run may still store d.
Coming(d) == Early(d) \/ Queued(d) \/ Held(d)

\* No document is at two of these places, or at one of them twice.
QueuedOnce ==
    \A b \in Builders : \A m, n \in 1 .. Len(queue[b]) :
        queue[b][m] = queue[b][n] /\ queue[b][m].hash # -1 => m = n

HeldOnce ==
    \A b \in Builders : bpc[b] \in {"open", "store"} =>
        \A n \in 1 .. Len(queue[b]) : queue[b][n] # bdoc[b]

PutOnce == \A d \in Doc : Early(d) => ~Queued(d) /\ ~Held(d)

\* Nothing runs between two runs.
DownIsIdle == mainPc = "down" => \A b \in Builders : bpc[b] = "idle"

WayInv ==
    /\ IndexInv /\ EndInv /\ ReadInv
    /\ QueuedOnce /\ HeldOnce /\ PutOnce /\ DownIsIdle

-----------------------------------------------------------------------------
(* How the steps move documents.                                           *)

(* A put adds its document behind the others, in one queue.                *)
LEMMA QueuePut ==
  ASSUME TypeOK, NEW b \in Builders, NEW e \in Doc \cup {EndDoc},
         queue' = [queue EXCEPT ![b] = Append(@, e)]
  PROVE  /\ \A c \in Builders : \A n \in 1 .. Len(queue'[c]) :
               \/ n \in 1 .. Len(queue[c]) /\ queue'[c][n] = queue[c][n]
               \/ c = b /\ n = Len(queue[b]) + 1 /\ queue'[c][n] = e
         /\ \A c \in Builders : \A n \in 1 .. Len(queue[c]) :
               n \in 1 .. Len(queue'[c]) /\ queue'[c][n] = queue[c][n]
         /\ Len(queue[b]) + 1 \in 1 .. Len(queue'[b])
         /\ queue'[b][Len(queue[b]) + 1] = e
<1>1. queue \in [Builders -> Seq(Doc \cup {EndDoc})]
  BY DEF TypeOK
<1> DEFINE S == Doc \cup {EndDoc}
           q == queue[b]
<1>2. q \in Seq(S) /\ queue'[b] = Append(q, e) /\ e \in S
  BY <1>1
<1>3. \A c \in Builders : c # b => queue'[c] = queue[c]
  BY <1>1
<1>4. /\ Len(queue'[b]) = Len(q) + 1 /\ Len(q) \in Nat
      /\ \A n \in 1 .. Len(q) : queue'[b][n] = q[n]
      /\ queue'[b][Len(q) + 1] = e
  <2> HIDE DEF q, S
  <2>1. /\ Len(Append(q, e)) = Len(q) + 1
        /\ \A n \in 1 .. Len(q) : Append(q, e)[n] = q[n]
        /\ Append(q, e)[Len(q) + 1] = e
    BY <1>2, AppendElements
  <2>2. Len(q) \in Nat
    BY <1>2
  <2> QED
    BY <1>2, <2>1, <2>2
<1>5. ASSUME NEW c \in Builders, NEW n \in 1 .. Len(queue'[c])
      PROVE  \/ n \in 1 .. Len(queue[c]) /\ queue'[c][n] = queue[c][n]
             \/ c = b /\ n = Len(queue[b]) + 1 /\ queue'[c][n] = e
  <2>1. CASE c # b
    BY <1>3, <2>1
  <2>2. CASE c = b
    <3>1. n \in 1 .. Len(q) \/ n = Len(q) + 1
      BY <1>4, <2>2
    <3> QED
      BY <1>4, <2>2, <3>1
  <2> QED
    BY <2>1, <2>2
<1>6. ASSUME NEW c \in Builders, NEW n \in 1 .. Len(queue[c])
      PROVE  n \in 1 .. Len(queue'[c]) /\ queue'[c][n] = queue[c][n]
  <2>1. CASE c # b
    BY <1>3, <2>1
  <2>2. CASE c = b
    BY <1>4, <2>2
  <2> QED
    BY <2>1, <2>2
<1>7. Len(q) + 1 \in 1 .. Len(queue'[b])
  BY <1>4
<1> QED
  BY <1>4, <1>5, <1>6, <1>7

(* A take removes the first document of one queue.                         *)
LEMMA QueueTake ==
  ASSUME TypeOK, NEW b \in Builders, queue[b] # <<>>,
         queue' = [queue EXCEPT ![b] = Tail(@)]
  PROVE  /\ 1 \in 1 .. Len(queue[b]) /\ Head(queue[b]) = queue[b][1]
         /\ \A n \in 1 .. Len(queue'[b]) :
               n + 1 \in 1 .. Len(queue[b]) /\ queue'[b][n] = queue[b][n + 1]
         /\ \A n \in 1 .. Len(queue[b]) :
               n = 1 \/ \E m \in 1 .. Len(queue'[b]) : queue'[b][m] = queue[b][n]
         /\ \A c \in Builders : c # b => queue'[c] = queue[c]
<1>1. queue \in [Builders -> Seq(Doc \cup {EndDoc})]
  BY DEF TypeOK
<1> DEFINE S == Doc \cup {EndDoc}
           q == queue[b]
<1>2. q \in Seq(S) /\ q # <<>> /\ queue'[b] = Tail(q)
  BY <1>1
<1>3. \A c \in Builders : c # b => queue'[c] = queue[c]
  BY <1>1
<1> HIDE DEF q, S
<1>4. /\ Len(Tail(q)) = Len(q) - 1 /\ Len(q) > 0
      /\ \A n \in 1 .. Len(Tail(q)) : n + 1 \in 1 .. Len(q) /\ Tail(q)[n] = q[n + 1]
  BY <1>2, TailElements
<1>5. Len(q) \in Nat /\ Head(q) = q[1]
  BY <1>2
<1>6. ASSUME NEW n \in 1 .. Len(q), n # 1
      PROVE  \E m \in 1 .. Len(queue'[b]) : queue'[b][m] = q[n]
  <2>1. n - 1 \in 1 .. Len(Tail(q)) /\ (n - 1) + 1 = n
    BY <1>4, <1>5, <1>6
  <2>2. Tail(q)[n - 1] = q[n]
    BY <1>4, <2>1
  <2> QED
    BY <1>2, <2>1, <2>2
<1>7. 1 \in 1 .. Len(q)
  BY <1>4, <1>5
<1> QED
  BY <1>2, <1>3, <1>4, <1>5, <1>6, <1>7 DEF q

(* A fetcher only goes forward: it never comes back to a document.         *)
LEMMA EarlyShrinks ==
  ASSUME TypeOK, NEW i \in Fetchers,
         FetchPut(i) \/ FetchSkip(i) \/ FetchLeave(i) \/ FetchFault(i),
         NEW d \in Doc, Early(d)'
  PROVE  Early(d)
<1>1. PICK j \in Fetchers : EarlyAt(j, d)'
  BY DEF Early
<1>2. todo \in [Fetchers -> SUBSET Files] /\ at \in [Fetchers -> Nat \ {0}]
  BY DEF TypeOK
<1>3. CASE FetchPut(i) \/ FetchSkip(i)
  <2>1. todo' = todo /\ at' = [at EXCEPT ![i] = @ + 1]
    BY <1>3 DEF FetchPut, FetchSkip
  <2>2. d.at \in Nat
    BY DEF Doc, Files
  <2>3. at'[j] <= d.at => at[j] <= d.at
    BY <1>2, <2>1, <2>2
  <2> QED
    BY <1>1, <2>1, <2>3 DEF Early, EarlyAt
<1>4. CASE FetchLeave(i) \/ FetchFault(i)
  <2>1. PICK f \in todo[i] : /\ \A g \in todo[i] : f <= g
                             /\ todo' = [todo EXCEPT ![i] = @ \ {f}]
                             /\ at' = [at EXCEPT ![i] = 1]
    BY <1>4 DEF FetchLeave, FetchFault, Reading
  <2>2. CASE j # i
    BY <1>1, <1>2, <2>1, <2>2 DEF Early, EarlyAt
  <2>3. CASE j = i
    <3>1. d.file \in todo[i] /\ d.file # f
      BY <1>1, <1>2, <2>1, <2>3 DEF EarlyAt
    <3>2. f \in Nat /\ d.file \in Nat
      BY <1>2, <2>1, <3>1 DEF Files
    <3>3. ~(d.file <= f)
      BY <2>1, <3>1, <3>2
    <3> QED
      BY <2>1, <3>1, <3>3 DEF Early, EarlyAt
  <2> QED
    BY <2>2, <2>3
<1> QED
  BY <1>3, <1>4

LEMMA WayInit == Init => WayInv
<1> SUFFICES ASSUME Init PROVE WayInv
  OBVIOUS
<1>1. /\ \A b \in Builders : queue[b] = <<>> /\ bpc[b] = "idle"
      /\ \A i \in Fetchers : todo[i] = {}
  BY DEF Init
<1>2. QueuedOnce /\ HeldOnce /\ PutOnce
  BY <1>1 DEF QueuedOnce, HeldOnce, PutOnce, Early, EarlyAt
<1>3. DownIsIdle
  BY <1>1 DEF DownIsIdle
<1> QED
  BY <1>2, <1>3, IndexInit, EndInit, ReadInit DEF WayInv

(* A step by which no document moves forward.                              *)
LEMMA WayFrame ==
  ASSUME QueuedOnce, HeldOnce, PutOnce, UNCHANGED <<queue, bdoc>>,
         \A b \in Builders : bpc'[b] \in {"open", "store"} => bpc[b] \in {"open", "store"},
         \A d \in Doc : Early(d)' => Early(d)
  PROVE  /\ QueuedOnce' /\ HeldOnce' /\ PutOnce'
         /\ \A d \in Doc : Coming(d)' => Coming(d)
<1>1. QueuedOnce' /\ HeldOnce'
  BY DEF QueuedOnce, HeldOnce
<1>2. \A d \in Doc : (Queued(d)' => Queued(d)) /\ (Held(d)' => Held(d))
  BY DEF Queued, Held
<1> QED
  BY <1>1, <1>2 DEF PutOnce, Coming

(* Each step but the start and the crash of a run keeps documents on their *)
(* way, or moves them forward on it.                                       *)
LEMMA WayKept ==
  ASSUME WayInv, [Next]_vars, ~Start, ~Crash
  PROVE  /\ QueuedOnce' /\ HeldOnce' /\ PutOnce'
         /\ \A d \in Doc : Coming(d)' => Coming(d)
<1>t. TypeOK /\ TypeOK'
  BY TypeStep DEF WayInv, IndexInv
<1>o. QueuedOnce /\ HeldOnce /\ PutOnce
  BY DEF WayInv
<1> USE DEF diskVars, mainVars, fetchVars, buildVars, tableVars
<1>1. ASSUME UNCHANGED <<queue, bdoc, todo, at>>,
             \A b \in Builders :
                bpc'[b] \in {"open", "store"} => bpc[b] \in {"open", "store"}
      PROVE  /\ QueuedOnce' /\ HeldOnce' /\ PutOnce'
             /\ \A d \in Doc : Coming(d)' => Coming(d)
  <2>1. \A d \in Doc : Early(d)' => Early(d)
    BY <1>1 DEF Early, EarlyAt
  <2> QED
    BY <1>1, <1>o, <2>1, WayFrame
<1>2. CASE SpawnRead \/ SpawnWrite \/ SeeProducersDone \/ Finish \/ UNCHANGED vars
  BY <1>1, <1>2 DEF SpawnRead, SpawnWrite, SeeProducersDone, Finish, vars
<1>3. CASE \E i \in Fetchers : FinishLock(i) \/ FinishRemove(i) \/ FinishRecord(i)
  BY <1>1, <1>3 DEF FinishLock, FinishRemove, FinishRecord
<1>4. ASSUME NEW i \in Fetchers, FetchSkip(i) \/ FetchLeave(i) \/ FetchFault(i)
      PROVE  /\ QueuedOnce' /\ HeldOnce' /\ PutOnce'
             /\ \A d \in Doc : Coming(d)' => Coming(d)
  <2>1. \A d \in Doc : Early(d)' => Early(d)
    BY <1>4, <1>t, EarlyShrinks
  <2>2. UNCHANGED <<queue, bdoc, bpc>>
    BY <1>4 DEF FetchSkip, FetchLeave, FetchFault
  <2> QED
    BY <2>1, <2>2, <1>o, WayFrame
<1>5. CASE SendEnd
  <2>1. endsSent \in Builders /\ queue' = [queue EXCEPT ![endsSent] = Append(@, EndDoc)]
    BY <1>5, <1>t DEF TypeOK, SendEnd, Builders
  <2>2. /\ \A c \in Builders : \A n \in 1 .. Len(queue'[c]) :
              \/ n \in 1 .. Len(queue[c]) /\ queue'[c][n] = queue[c][n]
              \/ queue'[c][n] = EndDoc
    BY <2>1, <1>t, QueuePut
  <2>3. UNCHANGED <<bdoc, bpc, todo, at>>
    BY <1>5 DEF SendEnd
  <2>4. EndDoc \notin Doc /\ EndDoc.hash = -1
    BY DEF EndDoc, Doc
  <2>5. \A d \in Doc : /\ Early(d)' => Early(d)
                       /\ Queued(d)' => Queued(d)
                       /\ Held(d)' => Held(d)
    BY <2>2, <2>3, <2>4 DEF Early, EarlyAt, Queued, Held
  <2>6. QueuedOnce'
    BY <2>2, <2>4, <1>o DEF QueuedOnce
  <2>7. HeldOnce'
    <3> SUFFICES ASSUME NEW c \in Builders, bpc[c] \in {"open", "store"},
                        NEW n \in 1 .. Len(queue'[c])
                 PROVE  queue'[c][n] # bdoc[c]
      BY <2>3 DEF HeldOnce
    <3>1. bdoc[c] \in Doc /\ \A m \in 1 .. Len(queue[c]) : queue[c][m] # bdoc[c]
      BY <1>t, <1>o DEF TypeOK, HeldOnce
    <3> QED
      BY <3>1, <2>2, <2>4
  <2> QED
    BY <2>5, <2>6, <2>7, <1>o DEF PutOnce, Coming
<1>6. ASSUME NEW i \in Fetchers, FetchPut(i)
      PROVE  /\ QueuedOnce' /\ HeldOnce' /\ PutOnce'
             /\ \A d \in Doc : Coming(d)' => Coming(d)
  <2>1. PICK f \in todo[i] : /\ at[i] <= Len(Content[f]) /\ Usable(Content[f][at[i]])
                             /\ queue' = [queue EXCEPT ![BuilderOf(Content[f][at[i]].hash)] =
                                  Append(@, [hash |-> Content[f][at[i]].hash, file |-> f,
                                             at |-> at[i]])]
                             /\ at' = [at EXCEPT ![i] = @ + 1]
                             /\ \A g \in todo[i] : f <= g
    BY <1>6 DEF FetchPut, Reading
  <2>2. PICK d \in Doc : /\ d.file = f /\ d.at = at[i]
                         /\ queue' = [queue EXCEPT ![BuilderOf(d.hash)] = Append(@, d)]
    BY <1>t, <2>1, Records DEF TypeOK
  <2>3. PICK b \in Builders : b = BuilderOf(d.hash)
    BY Routing DEF Doc
  <2>4. queue' = [queue EXCEPT ![b] = Append(@, d)]
    BY <2>2, <2>3
  <2>5. UNCHANGED <<bdoc, bpc, todo>>
    BY <1>6 DEF FetchPut
  <2>6. \A c \in Builders : \A n \in 1 .. Len(queue'[c]) :
              \/ n \in 1 .. Len(queue[c]) /\ queue'[c][n] = queue[c][n]
              \/ c = b /\ n = Len(queue[b]) + 1 /\ queue'[c][n] = d
    BY <2>2, <2>3, <2>4, <1>t, QueuePut
  <2>7. EarlyAt(i, d)
    <3>1. at[i] \in Nat
      BY <1>t DEF TypeOK
    <3>2. d.file \in todo[i] /\ at[i] <= d.at
      BY <2>1, <2>2, <3>1
    <3> QED
      BY <3>2 DEF EarlyAt
  <2>8. Early(d) /\ ~Queued(d) /\ ~Held(d)
    BY <2>2, <2>7, <1>o DEF Early, PutOnce
  <2>9. ~Early(d)'
    <3> SUFFICES ASSUME NEW j \in Fetchers, EarlyAt(j, d)' PROVE FALSE
      BY DEF Early
    <3>1. d.file \in todo[j]
      BY <2>5 DEF EarlyAt
    <3>2. j = i
      BY <2>1, <2>2, <3>1 DEF WayInv, ReadInv, InShare, Share
    <3>3. at'[i] = at[i] + 1 /\ at[i] \in Nat
      BY <2>1, <1>t DEF TypeOK
    <3>4. \A g \in todo[i] : d.file <= g
      BY <2>1, <2>2
    <3> QED
      BY <2>2, <2>5, <3>2, <3>3, <3>4 DEF EarlyAt
  <2>10. \A x \in Doc : Early(x)' => Early(x)
    BY <1>6, <1>t, EarlyShrinks
  <2>11. \A x \in Doc : (Queued(x)' => Queued(x) \/ x = d) /\ (Held(x)' => Held(x))
    BY <2>5, <2>6 DEF Queued, Held
  <2>12. QueuedOnce'
    <3> SUFFICES ASSUME NEW c \in Builders,
                        NEW m \in 1 .. Len(queue'[c]), NEW n \in 1 .. Len(queue'[c]),
                        queue'[c][m] = queue'[c][n], queue'[c][m].hash # -1
                 PROVE  m = n
      BY DEF QueuedOnce
    <3>1. \A k \in 1 .. Len(queue[c]) : queue[c][k] # d
      BY <2>8 DEF Queued
    <3>2. \/ m \in 1 .. Len(queue[c]) /\ queue'[c][m] = queue[c][m]
          \/ m = Len(queue[c]) + 1 /\ queue'[c][m] = d
      BY <2>6
    <3>3. \/ n \in 1 .. Len(queue[c]) /\ queue'[c][n] = queue[c][n]
          \/ n = Len(queue[c]) + 1 /\ queue'[c][n] = d
      BY <2>6
    <3> QED
      BY <3>1, <3>2, <3>3, <1>o DEF QueuedOnce
  <2>13. HeldOnce'
    BY <2>5, <2>6, <2>8, <1>o DEF HeldOnce, Held
  <2>14. PutOnce'
    BY <2>9, <2>10, <2>11, <1>o DEF PutOnce
  <2> QED
    BY <2>8, <2>10, <2>11, <2>12, <2>13, <2>14 DEF Coming
<1>7. ASSUME NEW b \in Builders, TakeDoc(b) \/ TakeEnd(b)
      PROVE  /\ QueuedOnce' /\ HeldOnce' /\ PutOnce'
             /\ \A d \in Doc : Coming(d)' => Coming(d)
  <2>1. /\ queue[b] # <<>> /\ queue' = [queue EXCEPT ![b] = Tail(@)]
        /\ UNCHANGED <<todo, at>>
    BY <1>7 DEF TakeDoc, TakeEnd
  <2>2. /\ 1 \in 1 .. Len(queue[b]) /\ Head(queue[b]) = queue[b][1]
        /\ \A n \in 1 .. Len(queue'[b]) :
              n + 1 \in 1 .. Len(queue[b]) /\ queue'[b][n] = queue[b][n + 1]
        /\ \A c \in Builders : c # b => queue'[c] = queue[c]
    BY <2>1, <1>t, QueueTake
  <2>3. \A c \in Builders :
           bpc'[c] \in {"open", "store"} =>
              \/ bpc[c] \in {"open", "store"} /\ bdoc'[c] = bdoc[c] /\ queue'[c] = queue[c]
              \/ c = b /\ bdoc'[b] = queue[b][1] /\ queue[b][1].hash # -1
    <3>1. CASE TakeDoc(b)
      <4>1. /\ \A c \in Builders : c # b => bpc'[c] = bpc[c] /\ bdoc'[c] = bdoc[c]
            /\ bdoc'[b] = Head(queue[b]) /\ Head(queue[b]).hash # -1
        BY <3>1, <1>t DEF TakeDoc, TypeOK
      <4> QED
        BY <4>1, <2>2
    <3>2. CASE TakeEnd(b)
      <4>1. /\ \A c \in Builders : c # b => bpc'[c] = bpc[c]
            /\ bpc'[b] = "close" /\ bdoc' = bdoc
        BY <3>2, <1>t DEF TakeEnd, TypeOK
      <4> QED
        BY <4>1, <2>2
    <3> QED
      BY <1>7, <3>1, <3>2
  <2>4. \A x \in Doc : /\ Early(x)' => Early(x)
                       /\ Queued(x)' => Queued(x)
                       /\ Held(x)' => Held(x) \/ Queued(x)
    <3>1. \A x \in Doc : Early(x)' => Early(x)
      BY <2>1 DEF Early, EarlyAt
    <3>2. ASSUME NEW x \in Doc, Queued(x)' PROVE Queued(x)
      <4>1. PICK c \in Builders : \E n \in 1 .. Len(queue'[c]) : queue'[c][n] = x
        BY <3>2 DEF Queued
      <4>2. PICK n \in 1 .. Len(queue'[c]) : queue'[c][n] = x
        BY <4>1
      <4>3. CASE c # b
        BY <4>2, <4>3, <2>2 DEF Queued
      <4>4. CASE c = b
        <5>1. n + 1 \in 1 .. Len(queue[b]) /\ queue[b][n + 1] = x
          BY <4>2, <4>4, <2>2
        <5> QED
          BY <5>1 DEF Queued
      <4> QED
        BY <4>3, <4>4
    <3>3. \A x \in Doc : Held(x)' => Held(x) \/ Queued(x)
      BY <2>2, <2>3 DEF Held, Queued
    <3> QED
      BY <3>1, <3>2, <3>3
  <2>5. QueuedOnce'
    <3> SUFFICES ASSUME NEW c \in Builders,
                        NEW m \in 1 .. Len(queue'[c]), NEW n \in 1 .. Len(queue'[c]),
                        queue'[c][m] = queue'[c][n], queue'[c][m].hash # -1
                 PROVE  m = n
      BY DEF QueuedOnce
    <3>1. CASE c # b
      BY <3>1, <2>2, <1>o DEF QueuedOnce
    <3>2. CASE c = b
      <4>1. /\ m + 1 \in 1 .. Len(queue[b]) /\ queue[b][m + 1] = queue'[b][m]
            /\ n + 1 \in 1 .. Len(queue[b]) /\ queue[b][n + 1] = queue'[b][n]
        BY <3>2, <2>2
      <4>2. m + 1 = n + 1
        BY <3>2, <4>1, <1>o DEF QueuedOnce
      <4> QED
        BY <4>2
    <3> QED
      BY <3>1, <3>2
  <2>6. HeldOnce'
    <3> SUFFICES ASSUME NEW c \in Builders, bpc'[c] \in {"open", "store"},
                        NEW n \in 1 .. Len(queue'[c]), queue'[c][n] = bdoc'[c]
                 PROVE  FALSE
      BY DEF HeldOnce
    <3>1. CASE bpc[c] \in {"open", "store"} /\ bdoc'[c] = bdoc[c] /\ queue'[c] = queue[c]
      BY <3>1, <1>o DEF HeldOnce
    <3>2. CASE c = b /\ bdoc'[b] = queue[b][1] /\ queue[b][1].hash # -1
      <4>1. n + 1 \in 1 .. Len(queue[b]) /\ queue[b][n + 1] = queue[b][1]
        BY <3>2, <2>2
      <4>2. n + 1 = 1
        BY <3>2, <4>1, <2>2, <1>o DEF QueuedOnce
      <4> QED
        BY <4>2
    <3> QED
      BY <3>1, <3>2, <2>3
  <2>7. PutOnce'
    BY <2>4, <1>o DEF PutOnce
  <2> QED
    BY <2>4, <2>5, <2>6, <2>7 DEF Coming
<1>8. ASSUME NEW b \in Builders,
             \/ OpenFiles(b) \/ WriteStore(b) \/ WriteIndex(b) \/ WriteFails(b)
             \/ CloseOne(b) \/ CloseFails(b) \/ CloseDone(b) \/ BuildComplete(b)
             \/ DiskFault(b)
      PROVE  /\ QueuedOnce' /\ HeldOnce' /\ PutOnce'
             /\ \A d \in Doc : Coming(d)' => Coming(d)
  <2>1. UNCHANGED <<queue, bdoc, todo, at>>
    BY <1>8 DEF OpenFiles, WriteStore, WriteIndex, WriteFails, CloseOne, CloseFails,
                CloseDone, BuildComplete, DiskFault
  <2>2. CASE OpenFiles(b)
    <3>1. \A c \in Builders : bpc'[c] \in {"open", "store"} => bpc[c] \in {"open", "store"}
      BY <2>2, <1>t DEF OpenFiles, TypeOK
    <3> QED
      BY <1>1, <2>1, <3>1
  <2>3. CASE CloseOne(b)
    BY <1>1, <2>1, <2>3 DEF CloseOne
  <2>4. CASE ~OpenFiles(b) /\ ~CloseOne(b)
    <3>1. PICK x \in {"index", "read", "dead", "notify", "done"} :
              bpc' = [bpc EXCEPT ![b] = x]
      BY <1>8, <2>4 DEF WriteStore, WriteIndex, WriteFails, CloseFails, CloseDone,
                        BuildComplete, DiskFault, AfterException
    <3>2. \A c \in Builders : bpc'[c] \in {"open", "store"} => bpc[c] \in {"open", "store"}
      BY <3>1, <1>t DEF TypeOK
    <3> QED
      BY <1>1, <2>1, <3>2
  <2> QED
    BY <2>2, <2>3, <2>4
<1> QED
  BY <1>2, <1>3, <1>4, <1>5, <1>6, <1>7, <1>8
     DEF Next, MainStep, FetcherStep, BuilderStep, Environment

LEMMA IdleStep == WayInv /\ [Next]_vars => DownIsIdle'
<1> SUFFICES ASSUME WayInv, [Next]_vars, mainPc' = "down"
             PROVE  \A b \in Builders : bpc'[b] = "idle"
  BY DEF DownIsIdle
<1>1. DownIsIdle
  BY DEF WayInv
<1> USE DEF diskVars, mainVars, fetchVars, buildVars, tableVars
<1>2. CASE Start \/ Crash
  BY <1>2 DEF Start, Crash, Anew
<1>3. CASE MainStep \/ UNCHANGED vars
  BY <1>1, <1>3 DEF MainStep, SpawnRead, SpawnWrite, SeeProducersDone, SendEnd, Finish, vars,
                    DownIsIdle
<1>4. ASSUME NEW i \in Fetchers, FetcherStep(i) \/ FetchFault(i)
      PROVE  \A b \in Builders : bpc'[b] = "idle"
  BY <1>1, <1>4 DEF FetcherStep, FetchPut, FetchSkip, FetchLeave, FetchFault, FinishLock,
                    FinishRemove, FinishRecord, DownIsIdle
<1>5. ASSUME NEW b \in Builders, BuilderStep(b) \/ DiskFault(b) PROVE FALSE
  <2>1. mainPc = "down" /\ bpc[b] # "idle"
    BY <1>5 DEF BuilderStep, DiskFault, TakeDoc, OpenFiles, WriteStore, WriteIndex,
       WriteFails, TakeEnd, CloseOne, CloseFails, CloseDone, BuildComplete
  <2> QED
    BY <1>1, <2>1 DEF DownIsIdle
<1> QED
  BY <1>2, <1>3, <1>4, <1>5 DEF Next, Environment

LEMMA WayStep == WayInv /\ [Next]_vars => WayInv'
<1> SUFFICES ASSUME WayInv, [Next]_vars PROVE WayInv'
  OBVIOUS
<1>1. IndexInv' /\ EndInv' /\ ReadInv' /\ DownIsIdle'
  BY IndexStep, EndStep, ReadStep, IdleStep DEF WayInv
<1>2. CASE Start \/ Crash
  <2>1. \A b \in Builders : queue'[b] = <<>> /\ bpc'[b] \in {"idle", "read"}
    BY <1>2 DEF Start, Crash, Anew
  <2>2. QueuedOnce' /\ HeldOnce' /\ PutOnce'
    BY <2>1 DEF QueuedOnce, HeldOnce, PutOnce, Queued, Held
  <2> QED
    BY <1>1, <2>2 DEF WayInv
<1>3. CASE ~Start /\ ~Crash
  BY <1>1, <1>3, WayKept DEF WayInv
<1> QED
  BY <1>2, <1>3

-----------------------------------------------------------------------------
(* How often a document is stored: at most once in a run, because it comes *)
(* to its builder at most once, and in a later run only if its file has    *)
(* not been recorded.                                                      *)

Counted == ~raced =>
    \A d \in Doc :
        /\ Cardinality(Copies(d)) <= 1 + crashes
        /\ Coming(d) \/ mainPc = "down" => Cardinality(Copies(d)) <= crashes

CountInv == WayInv /\ Counted

LEMMA CopiesFinite ==
  ASSUME TypeOK, NEW d \in Doc
  PROVE  IsFiniteSet(Copies(d)) /\ Cardinality(Copies(d)) \in Nat
<1>1. KeyOf(d.hash) \in Keys
  BY Routing DEF Doc
<1>2. store[KeyOf(d.hash)] \in Seq(Doc)
  BY <1>1 DEF TypeOK
<1>3. Len(store[KeyOf(d.hash)]) \in Nat
  BY <1>2
<1>4. Copies(d) \in SUBSET (1 .. Len(store[KeyOf(d.hash)]))
  BY <1>2 DEF Copies
<1>5. IsFiniteSet(1 .. Len(store[KeyOf(d.hash)]))
  BY <1>3, FS_Interval
<1>6. IsFiniteSet(Copies(d))
  BY <1>4, <1>5, FS_Subset
<1> QED
  BY <1>6, FS_CardinalityType

(* Storing a document adds one copy of it, and none of another.            *)
LEMMA CopiesStored ==
  ASSUME TypeOK, NEW b \in Builders, WriteStore(b)
  PROVE  /\ bdoc[b] \in Doc
         /\ \A d \in Doc :
               IF d = bdoc[b]
               THEN \E p \in Nat : Copies(d)' = Copies(d) \cup {p}
               ELSE Copies(d)' = Copies(d)
<1>1. PICK e \in Doc : e = bdoc[b]
  BY DEF TypeOK, WriteStore
<1>2. PICK k \in Keys : k = KeyOf(e.hash)
  BY Routing DEF Doc
<1>3. store' = [store EXCEPT ![k] = Append(@, e)] /\ store \in [Keys -> Seq(Doc)]
  BY <1>1, <1>2 DEF WriteStore, TypeOK
<1>4. store[k] \in Seq(Doc) /\ store'[k] = Append(store[k], e)
  BY <1>3
<1>5. /\ store'[k] \in Seq(Doc) /\ Len(store'[k]) = Len(store[k]) + 1 /\ Len(store[k]) \in Nat
      /\ store'[k][Len(store[k]) + 1] = e
      /\ \A n \in 1 .. Len(store[k]) : store'[k][n] = store[k][n]
  <2>1. PICK s : s = store[k]
    OBVIOUS
  <2>2. /\ Append(s, e) \in Seq(Doc)
        /\ Len(Append(s, e)) = Len(s) + 1
        /\ \A n \in 1 .. Len(s) : Append(s, e)[n] = s[n]
        /\ Append(s, e)[Len(s) + 1] = e
    BY <1>4, <2>1, AppendElements
  <2>3. Len(s) \in Nat
    BY <1>4, <2>1
  <2> QED
    BY <1>4, <2>1, <2>2, <2>3
<1>6. /\ DOMAIN store[k] = 1 .. Len(store[k])
      /\ DOMAIN store'[k] = 1 .. Len(store[k]) + 1
  BY <1>4, <1>5
<1>7. ASSUME NEW d \in Doc, d # e PROVE Copies(d)' = Copies(d)
  <2>1. CASE KeyOf(d.hash) # k
    <3>1. KeyOf(d.hash) \in Keys
      BY Routing DEF Doc
    <3>2. store'[KeyOf(d.hash)] = store[KeyOf(d.hash)]
      BY <1>3, <2>1, <3>1
    <3> QED
      BY <3>2 DEF Copies
  <2>2. CASE KeyOf(d.hash) = k
    <3>1. Copies(d) = {p \in 1 .. Len(store[k]) : store[k][p] = d}
      BY <1>6, <2>2 DEF Copies
    <3>2. Copies(d)' = {p \in 1 .. Len(store[k]) + 1 : store'[k][p] = d}
      BY <1>6, <2>2 DEF Copies
    <3> QED
      BY <1>5, <1>7, <3>1, <3>2
  <2> QED
    BY <2>1, <2>2
<1>8. Copies(e)' = Copies(e) \cup {Len(store[k]) + 1}
  <2>1. Copies(e) = {p \in 1 .. Len(store[k]) : store[k][p] = e}
    BY <1>2, <1>6 DEF Copies
  <2>2. Copies(e)' = {p \in 1 .. Len(store[k]) + 1 : store'[k][p] = e}
    BY <1>2, <1>6 DEF Copies
  <2> QED
    BY <1>5, <2>1, <2>2
<1>9. Len(store[k]) + 1 \in Nat
  BY <1>5
<1>10. ASSUME NEW d \in Doc
       PROVE  IF d = bdoc[b]
              THEN \E p \in Nat : Copies(d)' = Copies(d) \cup {p}
              ELSE Copies(d)' = Copies(d)
  <2>1. CASE d = bdoc[b]
    BY <1>1, <1>8, <1>9, <2>1
  <2>2. CASE d # bdoc[b]
    BY <1>1, <1>7, <2>2
  <2> QED
    BY <2>1, <2>2
<1> QED
  BY <1>1, <1>10

LEMMA CountInit == Init => CountInv
<1> SUFFICES ASSUME Init PROVE CountInv
  OBVIOUS
<1>1. ASSUME NEW d \in Doc PROVE Cardinality(Copies(d)) = 0
  <2>1. KeyOf(d.hash) \in Keys
    BY Routing DEF Doc
  <2>2. Copies(d) = {}
    BY <2>1 DEF Init, Copies
  <2> QED
    BY <2>2, FS_EmptySet
<1>2. Counted
  BY <1>1 DEF Init, Counted
<1> QED
  BY <1>2, WayInit DEF CountInv

LEMMA CountStep == CountInv /\ [Next]_vars => CountInv'
<1> SUFFICES ASSUME CountInv, [Next]_vars PROVE CountInv'
  OBVIOUS
<1>w. WayInv /\ WayInv'
  BY WayStep DEF CountInv
<1>t. TypeOK /\ TypeOK'
  BY <1>w DEF WayInv, IndexInv
<1>n. crashes \in Nat /\ \A d \in Doc : Cardinality(Copies(d)) \in Nat
  BY <1>t, CopiesFinite DEF TypeOK
<1> USE DEF diskVars, mainVars, fetchVars, buildVars, tableVars
<1>1. CASE Start
  <2>1. /\ UNCHANGED <<store, crashes, raced>> /\ mainPc' = "spawn"
        /\ mainPc = "down" \/ mainPc = "done"
        /\ \A i \in Fetchers : todo'[i] \cap processFile = {}
        /\ \A b \in Builders : queue'[b] = <<>> /\ bpc'[b] = "read"
    BY <1>1 DEF Start, Anew, Exited, Share
  <2>2. \A d \in Doc : Copies(d)' = Copies(d)
    BY <2>1 DEF Copies
  <2>3. ASSUME NEW d \in Doc, Coming(d)', ~raced
        PROVE  Cardinality(Copies(d)) <= crashes
    <3>1. d.file \notin processFile
      BY <2>1, <2>3 DEF Coming, Early, EarlyAt, Queued, Held
    <3>2. mainPc # "done"
      BY <2>3, <3>1, <1>w, DoneRecorded DEF WayInv, DoneRecordsEveryFile, Doc
    <3> QED
      BY <2>1, <2>3, <3>2 DEF CountInv, Counted
  <2>4. Counted'
    BY <2>1, <2>2, <2>3 DEF CountInv, Counted
  <2> QED
    BY <1>w, <2>4 DEF CountInv
<1>2. CASE Crash
  <2>1. UNCHANGED <<store, raced>> /\ crashes' = crashes + 1
    BY <1>2 DEF Crash
  <2>2. \A d \in Doc : Copies(d)' = Copies(d)
    BY <2>1 DEF Copies
  <2>3. Counted'
    BY <2>1, <2>2, <1>n DEF CountInv, Counted
  <2> QED
    BY <1>w, <2>3 DEF CountInv
<1>3. ASSUME ~Start, ~Crash, UNCHANGED <<store, crashes>>,
             mainPc' = "down" => mainPc = "down",
             raced => raced'
      PROVE  CountInv'
  <2>1. \A d \in Doc : Coming(d)' => Coming(d)
    BY <1>3, <1>w, WayKept
  <2>2. \A d \in Doc : Copies(d)' = Copies(d)
    BY <1>3 DEF Copies
  <2>3. Counted'
    BY <1>3, <2>1, <2>2 DEF CountInv, Counted
  <2> QED
    BY <1>w, <2>3 DEF CountInv
<1>4. ASSUME ~Start, ~Crash, NEW b \in Builders, WriteStore(b)
      PROVE  CountInv'
  <2>1. PICK e \in Doc : e = bdoc[b]
    BY <1>4, <1>t, CopiesStored
  <2>2. /\ bpc[b] = "store" /\ bpc'[b] = "index"
        /\ \A c \in Builders : c # b => bpc'[c] = bpc[c]
        /\ UNCHANGED <<crashes, mainPc, raced, bdoc, queue, todo, at>>
    BY <1>4, <1>t DEF WriteStore, TypeOK
  <2>3. \A d \in Doc : Coming(d)' => Coming(d)
    BY <1>4, <1>w, WayKept
  <2>4. Held(e)
    BY <2>1, <2>2 DEF Held
  <2>5. ~Coming(e)'
    <3>1. ~Early(e) /\ ~Queued(e)
      <4>1. ~Early(e)
        BY <2>4, <1>w DEF WayInv, PutOnce
      <4>2. \A n \in 1 .. Len(queue[b]) : queue[b][n] # e
        BY <2>1, <2>2, <1>w DEF WayInv, HeldOnce
      <4>3. BuilderOf(e.hash) = b /\ e.hash # -1
        BY <2>1, <2>2, <1>w DEF WayInv, IndexInv, Owned, Doc
      <4>4. \A c \in Builders : \A n \in 1 .. Len(queue[c]) : queue[c][n] = e => c = b
        BY <4>3, <1>w DEF WayInv, IndexInv, Owned
      <4> QED
        BY <4>1, <4>2, <4>4 DEF Queued
    <3>2. ~Early(e)' /\ ~Queued(e)'
      BY <2>2, <3>1 DEF Early, EarlyAt, Queued
    <3>3. \A c \in Builders : bpc[c] \in {"open", "store"} /\ bdoc[c] = e => c = b
      BY <2>1, <2>2, <1>w DEF WayInv, IndexInv, Owned
    <3>4. ~Held(e)'
      BY <2>2, <3>3 DEF Held
    <3> QED
      BY <3>2, <3>4 DEF Coming
  <2>6. ASSUME ~raced PROVE Cardinality(Copies(e)') <= 1 + crashes
    <3>1. Cardinality(Copies(e)) <= crashes /\ Cardinality(Copies(e)) \in Nat
      BY <2>4, <2>6, <1>n DEF CountInv, Counted, Coming
    <3>2. PICK p \in Nat : Copies(e)' = Copies(e) \cup {p}
      BY <2>1, <1>4, <1>t, CopiesStored
    <3>3. \/ Cardinality(Copies(e)') = Cardinality(Copies(e))
          \/ Cardinality(Copies(e)') = Cardinality(Copies(e)) + 1
      BY <3>2, <1>t, CopiesFinite, FS_AddElement
    <3> QED
      BY <3>1, <3>3, <1>n
  <2>7. \A d \in Doc : d # e => Copies(d)' = Copies(d)
    BY <2>1, <1>4, <1>t, CopiesStored
  <2>8. mainPc # "down"
    BY <2>2, <1>w DEF WayInv, DownIsIdle
  <2>9. Counted'
    BY <2>2, <2>3, <2>5, <2>6, <2>7, <2>8 DEF CountInv, Counted
  <2> QED
    BY <1>w, <2>9 DEF CountInv
<1>5. CASE MainStep \/ UNCHANGED vars
  BY <1>1, <1>2, <1>3, <1>5 DEF MainStep, SpawnRead, SpawnWrite, SeeProducersDone, SendEnd,
                                Finish, vars
<1>6. ASSUME NEW i \in Fetchers, FetcherStep(i) \/ FetchFault(i) PROVE CountInv'
  <2>1. UNCHANGED <<store, crashes, mainPc>>
    BY <1>6 DEF FetcherStep, FetchPut, FetchSkip, FetchLeave, FetchFault, FinishLock,
                FinishRemove, FinishRecord
  <2>2. CASE FinishLock(i)
    <3>1. raced' = (raced \/ mainPc \in {"spawn", "add"})
      BY <2>2 DEF FinishLock
    <3>2. raced => raced'
      BY <3>1
    <3> QED
      BY <1>1, <1>2, <1>3, <2>1, <3>2
  <2>3. CASE ~FinishLock(i)
    <3>1. raced' = raced
      BY <1>6, <2>3 DEF FetcherStep, FetchPut, FetchSkip, FetchLeave, FetchFault,
                        FinishRemove, FinishRecord
    <3> QED
      BY <1>1, <1>2, <1>3, <2>1, <3>1
  <2> QED
    BY <2>2, <2>3
<1>7. ASSUME NEW b \in Builders, BuilderStep(b) \/ DiskFault(b), ~WriteStore(b)
      PROVE  CountInv'
  <2>1. UNCHANGED <<store, crashes, mainPc, raced>>
    BY <1>7 DEF BuilderStep, DiskFault, TakeDoc, OpenFiles, WriteIndex, WriteFails, TakeEnd,
                CloseOne, CloseFails, CloseDone, BuildComplete
  <2> QED
    BY <1>1, <1>2, <1>3, <2>1
<1> QED
  BY <1>1, <1>2, <1>4, <1>5, <1>6, <1>7 DEF Next, Environment

(* A document is stored at most once in each attempt to import its file,   *)
(* for any numbers of fetchers, builders, files, kills and I/O errors, if  *)
(* no fetcher completes while main still starts others.                    *)
THEOREM StoredOncePerAttempt == Spec => []AtMostOncePerAttempt
<1>1. CountInv => AtMostOncePerAttempt
  <2> SUFFICES ASSUME CountInv, ~raced, NEW f \in Files, NEW n \in Readable(f)
               PROVE  Cardinality(Copies(DocAt(f, n))) <= 1 + crashes
    BY DEF AtMostOncePerAttempt
  <2>1. DocAt(f, n) \in Doc
    <3>1. Content[f] \in Seq(Record)
      BY DEF Files
    <3>2. n \in Nat \ {0} /\ n <= Len(Content[f]) /\ Usable(Content[f][n])
      BY <3>1 DEF Readable, Usable
    <3> QED
      BY <3>2, Records DEF DocAt
  <2> QED
    BY <2>1 DEF CountInv, Counted
<1> QED
  BY <1>1, CountInit, CountStep, PTL DEF Spec

-----------------------------------------------------------------------------
(* That nothing is lost: without a kill and an I/O error, every readable   *)
(* document of the input is indexed, or on its way, or its builder has     *)
(* been stopped by the table it shares with the others.                    *)

\* The documents of the input.
Listed == {d \in Doc : d.at \in Readable(d.file) /\ d.hash = Content[d.file][d.at].hash}

Written(d) == \E b \in Builders : bpc[b] = "index" /\ bdoc[b] = d
Stopped(d) == bpc[BuilderOf(d.hash)] = "dead"

NothingLost == ~raced /\ crashes = 0 /\ faults = 0 =>
    /\ mainPc = "down" => processFile = {}
    /\ mainPc # "down" =>
          \A d \in Listed : Indexed(d) \/ Coming(d) \/ Written(d) \/ Stopped(d)

KeepInv == WayInv /\ NothingLost

LEMMA KeepInit == Init => KeepInv
<1> SUFFICES ASSUME Init PROVE KeepInv
  OBVIOUS
<1>1. NothingLost
  BY DEF Init, NothingLost
<1> QED
  BY <1>1, WayInit DEF KeepInv

(* The files of a node only grow.                                          *)
LEMMA FilesGrow ==
  ASSUME TypeOK, [Next]_vars, NEW k \in Keys
  PROVE  /\ \A p \in DOMAIN store[k] : p \in DOMAIN store'[k] /\ store'[k][p] = store[k][p]
         /\ \A q \in DOMAIN uidx[k] : q \in DOMAIN uidx'[k] /\ uidx'[k][q] = uidx[k][q]
<1>t. /\ store \in [Keys -> Seq(Doc)] /\ uidx \in [Keys -> Seq(Item)]
      /\ store[k] \in Seq(Doc) /\ uidx[k] \in Seq(Item)
  BY DEF TypeOK
<1>a. ASSUME NEW S, NEW s \in Seq(S), NEW e \in S, NEW p \in DOMAIN s
      PROVE  p \in DOMAIN Append(s, e) /\ Append(s, e)[p] = s[p]
  <2>1. p \in 1 .. Len(s) /\ Len(s) \in Nat
    BY <1>a
  <2>2. /\ Append(s, e) \in Seq(S)
        /\ Len(Append(s, e)) = Len(s) + 1
        /\ Append(s, e)[p] = s[p]
    BY <1>a, <2>1, AppendElements
  <2>3. DOMAIN Append(s, e) = 1 .. Len(s) + 1
    BY <2>2
  <2> QED
    BY <2>1, <2>2, <2>3
<1> USE DEF diskVars, mainVars, fetchVars, buildVars, tableVars
<1>1. CASE UNCHANGED <<store, uidx>>
  BY <1>1
<1>2. ASSUME NEW b \in Builders, WriteStore(b)
      PROVE  /\ uidx' = uidx
             /\ \A p \in DOMAIN store[k] : p \in DOMAIN store'[k] /\ store'[k][p] = store[k][p]
  <2>1. PICK e \in Doc : store' = [store EXCEPT ![KeyOf(e.hash)] = Append(@, e)]
    BY <1>2 DEF WriteStore, TypeOK
  <2>2. CASE KeyOf(e.hash) = k
    <3>1. store'[k] = Append(store[k], e)
      BY <1>t, <2>1, <2>2
    <3> QED
      BY <1>2, <1>t, <1>a, <3>1 DEF WriteStore
  <2>3. CASE KeyOf(e.hash) # k
    BY <1>2, <1>t, <2>1, <2>3 DEF WriteStore
  <2> QED
    BY <2>2, <2>3
<1>3. ASSUME NEW b \in Builders, WriteIndex(b)
      PROVE  /\ store' = store
             /\ \A q \in DOMAIN uidx[k] : q \in DOMAIN uidx'[k] /\ uidx'[k][q] = uidx[k][q]
  <2>1. PICK e \in Item : uidx' = [uidx EXCEPT ![KeyOf(bdoc[b].hash)] = Append(@, e)]
    BY <1>3 DEF WriteIndex, TypeOK, Item, Doc
  <2>2. CASE KeyOf(bdoc[b].hash) = k
    <3>1. uidx'[k] = Append(uidx[k], e)
      BY <1>t, <2>1, <2>2
    <3> QED
      BY <1>3, <1>t, <1>a, <3>1 DEF WriteIndex
  <2>3. CASE KeyOf(bdoc[b].hash) # k
    BY <1>3, <1>t, <2>1, <2>3 DEF WriteIndex
  <2> QED
    BY <2>2, <2>3
<1>4. CASE Start \/ Crash \/ MainStep \/ UNCHANGED vars
  BY <1>1, <1>4 DEF Start, Crash, Anew, MainStep, SpawnRead, SpawnWrite, SeeProducersDone,
                    SendEnd, Finish, vars
<1>5. ASSUME NEW i \in Fetchers, FetcherStep(i) \/ FetchFault(i)
      PROVE  UNCHANGED <<store, uidx>>
  BY <1>5 DEF FetcherStep, FetchPut, FetchSkip, FetchLeave, FetchFault, FinishLock,
              FinishRemove, FinishRecord
<1>6. ASSUME NEW b \in Builders, BuilderStep(b) \/ DiskFault(b),
             ~WriteStore(b), ~WriteIndex(b)
      PROVE  UNCHANGED <<store, uidx>>
  BY <1>6 DEF BuilderStep, DiskFault, TakeDoc, OpenFiles, WriteFails, TakeEnd, CloseOne,
              CloseFails, CloseDone, BuildComplete
<1> QED
  BY <1>1, <1>2, <1>3, <1>4, <1>5, <1>6 DEF Next, Environment

LEMMA IndexedStays ==
  ASSUME TypeOK, [Next]_vars, NEW d \in Doc, Indexed(d)
  PROVE  Indexed(d)'
<1>1. PICK k \in Keys : k = KeyOf(d.hash)
  BY Routing DEF Doc
<1>2. PICK q \in DOMAIN uidx[k] : uidx[k][q].pos \in Copies(d)
  BY <1>1 DEF Indexed
<1>3. q \in DOMAIN uidx'[k] /\ uidx'[k][q] = uidx[k][q]
  BY <1>2, FilesGrow
<1>4. Copies(d) \subseteq Copies(d)'
  BY <1>1, FilesGrow DEF Copies
<1> QED
  BY <1>1, <1>2, <1>3, <1>4 DEF Indexed

LEMMA ListedDocs ==
  ASSUME NEW d \in Listed
  PROVE  /\ d \in Doc /\ d.file \in Nat /\ d.file \in Files /\ d.at \in Nat \ {0}
         /\ d.at <= Len(Content[d.file]) /\ Len(Content[d.file]) \in Nat
         /\ Usable(Content[d.file][d.at]) /\ d.hash = Content[d.file][d.at].hash
         /\ \A m \in 1 .. d.at : Content[d.file][m].kind # "noseparator"
<1>1. d \in Doc /\ d.file \in Files /\ d.at \in Readable(d.file)
      /\ d.hash = Content[d.file][d.at].hash
  BY DEF Listed, Doc
<1>2. Content[d.file] \in Seq(Record) /\ d.file \in Nat
  BY <1>1 DEF Files
<1>3. d.at \in Nat \ {0} /\ d.at <= Len(Content[d.file]) /\ Len(Content[d.file]) \in Nat
  BY <1>1, <1>2 DEF Readable
<1> QED
  BY <1>1, <1>2, <1>3 DEF Readable, Usable

(* A document still to be put stays so until it is put.                    *)
LEMMA EarlyMoves ==
  ASSUME TypeOK, [Next]_vars, ~Start, ~Crash, faults' = faults,
         NEW d \in Listed, Early(d)
  PROVE  Early(d)' \/ Queued(d)'
<1>t. /\ todo \in [Fetchers -> SUBSET Files] /\ at \in [Fetchers -> Nat \ {0}]
      /\ faults \in Nat
  BY DEF TypeOK
<1>d. /\ d \in Doc /\ d.file \in Nat /\ d.file \in Files /\ d.at \in Nat \ {0}
      /\ d.at <= Len(Content[d.file]) /\ Len(Content[d.file]) \in Nat
      /\ Usable(Content[d.file][d.at]) /\ d.hash = Content[d.file][d.at].hash
      /\ \A m \in 1 .. d.at : Content[d.file][m].kind # "noseparator"
  BY ListedDocs
<1>e. PICK j \in Fetchers : EarlyAt(j, d)
  BY DEF Early
<1>p. ASSUME NEW b \in Builders, NEW e \in Doc \cup {EndDoc},
             queue' = [queue EXCEPT ![b] = Append(@, e)]
      PROVE  \E n \in 1 .. Len(queue'[b]) : queue'[b][n] = e
  <2>1. /\ Len(queue[b]) + 1 \in 1 .. Len(queue'[b])
        /\ queue'[b][Len(queue[b]) + 1] = e
    BY <1>p, QueuePut, Zenon
  <2> QED
    BY <2>1
<1> USE DEF diskVars, mainVars, fetchVars, buildVars, tableVars
<1>1. CASE UNCHANGED <<todo, at>>
  BY <1>1 DEF Early, EarlyAt
<1>2. CASE MainStep \/ UNCHANGED vars
  BY <1>1, <1>2 DEF MainStep, SpawnRead, SpawnWrite, SeeProducersDone, SendEnd, Finish, vars
<1>3. ASSUME NEW b \in Builders, BuilderStep(b) \/ DiskFault(b)
      PROVE  UNCHANGED <<todo, at>>
  BY <1>3 DEF BuilderStep, DiskFault, TakeDoc, OpenFiles, WriteStore, WriteIndex,
       WriteFails, TakeEnd, CloseOne, CloseFails, CloseDone, BuildComplete
<1>4. ASSUME NEW i \in Fetchers, FinishLock(i) \/ FinishRemove(i) \/ FinishRecord(i)
      PROVE  UNCHANGED <<todo, at>>
  BY <1>4 DEF FinishLock, FinishRemove, FinishRecord
<1>5. ASSUME NEW i \in Fetchers, FetchFault(i) PROVE FALSE
  BY <1>5, <1>t DEF FetchFault
<1>6. ASSUME NEW i \in Fetchers, FetchPut(i) \/ FetchSkip(i) \/ FetchLeave(i)
      PROVE  Early(d)' \/ Queued(d)'
  <2>1. CASE j # i
    <3>1. todo'[j] = todo[j] /\ at'[j] = at[j]
      BY <1>6, <1>t, <2>1 DEF FetchPut, FetchSkip, FetchLeave
    <3> QED
      BY <1>e, <3>1 DEF Early, EarlyAt
  <2>2. CASE j = i /\ (FetchPut(i) \/ FetchSkip(i))
    <3>1. PICK f \in todo[i] : /\ \A g \in todo[i] : f <= g
                               /\ at[i] <= Len(Content[f])
                               /\ at' = [at EXCEPT ![i] = @ + 1] /\ todo' = todo
                               /\ \/ /\ FetchPut(i) /\ Usable(Content[f][at[i]])
                                     /\ queue' = [queue EXCEPT
                                          ![BuilderOf(Content[f][at[i]].hash)] =
                                             Append(@, [hash |-> Content[f][at[i]].hash,
                                                        file |-> f, at |-> at[i]])]
                                  \/ ~Usable(Content[f][at[i]])
      BY <2>2 DEF FetchPut, FetchSkip, Reading
    <3>2. f \in Nat /\ at[i] \in Nat /\ at'[i] = at[i] + 1
      <4>1. i \in Fetchers /\ f \in Files
        BY <1>t, <2>2, <3>1, Zenon
      <4>2. at[i] \in Nat /\ at'[i] = at[i] + 1
        BY <1>t, <3>1, <4>1
      <4> QED
        BY <4>1, <4>2 DEF Files
    <3>3. CASE d.file # f
      <4>1. d.file \in todo[i]
        BY <1>e, <2>2 DEF EarlyAt
      <4>2. f <= d.file
        BY <3>1, <4>1
      <4>3. ~(d.file <= f)
        BY <1>d, <3>2, <3>3, <4>2
      <4> QED
        BY <1>e, <2>2, <3>1, <4>3 DEF Early, EarlyAt
    <3>4. CASE d.file = f /\ at[i] # d.at
      <4>1. \A g \in todo[i] : d.file <= g
        BY <3>1, <3>4
      <4>2. at[i] <= d.at
        BY <1>e, <2>2, <4>1 DEF EarlyAt
      <4>3. at[i] + 1 <= d.at
        BY <1>d, <3>2, <3>4, <4>2
      <4> QED
        BY <1>e, <2>2, <3>1, <3>2, <4>3 DEF Early, EarlyAt
    <3>5. CASE d.file = f /\ at[i] = d.at
      <4>1. /\ Usable(Content[f][at[i]])
            /\ [hash |-> Content[f][at[i]].hash, file |-> f, at |-> at[i]] = d
        BY <1>d, <3>5 DEF Doc
      <4>2. queue' = [queue EXCEPT ![BuilderOf(d.hash)] = Append(@, d)]
        BY <1>d, <3>1, <3>5, <4>1
      <4>3. PICK b \in Builders : b = BuilderOf(d.hash)
        BY <1>d, Routing DEF Doc
      <4>4. PICK e \in Doc \cup {EndDoc} : e = d /\ queue' = [queue EXCEPT ![b] = Append(@, e)]
        BY <1>d, <4>2, <4>3
      <4>5. \E n \in 1 .. Len(queue'[b]) : queue'[b][n] = e
        BY <4>4, <1>p
      <4> QED
        BY <4>4, <4>5 DEF Queued
    <3> QED
      BY <3>3, <3>4, <3>5
  <2>3. CASE j = i /\ FetchLeave(i)
    <3>1. PICK f \in todo[i] : /\ \A g \in todo[i] : f <= g
                               /\ at[i] <= Len(Content[f]) =>
                                     Content[f][at[i]].kind = "noseparator"
                               /\ todo' = [todo EXCEPT ![i] = @ \ {f}]
                               /\ at' = [at EXCEPT ![i] = 1]
      BY <2>3 DEF FetchLeave, Reading
    <3>2. d.file \in todo[i] /\ ((\A g \in todo[i] : d.file <= g) => at[i] <= d.at)
      BY <1>e, <2>3 DEF EarlyAt
    <3>3. d.file # f
      <4>1. SUFFICES ASSUME d.file = f PROVE FALSE
        OBVIOUS
      <4>2. at[i] <= d.at
        <5>1. \A g \in todo[i] : d.file <= g
          BY <3>1, <4>1
        <5> QED
          BY <3>2, <5>1
      <4>3. at[i] \in Nat \ {0}
        BY <1>t
      <4>4. at[i] <= Len(Content[f]) /\ at[i] \in 1 .. d.at
        BY <1>d, <4>1, <4>2, <4>3
      <4>5. Content[d.file][at[i]].kind = "noseparator"
        <5>1. at[i] <= Len(Content[f]) => Content[f][at[i]].kind = "noseparator"
          BY <3>1
        <5> QED
          BY <4>1, <4>4, <5>1
      <4> QED
        BY <1>d, <4>4, <4>5
    <3>4. d.file \in todo'[i] /\ at'[i] = 1
      <4>1. todo' = [todo EXCEPT ![i] = @ \ {f}] /\ at' = [at EXCEPT ![i] = 1]
        BY <3>1
      <4> QED
        BY <1>t, <3>2, <3>3, <4>1
    <3>5. at'[i] <= d.at
      BY <1>d, <3>4
    <3> QED
      BY <3>4, <3>5 DEF Early, EarlyAt
  <2> QED
    BY <1>6, <2>1, <2>2, <2>3
<1> QED
  BY <1>1, <1>2, <1>3, <1>4, <1>5, <1>6 DEF Next, FetcherStep, Environment

(* A queued document stays so until its builder takes it.                  *)
LEMMA QueuedMoves ==
  ASSUME TypeOK, [Next]_vars, ~Start, ~Crash, NEW d \in Doc, Queued(d)
  PROVE  Queued(d)' \/ Held(d)'
<1>e. PICK c \in Builders : \E n \in 1 .. Len(queue[c]) : queue[c][n] = d
  BY DEF Queued
<1> USE DEF diskVars, mainVars, fetchVars, buildVars, tableVars
<1>1. CASE UNCHANGED queue
  BY <1>1 DEF Queued
<1>2. ASSUME NEW b \in Builders, NEW e \in Doc \cup {EndDoc},
             queue' = [queue EXCEPT ![b] = Append(@, e)]
      PROVE  Queued(d)'
  BY <1>2, <1>e, QueuePut DEF Queued
<1>3. CASE SendEnd
  <2>1. endsSent \in Builders /\ queue' = [queue EXCEPT ![endsSent] = Append(@, EndDoc)]
    BY <1>3 DEF TypeOK, SendEnd, Builders
  <2> QED
    BY <1>2, <2>1
<1>4. ASSUME NEW i \in Fetchers, FetchPut(i) PROVE Queued(d)'
  <2>1. PICK f \in todo[i] : /\ at[i] <= Len(Content[f]) /\ Usable(Content[f][at[i]])
                             /\ queue' = [queue EXCEPT ![BuilderOf(Content[f][at[i]].hash)] =
                                  Append(@, [hash |-> Content[f][at[i]].hash, file |-> f,
                                             at |-> at[i]])]
    BY <1>4 DEF FetchPut
  <2>2. PICK e \in Doc : queue' = [queue EXCEPT ![BuilderOf(e.hash)] = Append(@, e)]
    BY <2>1, Records DEF TypeOK
  <2>3. BuilderOf(e.hash) \in Builders
    BY Routing DEF Doc
  <2> QED
    BY <1>2, <2>2, <2>3
<1>5. ASSUME NEW b \in Builders, TakeDoc(b) \/ TakeEnd(b) PROVE Queued(d)' \/ Held(d)'
  <2>1. queue[b] # <<>> /\ queue' = [queue EXCEPT ![b] = Tail(@)]
    BY <1>5 DEF TakeDoc, TakeEnd
  <2>2. /\ Head(queue[b]) = queue[b][1]
        /\ \A n \in 1 .. Len(queue[b]) :
              n = 1 \/ \E m \in 1 .. Len(queue'[b]) : queue'[b][m] = queue[b][n]
        /\ \A x \in Builders : x # b => queue'[x] = queue[x]
    BY <2>1, QueueTake
  <2>3. CASE c # b \/ queue[b][1] # d
    BY <1>e, <2>2, <2>3 DEF Queued
  <2>4. CASE queue[b][1] = d
    <3>1. d.hash # -1
      BY DEF Doc
    <3>2. TakeDoc(b)
      BY <1>5, <2>2, <2>4, <3>1 DEF TakeEnd
    <3>3. bdoc'[b] = d /\ bpc'[b] \in {"open", "store"}
      BY <2>2, <2>4, <3>2 DEF TakeDoc, TypeOK
    <3> QED
      BY <3>3 DEF Held
  <2> QED
    BY <2>3, <2>4
<1>6. CASE SpawnRead \/ SpawnWrite \/ SeeProducersDone \/ Finish \/ UNCHANGED vars
  BY <1>1, <1>6 DEF SpawnRead, SpawnWrite, SeeProducersDone, Finish, vars
<1>7. ASSUME NEW i \in Fetchers,
             \/ FetchSkip(i) \/ FetchLeave(i) \/ FetchFault(i)
             \/ FinishLock(i) \/ FinishRemove(i) \/ FinishRecord(i)
      PROVE  UNCHANGED queue
  BY <1>7 DEF FetchSkip, FetchLeave, FetchFault, FinishLock, FinishRemove, FinishRecord
<1>8. ASSUME NEW b \in Builders,
             \/ OpenFiles(b) \/ WriteStore(b) \/ WriteIndex(b) \/ WriteFails(b)
             \/ CloseOne(b) \/ CloseFails(b) \/ CloseDone(b) \/ BuildComplete(b)
             \/ DiskFault(b)
      PROVE  UNCHANGED queue
  BY <1>8 DEF OpenFiles, WriteStore, WriteIndex, WriteFails, CloseOne, CloseFails,
              CloseDone, BuildComplete, DiskFault
<1> QED
  BY <1>1, <1>3, <1>4, <1>5, <1>6, <1>7, <1>8
     DEF Next, MainStep, FetcherStep, BuilderStep, Environment

(* A document a builder holds is written to both files, unless the builder *)
(* is stopped.                                                             *)
LEMMA HeldMoves ==
  ASSUME WayInv, [Next]_vars, ~Start, ~Crash, faults' = faults, NEW d \in Doc,
         Held(d) \/ Written(d) \/ Stopped(d)
  PROVE  Held(d)' \/ Written(d)' \/ Stopped(d)' \/ Indexed(d)'
<1>t. TypeOK /\ Owned /\ Pending
  BY DEF WayInv, IndexInv
<1>b. BuilderOf(d.hash) \in Builders
  BY Routing DEF Doc
<1>e. PICK c \in Builders :
         \/ bpc[c] \in {"open", "store", "index"} /\ bdoc[c] = d
         \/ bpc[c] = "dead" /\ c = BuilderOf(d.hash)
  BY <1>b DEF Held, Written, Stopped
<1>o. c = BuilderOf(d.hash)
  BY <1>e, <1>t DEF Owned
<1> USE DEF diskVars, mainVars, fetchVars, buildVars, tableVars
<1>1. CASE bpc'[c] = bpc[c] /\ bdoc'[c] = bdoc[c]
  BY <1>1, <1>e DEF Held, Written, Stopped
<1>2. CASE bpc'[c] = "dead"
  BY <1>2, <1>o DEF Stopped
<1>3. CASE MainStep \/ UNCHANGED vars
  BY <1>1, <1>3 DEF MainStep, SpawnRead, SpawnWrite, SeeProducersDone, SendEnd, Finish, vars
<1>4. ASSUME NEW i \in Fetchers, FetcherStep(i) \/ FetchFault(i)
      PROVE  UNCHANGED <<bpc, bdoc>>
  BY <1>4 DEF FetcherStep, FetchPut, FetchSkip, FetchLeave, FetchFault, FinishLock,
              FinishRemove, FinishRecord
<1>5. ASSUME NEW b \in Builders, DiskFault(b) PROVE FALSE
  BY <1>5, <1>t DEF DiskFault, TypeOK
<1>6. ASSUME NEW b \in Builders, BuilderStep(b), b # c
      PROVE  bpc'[c] = bpc[c] /\ bdoc'[c] = bdoc[c]
  BY <1>6, <1>t DEF BuilderStep, TakeDoc, OpenFiles, WriteStore, WriteIndex, WriteFails,
       TakeEnd, CloseOne, CloseFails, CloseDone, BuildComplete, TypeOK
<1>7. CASE TakeDoc(c) \/ TakeEnd(c) \/ CloseOne(c) \/ CloseFails(c) \/ CloseDone(c)
           \/ BuildComplete(c)
  BY <1>7, <1>e DEF TakeDoc, TakeEnd, CloseOne, CloseFails, CloseDone, BuildComplete
<1>8. CASE WriteFails(c)
  BY <1>2, <1>8, <1>t DEF WriteFails, AfterException, TypeOK
<1>9. CASE OpenFiles(c)
  <2>1. bpc'[c] = "store" /\ bdoc'[c] = d
    BY <1>9, <1>e, <1>t DEF OpenFiles, TypeOK
  <2> QED
    BY <2>1 DEF Held
<1>10. CASE WriteStore(c)
  <2>1. bpc'[c] = "index" /\ bdoc'[c] = d
    BY <1>10, <1>e, <1>t DEF WriteStore, TypeOK
  <2> QED
    BY <2>1 DEF Written
<1>11. CASE WriteIndex(c)
  <2>1. bpc[c] = "index" /\ bdoc[c] = d
    BY <1>11, <1>e DEF WriteIndex
  <2>2. PICK k \in Keys : k = KeyOf(d.hash)
    BY Routing DEF Doc
  <2>3. bpos[c] \in Copies(d)
    <3>1. /\ bpos[c] = Len(store[k]) /\ bpos[c] > 0 /\ store[k][bpos[c]] = d
      BY <1>t, <2>1, <2>2 DEF Pending
    <3>2. store[k] \in Seq(Doc)
      BY <1>t DEF TypeOK
    <3>3. bpos[c] \in DOMAIN store[k]
      BY <3>1, <3>2
    <3> QED
      BY <2>2, <3>1, <3>3 DEF Copies
  <2>4. PICK e \in Item : e = [hash |-> d.hash, pos |-> bpos[c]]
    BY <1>t DEF TypeOK, Item, Doc
  <2>5. uidx' = [uidx EXCEPT ![k] = Append(@, e)] /\ store' = store
    BY <1>11, <2>1, <2>2, <2>4 DEF WriteIndex
  <2>6. uidx[k] \in Seq(Item) /\ uidx'[k] = Append(uidx[k], e)
    BY <1>t, <2>5 DEF TypeOK
  <2>7. Len(uidx[k]) + 1 \in DOMAIN uidx'[k] /\ uidx'[k][Len(uidx[k]) + 1] = e
    <3>1. PICK s : s = uidx[k]
      OBVIOUS
    <3>2. /\ Append(s, e) \in Seq(Item)
          /\ Len(Append(s, e)) = Len(s) + 1
          /\ Append(s, e)[Len(s) + 1] = e
      BY <2>6, <3>1, AppendElements
    <3>3. Len(s) \in Nat
      BY <2>6, <3>1
    <3> QED
      BY <2>6, <3>1, <3>2, <3>3
  <2>8. Copies(d)' = Copies(d)
    BY <2>5 DEF Copies
  <2>9. uidx'[k][Len(uidx[k]) + 1].pos \in Copies(d)'
    BY <2>3, <2>4, <2>7, <2>8
  <2> QED
    BY <2>2, <2>7, <2>9 DEF Indexed
<1>12. CASE UNCHANGED <<bpc, bdoc>>
  BY <1>1, <1>12
<1>13. ASSUME NEW b \in Builders, BuilderStep(b)
       PROVE  Held(d)' \/ Written(d)' \/ Stopped(d)' \/ Indexed(d)'
  <2>1. CASE b = c
    BY <1>7, <1>8, <1>9, <1>10, <1>11, <1>13, <2>1 DEF BuilderStep
  <2>2. CASE b # c
    BY <1>1, <1>6, <1>13, <2>2
  <2> QED
    BY <2>1, <2>2
<1> QED
  BY <1>3, <1>4, <1>5, <1>12, <1>13 DEF Next, Environment

\* In a run that has come to its end, everything is indexed.
LEMMA EndIndexed ==
  ASSUME WayInv, NothingLost, mainPc = "done", ~raced, crashes = 0, faults = 0,
         NEW d \in Listed
  PROVE  Indexed(d)
<1>1. \A b \in Builders : bpc[b] = "done" /\ queue[b] = <<>>
  BY DoneBuilt DEF WayInv, DoneMeansBuilt
<1>2. d \in Doc
  BY DEF Listed
<1>3. ~Queued(d) /\ ~Held(d) /\ ~Written(d)
  BY <1>1 DEF Queued, Held, Written
<1>4. ~Stopped(d)
  BY <1>1, <1>2, Routing DEF Stopped, Doc
<1>5. \A i \in Fetchers : todo[i] = {}
  BY DEF WayInv, ReadInv, InShare, EndInv, ProducerInv, EndAfterProducers
<1>6. ~Early(d)
  BY <1>5 DEF Early, EarlyAt
<1> QED
  BY <1>3, <1>4, <1>6 DEF NothingLost, Coming

LEMMA KeepStep == KeepInv /\ [Next]_vars => KeepInv'
<1> SUFFICES ASSUME KeepInv, [Next]_vars PROVE KeepInv'
  OBVIOUS
<1>w. WayInv /\ WayInv' /\ NothingLost
  BY WayStep DEF KeepInv
<1>t. TypeOK /\ Listed \subseteq Doc
  BY <1>w DEF WayInv, IndexInv, Listed
<1> SUFFICES ASSUME ~raced', crashes' = 0, faults' = 0 PROVE NothingLost'
  BY <1>w DEF KeepInv, NothingLost
<1>l. Listed' = Listed
  BY DEF Listed, Readable, Doc, Files
<1> USE DEF diskVars, mainVars, fetchVars, buildVars, tableVars
<1>1. CASE Start
  <2>1. /\ UNCHANGED <<processFile, crashes, faults, raced>>
        /\ mainPc' = "spawn" /\ (mainPc = "down" \/ mainPc = "done")
        /\ alreadyRead' = processFile
        /\ todo' = [i \in Fetchers |-> Share(i)']
        /\ at' = [i \in Fetchers |-> 1]
    BY <1>1 DEF Start, Anew, Exited
  <2>2. CASE mainPc = "down"
    <3>1. processFile = {}
      BY <1>w, <2>1, <2>2 DEF NothingLost
    <3>2. ASSUME NEW d \in Listed PROVE Early(d)'
      <4>1. d.file \in Files /\ d.file - 1 \in Nat /\ 1 <= d.at
        BY ListedDocs DEF Files
      <4>2. PICK i \in Fetchers : i = (d.file - 1) % FETCH_THREAD
        BY <4>1 DEF Fetchers
      <4>3. d.file \in todo'[i] /\ at'[i] = 1
        BY <2>1, <3>1, <4>1, <4>2 DEF Share
      <4> QED
        BY <4>1, <4>3 DEF Early, EarlyAt
    <3> QED
      BY <1>l, <2>1, <3>2 DEF NothingLost, Coming
  <2>3. CASE mainPc = "done"
    <3>1. \A d \in Listed : Indexed(d)'
      BY <1>w, <1>t, <2>1, <2>3, EndIndexed, IndexedStays
    <3> QED
      BY <1>l, <2>1, <3>1 DEF NothingLost
  <2> QED
    BY <2>1, <2>2, <2>3
<1>2. CASE Crash
  BY <1>2, <1>t DEF Crash, TypeOK
<1>3. CASE ~Start /\ ~Crash
  <2>1. UNCHANGED <<crashes, faults>> /\ ~raced
    <3>1. CASE MainStep \/ UNCHANGED vars
      BY <3>1 DEF MainStep, SpawnRead, SpawnWrite, SeeProducersDone, SendEnd, Finish, vars
    <3>2. ASSUME NEW b \in Builders, BuilderStep(b)
          PROVE  UNCHANGED <<crashes, faults>> /\ ~raced
      <4>1. CASE TakeDoc(b) \/ OpenFiles(b) \/ WriteStore(b) \/ WriteIndex(b) \/ WriteFails(b)
        BY <4>1 DEF TakeDoc, OpenFiles, WriteStore, WriteIndex, WriteFails
      <4>2. CASE TakeEnd(b) \/ CloseOne(b) \/ CloseFails(b) \/ CloseDone(b) \/ BuildComplete(b)
        BY <4>2 DEF TakeEnd, CloseOne, CloseFails, CloseDone, BuildComplete
      <4> QED
        BY <3>2, <4>1, <4>2 DEF BuilderStep
    <3>3. ASSUME NEW i \in Fetchers, FetcherStep(i), ~FinishLock(i)
          PROVE  UNCHANGED <<crashes, faults>> /\ ~raced
      <4>1. UNCHANGED <<crashes, faults, raced>>
        BY <3>3 DEF FetcherStep, FetchPut, FetchSkip, FetchLeave, FinishRemove, FinishRecord
      <4> QED
        BY <4>1
    <3>4. ASSUME NEW i \in Fetchers, FinishLock(i)
          PROVE  UNCHANGED <<crashes, faults>> /\ ~raced
      <4>1. raced' = (raced \/ mainPc \in {"spawn", "add"}) /\ UNCHANGED <<crashes, faults>>
        BY <3>4 DEF FinishLock
      <4> QED
        BY <4>1
    <3>5. ASSUME NEW i \in Fetchers, FetchFault(i) PROVE FALSE
      BY <3>5, <1>t DEF FetchFault, TypeOK
    <3>6. ASSUME NEW b \in Builders, DiskFault(b) PROVE FALSE
      BY <3>6, <1>t DEF DiskFault, TypeOK
    <3> QED
      BY <1>3, <3>1, <3>2, <3>3, <3>4, <3>5, <3>6 DEF Next, Environment
  <2>2. /\ mainPc' = "down" => mainPc = "down" /\ processFile' = processFile
        /\ mainPc' # "down" => mainPc # "down"
    <3>1. CASE MainStep \/ UNCHANGED vars
      BY <3>1 DEF MainStep, SpawnRead, SpawnWrite, SeeProducersDone, SendEnd, Finish, vars
    <3>2. ASSUME NEW b \in Builders, BuilderStep(b) \/ DiskFault(b)
          PROVE  UNCHANGED <<mainPc, processFile>>
      BY <3>2 DEF BuilderStep, DiskFault, TakeDoc, OpenFiles, WriteStore, WriteIndex,
           WriteFails, TakeEnd, CloseOne, CloseFails, CloseDone, BuildComplete
    <3>3. ASSUME NEW i \in Fetchers, FetcherStep(i) \/ FetchFault(i)
          PROVE  /\ mainPc' = mainPc
                 /\ mainPc = "down" => processFile' = processFile
      <4>1. fpc[i] # "idle"
        BY <3>3 DEF FetcherStep, FetchPut, FetchSkip, FetchLeave, FetchFault, FinishLock,
                    FinishRemove, FinishRecord, Reading
      <4>2. mainPc # "down"
        BY <1>w, <4>1 DEF WayInv, EndInv, ProducerInv, NotStarted
      <4> QED
        BY <3>3, <4>2 DEF FetcherStep, FetchPut, FetchSkip, FetchLeave, FetchFault,
           FinishLock, FinishRemove, FinishRecord
    <3> QED
      BY <1>3, <3>1, <3>2, <3>3 DEF Next, Environment
  <2>3. ASSUME mainPc' # "down", NEW d \in Listed
        PROVE  Indexed(d)' \/ Coming(d)' \/ Written(d)' \/ Stopped(d)'
    <3>1. Indexed(d) \/ Early(d) \/ Queued(d) \/ Held(d) \/ Written(d) \/ Stopped(d)
      BY <1>w, <2>1, <2>2, <2>3 DEF NothingLost, Coming
    <3>2. CASE Indexed(d)
      BY <1>t, <3>2, IndexedStays
    <3>3. CASE Early(d)
      BY <1>t, <1>3, <2>1, <3>3, EarlyMoves DEF Coming
    <3>4. CASE Queued(d)
      BY <1>t, <1>3, <3>4, QueuedMoves DEF Coming
    <3>5. CASE Held(d) \/ Written(d) \/ Stopped(d)
      BY <1>w, <1>t, <1>3, <2>1, <3>5, HeldMoves DEF Coming
    <3> QED
      BY <3>1, <3>2, <3>3, <3>4, <3>5
  <2>4. mainPc' = "down" => processFile' = {}
    BY <1>w, <2>1, <2>2 DEF NothingLost
  <2> QED
    BY <1>l, <2>3, <2>4 DEF NothingLost
<1> QED
  BY <1>1, <1>2, <1>3

(* A dump that returns, with no kill and no I/O error so far, has stored   *)
(* and indexed every readable document of its input, for any numbers of    *)
(* fetchers, builders and files and any capacity of the queues, if no      *)
(* fetcher completes while main still starts others.                       *)
THEOREM CompleteDumpAlwaysIndexed == Spec => []CompleteDumpIsIndexed
<1>1. KeepInv => CompleteDumpIsIndexed
  <2> SUFFICES ASSUME KeepInv, mainPc = "done", ~raced, crashes = 0, faults = 0,
                      NEW f \in Files, NEW n \in Readable(f)
               PROVE  Indexed(DocAt(f, n))
    BY DEF CompleteDumpIsIndexed
  <2>1. DocAt(f, n) \in Listed
    <3>1. Content[f] \in Seq(Record)
      BY DEF Files
    <3>2. n \in Nat \ {0} /\ n <= Len(Content[f]) /\ Usable(Content[f][n])
      BY <3>1 DEF Readable, Usable
    <3> QED
      BY <3>2, Records DEF DocAt, Listed
  <2> QED
    BY <2>1, EndIndexed DEF KeepInv
<1> QED
  BY <1>1, KeepInit, KeepStep, PTL DEF Spec
=============================================================================

--------------------------- MODULE ServicesProofs ---------------------------
(***************************************************************************)
(* What the parts of the services guarantee, for any sizes: the templates, *)
(* the processes, the files of the browser, the two ends of the blacklist, *)
(* the listening server and generators.                                    *)
(***************************************************************************)
EXTENDS MCServices, WellFoundedInduction, FiniteSetTheorems, SequenceTheorems, TLAPS

-----------------------------------------------------------------------------
(* TemplateBlocks: writing a template ends.                                *)

Block == [name : Names, parent : Nat]

BlocksTypeOK ==
    /\ blocks \in Seq(Block)
    /\ inside \in Seq(Nat)
    /\ named \in [Names -> Nat]

\* The walk is only ever in blocks it has found, ...
InsideFound == \A i \in DOMAIN inside : inside[i] <= Len(blocks)
\* ... a block is found after the one around it, ...
ParentsFirst == \A b \in DOMAIN blocks : blocks[b].parent < b
\* ... and no block was found after the one that is kept under its name.
LatestKept == \A b \in DOMAIN blocks : b <= named[blocks[b].name]

BlocksInv == BlocksTypeOK /\ InsideFound /\ ParentsFirst /\ LatestKept

\* The block around the place of the walk was found before: what Enter and Leave go by.
LEMMA ParentFound ==
    ASSUME BlocksInv
    PROVE  Parent \in Nat /\ Parent <= Len(blocks)
  BY SMT DEF BlocksInv, BlocksTypeOK, InsideFound, Parent

\* A block's body leads to blocks that were found later, whatever overrides it.
LEMMA LaterFound ==
    ASSUME BlocksInv
    PROVE  WritingEnds
<1> SUFFICES ASSUME NEW n \in Names, NEW m \in Names,
                    NEW b \in DOMAIN blocks,
                    blocks[b].parent = named[n], blocks[b].name = m
             PROVE  named[n] < named[m]
  BY DEF WritingEnds, Writes
<1>1. b \in Nat /\ named[n] \in Nat /\ named[m] \in Nat
  BY DEF BlocksInv, BlocksTypeOK
<1>2. named[n] < b
  BY DEF BlocksInv, ParentsFirst
<1>3. b <= named[m]
  BY DEF BlocksInv, LatestKept
<1> QED
  BY <1>1, <1>2, <1>3, SMT

\* Entering a block keeps the order: it is found after all others and replaces the
\* one of its name.
LEMMA EnterKeepsOrder ==
    ASSUME BlocksInv, NEW n \in Names, Enter(n)
    PROVE  BlocksInv'
<1> DEFINE new == [name |-> n, parent |-> Parent]
           b0 == Len(blocks) + 1
<1>1. new \in Block /\ Parent < b0 /\ b0 \in Nat
  BY ParentFound, SMT DEF Block, BlocksInv, BlocksTypeOK
<1>2. blocks' = Append(blocks, new) /\ inside' = Append(inside, b0)
      /\ named' = [named EXCEPT ![n] = b0]
  BY DEF Enter, Entered
<1> HIDE DEF new
<1>3. BlocksTypeOK'
  BY <1>1, <1>2, SMT DEF BlocksInv, BlocksTypeOK
<1>4. Len(blocks') = b0 /\ DOMAIN blocks' = 1 .. b0 /\ blocks'[b0] = new
      /\ \A b \in DOMAIN blocks : blocks'[b] = blocks[b]
  BY <1>1, <1>2, SMT DEF BlocksInv, BlocksTypeOK
<1>5. InsideFound'
  BY <1>1, <1>2, <1>4, SMT DEF BlocksInv, BlocksTypeOK, InsideFound
<1>6. ParentsFirst'
  <2> SUFFICES ASSUME NEW b \in 1 .. b0 PROVE blocks'[b].parent < b
    BY <1>4 DEF ParentsFirst
  <2>1. CASE b = b0
    BY <1>1, <1>4, <2>1 DEF new
  <2>2. CASE b # b0
    <3>1. b \in DOMAIN blocks
      BY <1>1, <2>2, SMT DEF BlocksInv, BlocksTypeOK
    <3> QED
      BY <1>4, <3>1 DEF BlocksInv, ParentsFirst
  <2> QED
    BY <2>1, <2>2
<1>7. LatestKept'
  <2> SUFFICES ASSUME NEW b \in 1 .. b0 PROVE b <= named'[blocks'[b].name]
    BY <1>4 DEF LatestKept
  <2>1. CASE b = b0
    <3>1. blocks'[b].name = n
      BY <1>4, <2>1 DEF new
    <3>2. named'[n] = b0
      BY <1>2 DEF BlocksInv, BlocksTypeOK
    <3> QED
      BY <1>1, <2>1, <3>1, <3>2, SMT
  <2>2. CASE b # b0
    <3>0. b \in DOMAIN blocks /\ blocks[b] \in Block
      BY <1>1, <2>2, SMT DEF BlocksInv, BlocksTypeOK
    <3>1. b \in DOMAIN blocks /\ blocks[b].name \in Names
      BY <3>0 DEF Block
    <3>2. b <= named[blocks[b].name] /\ blocks'[b] = blocks[b]
      BY <1>4, <3>1 DEF BlocksInv, LatestKept
    <3>3. named'[blocks[b].name] \in {b0, named[blocks[b].name]}
      BY <1>2, <3>1 DEF BlocksInv, BlocksTypeOK
    <3> QED
      BY <1>1, <3>2, <3>3, SMT
  <2> QED
    BY <2>1, <2>2
<1> QED
  BY <1>3, <1>5, <1>6, <1>7 DEF BlocksInv

\* The strengthening of WritingEnds is inductive.
LEMMA OrderKept ==
    BlocksInv /\ [BlocksNext]_blockVars => BlocksInv'
<1> SUFFICES ASSUME BlocksInv, [BlocksNext]_blockVars
             PROVE  BlocksInv'
  OBVIOUS
<1>1. ASSUME NEW n \in Names, Enter(n)
      PROVE  BlocksInv'
  BY <1>1, EnterKeepsOrder
<1>2. CASE Leave
  <2>1. inside' = Front(inside) /\ UNCHANGED <<blocks, named>>
    BY <1>2 DEF Leave, Left
  <2>2. inside' \in Seq(Nat) /\ \A i \in DOMAIN inside' : i \in DOMAIN inside /\ inside'[i] = inside[i]
    <3>1. inside \in Seq(Nat) /\ inside # <<>>
      BY <1>2 DEF Leave, BlocksInv, BlocksTypeOK
    <3>2. Len(inside) \in Nat /\ Len(inside) > 0 /\ DOMAIN inside = 1 .. Len(inside)
      BY <3>1, SMT
    <3>3. inside' = SubSeq(inside, 1, Len(inside) - 1)
      BY <2>1 DEF Front
    <3>4. inside' \in Seq(Nat) /\ Len(inside') = Len(inside) - 1
          /\ \A i \in 1 .. Len(inside) - 1 : inside'[i] = inside[i]
      BY <3>1, <3>2, <3>3, SMT
    <3> QED
      BY <3>2, <3>4, SMT
  <2> QED
    BY <2>1, <2>2 DEF BlocksInv, BlocksTypeOK, InsideFound, ParentsFirst, LatestKept
<1>3. CASE NextTemplate
  BY <1>3 DEF NextTemplate, BlocksInv, BlocksTypeOK, InsideFound, ParentsFirst, LatestKept
<1>4. CASE UNCHANGED blockVars
  BY <1>4 DEF blockVars, BlocksInv, BlocksTypeOK, InsideFound, ParentsFirst, LatestKept
<1> QED
  BY <1>1, <1>2, <1>3, <1>4 DEF BlocksNext

\* _generate of a named block follows named_blocks without ever coming back to a block:
\* writing the code of a template ends, however its ancestors' blocks are overridden.
THEOREM WritingAlwaysEnds == BlocksSpec => []WritingEnds
<1>1. BlocksInit => BlocksInv
  BY SMT DEF BlocksInit, BlocksInv, BlocksTypeOK, InsideFound, ParentsFirst, LatestKept
<1>2. BlocksInv => WritingEnds
  BY LaterFound
<1> QED
  BY <1>1, <1>2, OrderKept, PTL DEF BlocksSpec

\* The parts share no state: only its own steps touch one.
LEMMA PartsAlone ==
    [ServicesNext]_servicesVars =>
        /\ [Tcp!TCPNext]_serverVars /\ [Forks!ForkNext]_processVars /\ [Gen!GenNext]_genVars
        /\ [Http!HTTPNext]_httpVars /\ [Web!WSNext]_wsVars
        /\ [Curl!CurlNext]_curlVars /\ [Parser!ParserNext]_parser /\ [Static!StaticNext]_staticVars
        /\ [Service!ServiceNext]_serviceVars /\ [Black!BlackListNext]_blackListVars
BY DEF ServicesNext, servicesVars, connectionVars, helperVars, listVars, StreamRuns, HttpRuns,
       WebRuns, TcpRuns, GenRuns, StackRuns, CurlRuns, ForkRuns, ParserRuns, BlocksRun,
       ReactorRuns, StaticRuns, ServiceRuns, BlackListRuns, Runs, ioVars, httpVars, wsVars,
       genVars, ctxVars, curlVars, serverVars, processVars, staticVars, serviceVars,
       blackListVars

-----------------------------------------------------------------------------
(* ForkProcesses: no task id has two processes, and none is left behind.   *)

LEMMA ProcessCounts == num_processes \in Nat /\ max_restarts \in Nat
BY SizesAssumption

Ending == {"running", "clean", "failed", "reaped"}
Task == [id : Nat, state : Ending]
ForksTypeOK ==
    /\ master \in [phase : {"forking", "waiting", "exited", "gaveUp"}, next : Nat,
                   restarts : Nat, children : SUBSET Nat]
    /\ process \in Seq(Task)

\* The map of children is of the processes that have not been waited for, ...
ChildrenKnown ==
    /\ master.children \subseteq 1 .. Len(process)
    /\ \A p \in 1 .. Len(process) : p \in master.children <=> process[p].state # "reaped"
\* ... each with an id of its own.
OwnIds ==
    \A p, q \in 1 .. Len(process) :
        p \in master.children /\ q \in master.children /\ process[p].id = process[q].id => p = q

\* The ids are given out in order, and then each restart is one more process.
ForksCounted ==
    /\ master.next <= num_processes
    /\ \A p \in 1 .. Len(process) : process[p].id < master.next
    /\ IF master.phase = "forking" THEN master.restarts = 0 ELSE master.next = num_processes
    /\ IF master.phase = "gaveUp"
       THEN master.restarts = max_restarts + 1 /\ Len(process) = num_processes + max_restarts
       ELSE master.restarts <= max_restarts /\ Len(process) = master.next + master.restarts
    /\ master.phase = "exited" => master.children = {}

ForksInv == ForksTypeOK /\ ChildrenKnown /\ OwnIds /\ ForksCounted

LEMMA ForksAttend == ForksInv => TasksAttended
<1> SUFFICES ASSUME ForksInv PROVE TasksAttended
  OBVIOUS
<1>0. Forks!Pids = 1 .. Len(process)
  BY DEF ForksInv, ForksTypeOK, Forks!Pids
<1>1. \A pid \in Forks!Pids : process[pid].state # "reaped" => pid \in master.children
  BY <1>0 DEF ForksInv, ChildrenKnown
<1>2. master.phase = "exited" => \A pid \in Forks!Pids : process[pid].state = "reaped"
  BY <1>1 DEF ForksInv, ForksCounted
<1>3. master.phase = "gaveUp" => Len(process) = num_processes + max_restarts
  BY DEF ForksInv, ForksCounted
<1>4. \A id \in Forks!TaskIds : \A p, q \in Forks!Unreaped(id) : p = q
  BY <1>0, <1>1 DEF ForksInv, OwnIds, Forks!Unreaped
<1> QED
  BY <1>1, <1>2, <1>3, <1>4 DEF TasksAttended, Forks!TasksAttended

LEMMA ForksBegin == Forks!ForkInit => ForksInv
BY ProcessCounts DEF Forks!ForkInit, ForksInv, ForksTypeOK, ChildrenKnown, OwnIds, ForksCounted

\* A process is added, whatever became of those there are.
LEMMA OneMore ==
    ASSUME NEW procs \in Seq(Task), NEW id \in Nat
    PROVE  LET more == Append(procs, [id |-> id, state |-> "running"])
           IN  /\ more \in Seq(Task) /\ Len(more) = Len(procs) + 1
               /\ \A p \in 1 .. Len(procs) : more[p] = procs[p]
               /\ more[Len(procs) + 1].id = id /\ more[Len(procs) + 1].state = "running"
<1> DEFINE task == [id |-> id, state |-> "running"]
<1>1. task \in Task /\ task.id = id /\ task.state = "running"
  BY DEF Task, Ending
<1> HIDE DEF task
<1>2. /\ Append(procs, task) \in Seq(Task) /\ Len(Append(procs, task)) = Len(procs) + 1
      /\ \A p \in 1 .. Len(procs) : Append(procs, task)[p] = procs[p]
      /\ Append(procs, task)[Len(procs) + 1] = task
  BY <1>1
<1> QED
  BY <1>1, <1>2 DEF task

\* One process changes how it is.
LEMMA OneChanges ==
    ASSUME process \in Seq(Task), NEW pid \in 1 .. Len(process), NEW how \in Ending
    PROVE  LET now == [process EXCEPT ![pid].state = how]
           IN  /\ now \in Seq(Task) /\ Len(now) = Len(process)
               /\ \A p \in 1 .. Len(process) : p # pid => now[p] = process[p]
               /\ now[pid].id = process[pid].id /\ now[pid].state = how
<1> DEFINE task == [process[pid] EXCEPT !.state = how]
<1>1. process[pid] \in Task
  OBVIOUS
<1>2. task \in Task /\ task.id = process[pid].id /\ task.state = how
  BY <1>1 DEF Task
<1>3. [process EXCEPT ![pid].state = how] = [process EXCEPT ![pid] = task]
  OBVIOUS
<1> HIDE DEF task
<1>4. /\ [process EXCEPT ![pid] = task] \in Seq(Task)
      /\ Len([process EXCEPT ![pid] = task]) = Len(process)
      /\ \A p \in 1 .. Len(process) : p # pid => [process EXCEPT ![pid] = task][p] = process[p]
      /\ [process EXCEPT ![pid] = task][pid] = task
  BY <1>2
<1> QED
  BY <1>2, <1>3, <1>4

LEMMA ForkKeeps == ForksInv /\ Forks!Fork => ForksInv'
<1> SUFFICES ASSUME ForksInv, Forks!Fork PROVE ForksInv'
  OBVIOUS
<1>1. CASE master.next = num_processes
  <2>1. /\ master.phase = "forking" /\ master' = [master EXCEPT !.phase = "waiting"]
        /\ process' = process
    BY <1>1 DEF Forks!Fork
  <2> QED
    BY <1>1, <2>1, ProcessCounts
       DEF ForksInv, ForksTypeOK, ChildrenKnown, OwnIds, ForksCounted
<1>2. CASE master.next # num_processes
  <2>1. /\ process' = Append(process, [id |-> master.next, state |-> "running"])
        /\ master' = [master EXCEPT !.next = @ + 1, !.children = @ \cup {Len(process) + 1}]
        /\ master.phase = "forking"
    BY <1>2 DEF Forks!Fork, Forks!StartChild
  <2>2. process \in Seq(Task) /\ master.next \in Nat
    BY DEF ForksInv, ForksTypeOK
  <2>3. /\ Len(process') = Len(process) + 1 /\ process' \in Seq(Task)
        /\ \A p \in 1 .. Len(process) : process'[p] = process[p]
        /\ process'[Len(process) + 1].id = master.next
        /\ process'[Len(process) + 1].state = "running"
    BY <2>1, <2>2, OneMore
  <2>4. ForksTypeOK'
    <3>1. master.children \cup {Len(process) + 1} \in SUBSET Nat /\ master.next + 1 \in Nat
      BY <2>2 DEF ForksInv, ForksTypeOK
    <3> QED
      BY <2>1, <2>3, <3>1 DEF ForksInv, ForksTypeOK
  <2>5. ChildrenKnown'
    BY <2>1, <2>2, <2>3 DEF ForksInv, ForksTypeOK, ChildrenKnown
  <2>6. OwnIds'
    BY <2>1, <2>2, <2>3 DEF ForksInv, ForksTypeOK, ChildrenKnown, OwnIds, ForksCounted
  <2>7. ForksCounted'
    <3>1. /\ master'.next = master.next + 1 /\ master'.restarts = master.restarts
          /\ master'.phase = "forking"
      BY <2>1 DEF ForksInv, ForksTypeOK
    <3>2. ASSUME NEW p \in 1 .. Len(process') PROVE process'[p].id < master'.next
      <4>1. CASE p = Len(process) + 1
        BY <2>2, <2>3, <3>1, <4>1
      <4>2. CASE p \in 1 .. Len(process)
        <5>1. process[p].id < master.next /\ process[p] \in Task
          BY <2>2, <4>2 DEF ForksInv, ForksCounted
        <5>2. process'[p].id = process[p].id /\ process[p].id \in Nat
          BY <2>3, <4>2, <5>1 DEF Task
        <5> QED
          BY <2>2, <3>1, <5>1, <5>2
      <4> QED
        BY <2>2, <2>3, <4>1, <4>2
    <3> QED
      BY <1>2, <2>1, <2>2, <2>3, <3>1, <3>2, ProcessCounts DEF ForksInv, ForksCounted
  <2> QED
    BY <2>4, <2>5, <2>6, <2>7 DEF ForksInv
<1> QED
  BY <1>1, <1>2

LEMMA EndsKeeps == ASSUME ForksInv, NEW pid \in Forks!Pids, Forks!Ends(pid) PROVE ForksInv'
<1>1. PICK how \in {"clean", "failed"} : process' = [process EXCEPT ![pid].state = how]
  BY DEF Forks!Ends
<1>2. /\ process[pid].state = "running" /\ master' = master
      /\ pid \in 1 .. Len(process) /\ process \in Seq(Task)
  BY DEF Forks!Ends, Forks!Pids, ForksInv, ForksTypeOK
<1>3. /\ Len(process') = Len(process) /\ process' \in Seq(Task)
      /\ \A p \in 1 .. Len(process) : p # pid => process'[p] = process[p]
      /\ process'[pid].id = process[pid].id /\ process'[pid].state = how
  <2>1. how \in Ending
    BY DEF Ending
  <2> QED
    BY <1>1, <1>2, <2>1, OneChanges
<1>4. \A p \in 1 .. Len(process) :
        process'[p].id = process[p].id /\ (process'[p].state # "reaped" <=> process[p].state # "reaped")
  BY <1>2, <1>3
<1>5. ForksTypeOK'
  BY <1>2, <1>3 DEF ForksInv, ForksTypeOK
<1>6. ChildrenKnown' /\ OwnIds'
  BY <1>2, <1>3, <1>4 DEF ForksInv, ChildrenKnown, OwnIds
<1>7. ForksCounted'
  BY <1>2, <1>3, <1>4 DEF ForksInv, ForksCounted
<1> QED
  BY <1>5, <1>6, <1>7 DEF ForksInv

LEMMA WaitKeeps == ASSUME ForksInv, NEW pid \in Forks!Pids, Forks!Wait(pid) PROVE ForksInv'
<1> DEFINE reaped == [process EXCEPT ![pid].state = "reaped"]
           m == [master EXCEPT !.children = @ \ {pid}]
<1>1. /\ pid \in 1 .. Len(process) /\ pid \in master.children /\ process \in Seq(Task)
      /\ master.phase = "waiting"
  BY DEF Forks!Wait, Forks!Pids, ForksInv, ForksTypeOK
<1>2. /\ Len(reaped) = Len(process) /\ reaped \in Seq(Task)
      /\ \A p \in 1 .. Len(process) : p # pid => reaped[p] = process[p]
      /\ reaped[pid].id = process[pid].id /\ reaped[pid].state = "reaped"
  BY <1>1, OneChanges DEF Ending
<1>3. CASE /\ master' = [m EXCEPT !.phase = IF m.children = {} THEN "exited" ELSE @]
           /\ process' = reaped
  <2> HIDE DEF reaped
  <2>1. ForksTypeOK'
    BY <1>1, <1>2, <1>3 DEF ForksInv, ForksTypeOK
  <2>2. /\ master'.children = master.children \ {pid} /\ master'.restarts = master.restarts
        /\ master'.next = master.next
        /\ master'.phase = IF master.children \ {pid} = {} THEN "exited" ELSE "waiting"
    BY <1>1, <1>3 DEF ForksInv, ForksTypeOK
  <2>3. ChildrenKnown' /\ OwnIds'
    BY <1>1, <1>2, <1>3, <2>2 DEF ForksInv, ChildrenKnown, OwnIds
  <2>4. ForksCounted'
    BY <1>1, <1>2, <1>3, <2>1, <2>2 DEF ForksInv, ForksCounted
  <2> QED
    BY <2>1, <2>3, <2>4 DEF ForksInv
<1>4. CASE /\ master.restarts < max_restarts
           /\ master' = [m EXCEPT !.restarts = @ + 1, !.children = @ \cup {Len(process) + 1}]
           /\ process' = Append(reaped, [id |-> process[pid].id, state |-> "running"])
  <2> HIDE DEF reaped
  <2>0. process[pid].id \in Nat
    <3>1. process[pid] \in Task
      BY <1>1
    <3> QED
      BY <3>1 DEF Task
  <2>1. /\ Len(process') = Len(process) + 1 /\ process' \in Seq(Task)
        /\ \A p \in 1 .. Len(process) : process'[p] = reaped[p]
        /\ process'[Len(process) + 1].id = process[pid].id
        /\ process'[Len(process) + 1].state = "running"
    BY <1>2, <1>4, <2>0, OneMore
  <2>2. ForksTypeOK'
    <3>1. /\ (master.children \ {pid}) \cup {Len(process) + 1} \in SUBSET Nat
          /\ master.restarts + 1 \in Nat
      BY <1>1 DEF ForksInv, ForksTypeOK
    <3> QED
      BY <1>4, <2>1, <3>1 DEF ForksInv, ForksTypeOK
  <2>3. /\ master'.children = (master.children \ {pid}) \cup {Len(process) + 1}
        /\ master'.restarts = master.restarts + 1
        /\ master'.next = master.next /\ master'.phase = master.phase
    BY <1>4 DEF ForksInv, ForksTypeOK
  <2>4. ChildrenKnown'
    <3>1. master'.children \subseteq 1 .. Len(process')
      BY <1>1, <2>1, <2>3 DEF ForksInv, ChildrenKnown
    <3>2. \A p \in 1 .. Len(process) : p \in master'.children <=> process'[p].state # "reaped"
      BY <1>1, <1>2, <2>1, <2>3 DEF ForksInv, ChildrenKnown
    <3>3. /\ Len(process) + 1 \in master'.children
          /\ process'[Len(process) + 1].state # "reaped"
      BY <2>1, <2>3
    <3>4. \A p \in 1 .. Len(process') : p \in 1 .. Len(process) \/ p = Len(process) + 1
      BY <1>1, <2>1
    <3> QED
      BY <3>1, <3>2, <3>3, <3>4 DEF ChildrenKnown
  <2>5. OwnIds'
    BY <1>1, <1>2, <2>1, <2>3 DEF ForksInv, ChildrenKnown, OwnIds
  <2>6. ForksCounted'
    <3>1. ASSUME NEW p \in 1 .. Len(process') PROVE process'[p].id < master'.next
      <4>1. \A q \in 1 .. Len(process) : process[q].id < master.next
        BY DEF ForksInv, ForksCounted
      <4>2. CASE p = Len(process) + 1
        BY <1>1, <2>1, <2>3, <4>1, <4>2
      <4>3. CASE p \in 1 .. Len(process)
        <5>1. process'[p].id = process[p].id
          BY <1>2, <2>1, <4>3
        <5> QED
          BY <2>3, <4>1, <4>3, <5>1
      <4> QED
        BY <1>1, <2>1, <4>2, <4>3
    <3>2. /\ master.next = num_processes /\ master.restarts \in Nat
          /\ Len(process) = master.next + master.restarts
      BY <1>1 DEF ForksInv, ForksTypeOK, ForksCounted
    <3>3. master'.restarts <= max_restarts /\ Len(process') = master'.next + master'.restarts
      BY <1>4, <2>1, <2>3, <3>2, ProcessCounts
    <3> QED
      BY <1>1, <2>3, <3>1, <3>2, <3>3, ProcessCounts DEF ForksCounted
  <2> QED
    BY <2>2, <2>4, <2>5, <2>6 DEF ForksInv
<1>5. CASE /\ master.restarts = max_restarts
           /\ master' = [m EXCEPT !.restarts = @ + 1, !.phase = "gaveUp"]
           /\ process' = reaped
  <2> HIDE DEF reaped
  <2>1. /\ master'.children = master.children \ {pid} /\ master'.restarts = master.restarts + 1
        /\ master'.next = master.next /\ master'.phase = "gaveUp"
    BY <1>5 DEF ForksInv, ForksTypeOK
  <2>2. ForksTypeOK'
    <3>1. master.children \ {pid} \in SUBSET Nat /\ master.restarts + 1 \in Nat
      BY DEF ForksInv, ForksTypeOK
    <3> QED
      BY <1>2, <1>5, <3>1 DEF ForksInv, ForksTypeOK
  <2>3. ChildrenKnown' /\ OwnIds'
    BY <1>1, <1>2, <1>5, <2>1 DEF ForksInv, ChildrenKnown, OwnIds
  <2>4. ForksCounted'
    BY <1>1, <1>2, <1>5, <2>1, <2>2, ProcessCounts DEF ForksInv, ForksTypeOK, ForksCounted
  <2> QED
    BY <2>2, <2>3, <2>4 DEF ForksInv
<1> QED
  BY <1>1, <1>3, <1>4, <1>5 DEF Forks!Wait, Forks!ChildId

LEMMA ForksKept == ForksInv /\ [Forks!ForkNext]_processVars => ForksInv'
<1> SUFFICES ASSUME ForksInv, [Forks!ForkNext]_processVars PROVE ForksInv'
  OBVIOUS
<1>1. CASE UNCHANGED processVars
  BY <1>1 DEF processVars, ForksInv, ForksTypeOK, ChildrenKnown, OwnIds, ForksCounted
<1> QED
  BY <1>1, ForkKeeps, EndsKeeps, WaitKeeps DEF Forks!ForkNext

(* No task id ever has two processes, the map of children is of those that *)
(* run, and the master gives up exactly after max_restarts restarts, for   *)
(* any number of processes and restarts.                                   *)
THEOREM TasksAlwaysAttended == ServicesSpec => []TasksAttended
<1>1. ServicesInit => ForksInv
  BY ForksBegin DEF ServicesInit
<1>2. ForksInv /\ [ServicesNext]_servicesVars => ForksInv'
  BY ForksKept, PartsAlone
<1> QED
  BY <1>1, <1>2, ForksAttend, PTL DEF ServicesSpec

-----------------------------------------------------------------------------
(* BlacklistService: what was answered with 200 is done.                   *)

Done(d) == d \div NodeCount \in listed[d % NodeCount]

Outcomes == {"in", "out", "open"}
Command == [node : Service!Nodes, op : {"blacklist", "whitelist", "clear"}, id : Int]
ServiceTypeOK ==
    /\ loaded \in [Service!Nodes -> BOOLEAN]
    /\ listed \in [Service!Nodes -> SUBSET Int] /\ saved \in [Service!Nodes -> SUBSET Int]
    /\ request \in [op : {"none", "add", "del", "clear"}, docid : Int, commands : Seq(Command),
                    about : SUBSET DocIds]
    /\ outcome \in [DocIds -> Outcomes] /\ dumped \in [DocIds -> Outcomes]

Sends(commands, n) == \E i \in DOMAIN commands : commands[i].node = n

\* Commands of a clear are sent to the nodes in order: those of the first k are sent.
Cleared(k) == [i \in 1 .. NodeCount - k |-> [node |-> k + i - 1, op |-> "clear", id |-> 0]]
InTurn ==
    /\ request.op = "add" => request.commands \in {<<>>, Service!One(request.docid, "blacklist")}
    /\ request.op = "del" => request.commands \in {<<>>, Service!One(request.docid, "whitelist")}
    /\ request.op = "clear" => \E k \in 0 .. NodeCount : request.commands = Cleared(k)

\* What a request will tell about is open, and is all that it has still to change.
RequestOpen ==
    IF request.op = "none" THEN request = Service!Waiting
    ELSE /\ request.docid \in DocIds
         /\ request.about \subseteq Service!About(request.op, request.docid)
         /\ \A d \in request.about : outcome[d] = "open"
         /\ \A d \in Service!About(request.op, request.docid) :
               Sends(request.commands, d % NodeCount) => d \in request.about

\* A node to which the command has been sent has obeyed it, if it has a blacklist.
CommandsObeyed ==
    \A d \in request.about :
        loaded[d % NodeCount] /\ ~Sends(request.commands, d % NodeCount)
            => (Done(d) <=> request.op = "add")

\* What is known of a docid agrees with a set of ids of its node.
Agrees(o, d, ids) ==
    (o = "in" => d \div NodeCount \in ids) /\ (o = "out" => d \div NodeCount \notin ids)
FilesAgree == \A d \in DocIds : Agrees(dumped[d], d, saved[d % NodeCount])

ServiceInv ==
    ServiceTypeOK /\ InTurn /\ RequestOpen /\ CommandsObeyed /\ FilesAgree /\ AnsweredIsDone

LEMMA AnswersAgree ==
    AnsweredIsDone <=> \A d \in DocIds : loaded[d % NodeCount] =>
                            Agrees(outcome[d], d, listed[d % NodeCount])
BY DEF AnsweredIsDone, Service!AnsweredIsDone, Agrees

LEMMA AnswersWillAgree ==
    AnsweredIsDone' <=> \A d \in DocIds : loaded'[d % NodeCount] =>
                             Agrees(outcome'[d], d, listed'[d % NodeCount])
BY DEF AnsweredIsDone, Service!AnsweredIsDone, Agrees

\* A docid is known by its node and its id there.
LEMMA DocidsDiffer ==
    ASSUME NEW d \in DocIds, NEW e \in DocIds,
           d % NodeCount = e % NodeCount, d \div NodeCount = e \div NodeCount
    PROVE  d = e
<1>1. d \in Int /\ e \in Int /\ NodeCount \in Nat /\ NodeCount > 0
  BY SizesAssumption
<1> QED
  BY <1>1

LEMMA NodesCounted == NodeCount \in Nat /\ NodeCount > 0
BY SizesAssumption

LEMMA DocidsHaveNodes ==
    \A d \in DocIds : d \in Int /\ d % NodeCount \in Service!Nodes /\ d \div NodeCount \in Int
BY SizesAssumption DEF Service!Nodes

LEMMA CommandsTyped ==
    \A op \in {"add", "del", "clear"}, d \in DocIds : Service!Commands(op, d) \in Seq(Command)
<1> SUFFICES ASSUME NEW op \in {"add", "del", "clear"}, NEW d \in DocIds
             PROVE Service!Commands(op, d) \in Seq(Command)
  OBVIOUS
<1>1. ASSUME NEW o \in {"blacklist", "whitelist"} PROVE Service!One(d, o) \in Seq(Command)
  <2>1. [node |-> d % NodeCount, op |-> o, id |-> d \div NodeCount] \in Command
    BY DocidsHaveNodes DEF Command
  <2> QED
    BY <2>1 DEF Service!One, Service!NodeOf, Service!RealDocId
<1>2. Service!All \in Seq(Command)
  <2>1. \A i \in 1 .. NodeCount : [node |-> i - 1, op |-> "clear", id |-> 0] \in Command
    BY NodesCounted DEF Command, Service!Nodes
  <2> QED
    BY <2>1, NodesCounted DEF Service!All
<1> QED
  BY <1>1, <1>2 DEF Service!Commands

LEMMA ServiceBegins == Service!ServiceInit => ServiceInv
<1> SUFFICES ASSUME Service!ServiceInit PROVE ServiceInv
  OBVIOUS
<1>1. /\ loaded \in [Service!Nodes -> BOOLEAN]
      /\ listed = [n \in Service!Nodes |-> {}] /\ saved = listed
      /\ request = Service!Waiting /\ outcome = [d \in DocIds |-> "out"] /\ dumped = outcome
  BY DEF Service!ServiceInit
<1>2. ServiceTypeOK /\ InTurn /\ RequestOpen /\ CommandsObeyed
  BY <1>1 DEF ServiceTypeOK, Outcomes, InTurn, RequestOpen, CommandsObeyed, Service!Waiting
<1>3. FilesAgree /\ AnsweredIsDone
  BY <1>1, DocidsHaveNodes, AnswersAgree DEF FilesAgree, Agrees
<1> QED
  BY <1>2, <1>3 DEF ServiceInv

\* Who is sent a command.
LEMMA SentByOne ==
    \A d, o, n : Sends(Service!One(d, o), n) <=> n = d % NodeCount
BY DEF Sends, Service!One, Service!NodeOf

LEMMA SentByCleared ==
    ASSUME NEW k \in 0 .. NodeCount, NEW n \in Service!Nodes
    PROVE  Sends(Cleared(k), n) <=> n >= k
<1>1. n \in Nat /\ n < NodeCount /\ k \in Nat
  BY NodesCounted DEF Service!Nodes
<1>2. DOMAIN Cleared(k) = 1 .. NodeCount - k
  BY DEF Cleared
<1>3. \A i \in 1 .. NodeCount - k : Cleared(k)[i].node = k + i - 1
  BY DEF Cleared
<1>4. ASSUME n >= k PROVE Sends(Cleared(k), n)
  <2>1. n - k + 1 \in 1 .. NodeCount - k /\ k + (n - k + 1) - 1 = n
    BY <1>1, <1>4, NodesCounted
  <2> QED
    BY <1>2, <1>3, <2>1 DEF Sends
<1>5. ASSUME Sends(Cleared(k), n) PROVE n >= k
  <2>1. PICK i \in 1 .. NodeCount - k : Cleared(k)[i].node = n
    BY <1>2, <1>5 DEF Sends
  <2>2. n = k + i - 1
    BY <1>3, <2>1
  <2> QED
    BY <1>1, <2>1, <2>2
<1> QED
  BY <1>4, <1>5

LEMMA GetKeeps ==
    ASSUME ServiceInv, NEW op \in {"add", "del", "clear"}, NEW d \in DocIds, Service!Get(op, d)
    PROVE  ServiceInv'
<1>1. /\ request' = [op |-> op, docid |-> d, commands |-> Service!Commands(op, d),
                     about |-> Service!About(op, d)]
      /\ outcome' = [e \in DocIds |-> IF e \in Service!About(op, d) THEN "open" ELSE outcome[e]]
      /\ UNCHANGED <<loaded, listed, saved, dumped>>
  BY DEF Service!Get
<1>2. /\ request'.op = op /\ request'.docid = d
      /\ request'.commands = Service!Commands(op, d) /\ request'.about = Service!About(op, d)
  BY <1>1
<1>3. Service!About(op, d) \subseteq DocIds
  BY DEF Service!About
<1>4. ServiceTypeOK'
  BY <1>1, <1>3, CommandsTyped, DocidsHaveNodes DEF ServiceInv, ServiceTypeOK, Outcomes
<1>5. RequestOpen'
  <2>1. \A e \in Service!About(op, d) : outcome'[e] = "open"
    BY <1>1, <1>3
  <2> QED
    BY <1>2, <2>1 DEF RequestOpen
<1>6. InTurn' /\ \A e \in Service!About(op, d) : Sends(Service!Commands(op, d), e % NodeCount)
  <2>1. CASE op = "clear"
    <3>1. Service!Commands(op, d) = Cleared(0) /\ 0 \in 0 .. NodeCount
      BY <2>1, NodesCounted DEF Service!Commands, Service!All, Cleared
    <3>2. \A e \in DocIds : e % NodeCount >= 0
      BY DocidsHaveNodes, NodesCounted DEF Service!Nodes
    <3> QED
      BY <1>2, <1>3, <2>1, <3>1, <3>2, DocidsHaveNodes, SentByCleared DEF InTurn
  <2>2. CASE op # "clear"
    <3>1. Service!About(op, d) = {d}
      BY <2>2 DEF Service!About
    <3>2. Service!Commands(op, d) = Service!One(d, IF op = "add" THEN "blacklist" ELSE "whitelist")
      BY <2>2 DEF Service!Commands
    <3> QED
      BY <1>2, <2>2, <3>1, <3>2, SentByOne DEF InTurn
  <2> QED
    BY <2>1, <2>2
<1>7. CommandsObeyed'
  BY <1>2, <1>6 DEF CommandsObeyed
<1>8. FilesAgree' /\ AnsweredIsDone'
  BY <1>1, AnswersAgree DEF ServiceInv, FilesAgree, AnsweredIsDone, Service!AnsweredIsDone
<1> QED
  BY <1>4, <1>5, <1>6, <1>7, <1>8 DEF ServiceInv

\* The next command, and those behind it.
LEMMA NextCommand ==
    ASSUME ServiceInv, request.commands # <<>>,
           NEW c, c = Head(request.commands), NEW rest, rest = Tail(request.commands)
    PROVE  /\ request.op \in {"add", "del", "clear"} /\ c.node \in Service!Nodes
           /\ request.op = "add" =>
                 c.op = "blacklist" /\ c.node = request.docid % NodeCount
                 /\ c.id = request.docid \div NodeCount /\ rest = <<>>
           /\ request.op = "del" =>
                 c.op = "whitelist" /\ c.node = request.docid % NodeCount
                 /\ c.id = request.docid \div NodeCount /\ rest = <<>>
           /\ request.op = "clear" =>
                 c.op = "clear" /\ \E k \in 0 .. NodeCount : rest = Cleared(k)
           /\ \A n \in Service!Nodes :
                 Sends(request.commands, n) <=> n = c.node \/ Sends(rest, n)
           /\ ~Sends(rest, c.node)
<1>1. /\ request.op \in {"add", "del", "clear"} /\ request.docid \in DocIds
      /\ request.op # "clear" => request.docid % NodeCount \in Service!Nodes
  BY DocidsHaveNodes DEF ServiceInv, ServiceTypeOK, RequestOpen, Service!Waiting
<1>2. CASE request.op \in {"add", "del"}
  <2>1. PICK o \in {"blacklist", "whitelist"} :
            /\ request.commands = Service!One(request.docid, o)
            /\ o = IF request.op = "add" THEN "blacklist" ELSE "whitelist"
    BY <1>2 DEF ServiceInv, InTurn
  <2>2. /\ c = [node |-> request.docid % NodeCount, op |-> o, id |-> request.docid \div NodeCount]
        /\ rest = <<>>
    BY <2>1 DEF Service!One, Service!NodeOf, Service!RealDocId
  <2>3. c.node = request.docid % NodeCount /\ c.op = o /\ c.id = request.docid \div NodeCount
    BY <2>2
  <2>4. \A n : ~Sends(rest, n)
    BY <2>2 DEF Sends
  <2>5. \A n : Sends(request.commands, n) <=> n = request.docid % NodeCount
    BY <2>1, SentByOne
  <2> QED
    BY <1>1, <1>2, <2>1, <2>2, <2>3, <2>4, <2>5
<1>3. CASE request.op = "clear"
  <2>1. PICK k \in 0 .. NodeCount : request.commands = Cleared(k)
    BY <1>3 DEF ServiceInv, InTurn
  <2>2. k < NodeCount
    BY <2>1, NodesCounted DEF Cleared
  <2>3. c = [node |-> k, op |-> "clear", id |-> 0]
    BY <2>1, <2>2, NodesCounted DEF Cleared
  <2>4. c.node = k /\ c.op = "clear" /\ k \in Service!Nodes /\ k + 1 \in 0 .. NodeCount
    BY <2>2, <2>3, NodesCounted DEF Service!Nodes
  <2>5. rest = Cleared(k + 1)
    BY <2>1, <2>2, NodesCounted DEF Cleared
  <2>6. \A n \in Service!Nodes : (Sends(request.commands, n) <=> n >= k) /\ (Sends(rest, n) <=> n >= k + 1)
    BY <2>1, <2>4, <2>5, SentByCleared
  <2>7. \A n \in Service!Nodes : (n >= k <=> n = k \/ n >= k + 1) /\ ~(k >= k + 1)
    BY <2>2, NodesCounted DEF Service!Nodes
  <2> QED
    BY <1>3, <2>4, <2>5, <2>6, <2>7
<1> QED
  BY <1>1, <1>2, <1>3

\* The node obeys the next command, whatever then becomes of its answer.
LEMMA ObeyedIsSound ==
    ASSUME ServiceInv, request.commands # <<>>, UNCHANGED <<loaded, outcome>>,
           NEW c, c = Head(request.commands), listed' = Service!Obeyed(c)
    PROVE  /\ AnsweredIsDone' /\ listed' \in [Service!Nodes -> SUBSET Int]
           /\ \A n \in Service!Nodes : n # c.node => listed'[n] = listed[n]
           /\ \A d \in request.about : loaded[c.node] /\ d % NodeCount = c.node
                  => (Done(d)' <=> request.op = "add")
<1> DEFINE q == request.docid
<1>1. PICK rest : rest = Tail(request.commands)
  OBVIOUS
<1>2. /\ request.op \in {"add", "del", "clear"} /\ c.node \in Service!Nodes
      /\ request.op = "add" => c.op = "blacklist" /\ c.node = q % NodeCount /\ c.id = q \div NodeCount
      /\ request.op = "del" => c.op = "whitelist" /\ c.node = q % NodeCount /\ c.id = q \div NodeCount
      /\ request.op = "clear" => c.op = "clear"
      /\ Sends(request.commands, c.node)
  BY <1>1, NextCommand
<1>3. /\ q \in DocIds /\ q \div NodeCount \in Int
      /\ request.about \subseteq Service!About(request.op, q)
      /\ request.about \subseteq DocIds
      /\ \A d \in Service!About(request.op, q) : d % NodeCount = c.node => d \in request.about
      /\ \A d \in request.about : outcome[d] = "open"
  BY <1>2, DocidsHaveNodes DEF ServiceInv, ServiceTypeOK, RequestOpen
<1>4. listed \in [Service!Nodes -> SUBSET Int] /\ loaded \in [Service!Nodes -> BOOLEAN]
  BY DEF ServiceInv, ServiceTypeOK
<1>5. /\ ~loaded[c.node] => listed' = listed
      /\ loaded[c.node] =>
            listed' = [listed EXCEPT ![c.node] =
                          IF request.op = "add" THEN @ \cup {q \div NodeCount}
                          ELSE IF request.op = "del" THEN @ \ {q \div NodeCount} ELSE {}]
  BY <1>2 DEF Service!Obeyed
<1> HIDE DEF q
<1>6. /\ listed' \in [Service!Nodes -> SUBSET Int]
      /\ \A n \in Service!Nodes : n # c.node => listed'[n] = listed[n]
  <2>1. PICK ids \in SUBSET Int : listed' = listed \/ listed' = [listed EXCEPT ![c.node] = ids]
    <3>1. listed[c.node] \in SUBSET Int
      BY <1>2, <1>4
    <3> QED
      BY ZenonT(40), <1>3, <1>5, <3>1
  <2> QED
    BY <1>2, <1>4, <2>1
<1>7. ASSUME NEW d \in DocIds, d \in request.about, loaded[c.node], d % NodeCount = c.node
      PROVE  Done(d)' <=> request.op = "add"
  <2>1. request.op \in {"add", "del"} => d = q
    BY <1>3, <1>7 DEF Service!About
  <2> QED
    BY ZenonT(40), <1>2, <1>4, <1>5, <1>7, <2>1 DEF Done
<1>8. ASSUME NEW d \in DocIds, d \notin request.about
      PROVE  listed'[d % NodeCount] = listed[d % NodeCount] \/ (Done(d)' <=> Done(d))
  <2>1. CASE d % NodeCount # c.node \/ ~loaded[c.node]
    BY <1>5, <1>6, <2>1, DocidsHaveNodes
  <2>2. CASE d % NodeCount = c.node /\ loaded[c.node]
    <3>1. request.op # "clear" /\ d # q
      BY <1>3, <1>8, <2>2 DEF Service!About
    <3>2. q % NodeCount = c.node
      BY <1>2, <3>1
    <3>3. d \div NodeCount # q \div NodeCount
      BY <1>3, <2>2, <3>1, <3>2, DocidsDiffer
    <3>4. \/ listed' = [listed EXCEPT ![c.node] = @ \cup {q \div NodeCount}]
          \/ listed' = [listed EXCEPT ![c.node] = @ \ {q \div NodeCount}]
      BY <1>2, <1>5, <2>2, <3>1
    <3>5. \/ listed'[c.node] = listed[c.node] \cup {q \div NodeCount}
          \/ listed'[c.node] = listed[c.node] \ {q \div NodeCount}
      BY <1>2, <1>4, <3>4
    <3> QED
      BY <2>2, <3>3, <3>5 DEF Done
  <2> QED
    BY <2>1, <2>2
<1>9. AnsweredIsDone'
  <2> SUFFICES ASSUME NEW d \in DocIds, loaded[d % NodeCount]
               PROVE  Agrees(outcome[d], d, listed'[d % NodeCount])
    BY AnswersWillAgree
  <2>1. Agrees(outcome[d], d, listed[d % NodeCount])
    BY AnswersAgree DEF ServiceInv
  <2> QED
    BY <1>3, <1>8, <2>1 DEF Agrees, Done
<1> QED
  BY <1>3, <1>6, <1>7, <1>9

LEMMA UrlOpenKeeps == ServiceInv /\ Service!UrlOpen => ServiceInv'
<1> SUFFICES ASSUME ServiceInv, Service!UrlOpen PROVE ServiceInv'
  OBVIOUS
<1>1. /\ request.commands # <<>> /\ UNCHANGED <<loaded, saved, outcome, dumped>>
      /\ listed' = Service!Obeyed(Head(request.commands))
      /\ request' = [request EXCEPT !.commands = Tail(@)]
  BY DEF Service!UrlOpen
<1>2. /\ request'.op = request.op /\ request'.docid = request.docid
      /\ request'.commands = Tail(request.commands) /\ request'.about = request.about
  BY <1>1 DEF ServiceInv, ServiceTypeOK
<1>3. PICK c, rest : c = Head(request.commands) /\ rest = Tail(request.commands)
  OBVIOUS
<1>4. /\ AnsweredIsDone' /\ listed' \in [Service!Nodes -> SUBSET Int]
      /\ \A n \in Service!Nodes : n # c.node => listed'[n] = listed[n]
      /\ \A d \in request.about : loaded[c.node] /\ d % NodeCount = c.node
             => (Done(d)' <=> request.op = "add")
  BY <1>1, <1>3, ObeyedIsSound
<1>5. /\ request.op \in {"add", "del", "clear"}
      /\ request.op \in {"add", "del"} => rest = <<>>
      /\ request.op = "clear" => \E k \in 0 .. NodeCount : rest = Cleared(k)
      /\ \A n \in Service!Nodes : Sends(request.commands, n) <=> n = c.node \/ Sends(rest, n)
  BY <1>1, <1>3, NextCommand
<1>6. ServiceTypeOK'
  <2>1. Tail(request.commands) \in Seq(Command)
    BY <1>1 DEF ServiceInv, ServiceTypeOK
  <2> QED
    BY <1>1, <1>4, <2>1 DEF ServiceInv, ServiceTypeOK
<1>7. InTurn'
  BY <1>2, <1>3, <1>5 DEF InTurn
<1>8. request.about \subseteq DocIds /\ Service!About(request.op, request.docid) \subseteq DocIds
  BY <1>5 DEF ServiceInv, ServiceTypeOK, RequestOpen, Service!About
<1>9. RequestOpen'
  BY <1>1, <1>2, <1>3, <1>5, <1>8, DocidsHaveNodes DEF ServiceInv, RequestOpen
<1>10. CommandsObeyed'
  <2> SUFFICES ASSUME NEW d \in DocIds, d \in request.about, loaded[d % NodeCount],
                      ~Sends(rest, d % NodeCount)
               PROVE  Done(d)' <=> request.op = "add"
    BY <1>1, <1>2, <1>3, <1>8 DEF CommandsObeyed
  <2>1. CASE d % NodeCount = c.node
    BY <1>4, <2>1
  <2>2. CASE d % NodeCount # c.node
    BY <1>4, <1>5, <2>2, DocidsHaveNodes DEF ServiceInv, CommandsObeyed, Done
  <2> QED
    BY <2>1, <2>2
<1>11. FilesAgree'
  BY <1>1 DEF ServiceInv, FilesAgree
<1> QED
  BY <1>4, <1>6, <1>7, <1>9, <1>10, <1>11 DEF ServiceInv

LEMMA UrlOpenRaisesKeeps == ServiceInv /\ Service!UrlOpenRaises => ServiceInv'
<1> SUFFICES ASSUME ServiceInv, Service!UrlOpenRaises PROVE ServiceInv'
  OBVIOUS
<1>1. /\ request.commands # <<>> /\ UNCHANGED <<loaded, saved, outcome, dumped>>
      /\ request' = Service!Waiting
      /\ \/ listed' = listed
         \/ listed' = Service!Obeyed(Head(request.commands))
  BY DEF Service!UrlOpenRaises
<1>2. AnsweredIsDone' /\ listed' \in [Service!Nodes -> SUBSET Int]
  <2>1. CASE listed' = listed
    BY <1>1, <2>1 DEF ServiceInv, ServiceTypeOK, AnsweredIsDone, Service!AnsweredIsDone
  <2> QED
    BY <1>1, <2>1, ObeyedIsSound
<1>3. ServiceTypeOK' /\ InTurn' /\ RequestOpen' /\ CommandsObeyed'
  BY <1>1, <1>2 DEF ServiceInv, ServiceTypeOK, InTurn, RequestOpen, CommandsObeyed, Service!Waiting
<1>4. FilesAgree'
  BY <1>1 DEF ServiceInv, FilesAgree
<1> QED
  BY <1>2, <1>3, <1>4 DEF ServiceInv

LEMMA FinishKeeps == ServiceInv /\ Service!Finish => ServiceInv'
<1> SUFFICES ASSUME ServiceInv, Service!Finish PROVE ServiceInv'
  OBVIOUS
<1>1. /\ request.commands = <<>> /\ request' = Service!Waiting
      /\ outcome' = [e \in DocIds |-> IF e \notin request.about THEN outcome[e]
                                      ELSE IF request.op = "add" THEN "in" ELSE "out"]
      /\ UNCHANGED <<loaded, listed, saved, dumped>>
  BY DEF Service!Finish
<1>2. ServiceTypeOK' /\ InTurn' /\ RequestOpen' /\ CommandsObeyed'
  BY <1>1 DEF ServiceInv, ServiceTypeOK, Outcomes, InTurn, RequestOpen, CommandsObeyed, Service!Waiting
<1>3. \A n : ~Sends(request.commands, n)
  BY <1>1 DEF Sends
<1>4. ASSUME NEW d \in DocIds, loaded[d % NodeCount]
      PROVE  Agrees(outcome'[d], d, listed[d % NodeCount])
  <2>1. CASE d \notin request.about
    BY <1>1, <1>4, <2>1, AnswersAgree DEF ServiceInv
  <2>2. CASE d \in request.about
    <3>1. Done(d) <=> request.op = "add"
      BY <1>3, <1>4, <2>2 DEF ServiceInv, CommandsObeyed
    <3> QED
      BY <1>1, <2>2, <3>1 DEF Agrees, Done
  <2> QED
    BY <2>1, <2>2
<1>5. AnsweredIsDone' /\ FilesAgree'
  BY <1>1, <1>4, AnswersWillAgree DEF ServiceInv, FilesAgree
<1> QED
  BY <1>2, <1>5 DEF ServiceInv

LEMMA DumpKeeps == ASSUME ServiceInv, NEW n \in Service!Nodes, Service!Dump(n) PROVE ServiceInv'
<1>1. /\ loaded[n] /\ saved' = [saved EXCEPT ![n] = listed[n]]
      /\ dumped' = [d \in DocIds |-> IF d % NodeCount = n THEN outcome[d] ELSE dumped[d]]
      /\ UNCHANGED <<loaded, listed, request, outcome>>
  BY DEF Service!Dump, Service!OfNode, Service!NodeOf
<1>2. ServiceTypeOK' /\ InTurn' /\ RequestOpen' /\ CommandsObeyed' /\ AnsweredIsDone'
  BY <1>1 DEF ServiceInv, ServiceTypeOK, InTurn, RequestOpen, CommandsObeyed, Done,
              AnsweredIsDone, Service!AnsweredIsDone
<1>3. ASSUME NEW d \in DocIds PROVE Agrees(dumped'[d], d, saved'[d % NodeCount])
  <2>1. saved \in [Service!Nodes -> SUBSET Int] /\ d % NodeCount \in Service!Nodes
    BY DocidsHaveNodes DEF ServiceInv, ServiceTypeOK
  <2>2. CASE d % NodeCount = n
    BY <1>1, <2>1, <2>2, AnswersAgree DEF ServiceInv
  <2>3. CASE d % NodeCount # n
    BY <1>1, <2>1, <2>3 DEF ServiceInv, FilesAgree
  <2> QED
    BY <2>2, <2>3
<1> QED
  BY <1>2, <1>3 DEF ServiceInv, FilesAgree

\* A node starts with a file of which is known what agrees with it.
LEMMA StartsKeep ==
    ASSUME ServiceInv, NEW n \in Service!Nodes, NEW ids \in SUBSET Int,
           NEW news \in [DocIds -> Outcomes], Service!Starts(n, ids, news),
           \A d \in DocIds : d % NodeCount = n => Agrees(news[d], d, ids)
    PROVE  ServiceInv'
<1> DEFINE still == {d \in request.about : d % NodeCount = n => Sends(request.commands, n)}
<1>1. PICK has \in BOOLEAN :
          /\ loaded' = [loaded EXCEPT ![n] = has]
          /\ listed' = [listed EXCEPT ![n] = IF has THEN ids ELSE {}]
  BY DEF Service!Starts
<1>2. still = Service!StillAbout(n)
  BY DEF Service!StillAbout, Service!ToSend, Service!NodeOf, Sends
<1>3. /\ saved' = [saved EXCEPT ![n] = ids]
      /\ request' = [request EXCEPT !.about = still]
      /\ dumped' = [d \in DocIds |-> IF d % NodeCount = n THEN news[d] ELSE dumped[d]]
      /\ outcome' = [d \in DocIds |-> IF d % NodeCount = n
                                      THEN IF d \in still THEN "open" ELSE news[d]
                                      ELSE outcome[d]]
  BY <1>2 DEF Service!Starts, Service!OfNode, Service!NodeOf
<1>4. still \subseteq request.about
  OBVIOUS
<1>5. /\ request.about \subseteq DocIds
      /\ request'.op = request.op /\ request'.docid = request.docid
      /\ request'.commands = request.commands /\ request'.about = still
  BY <1>3 DEF ServiceInv, ServiceTypeOK
<1>6. /\ \A m \in Service!Nodes : m # n => loaded'[m] = loaded[m] /\ listed'[m] = listed[m]
      /\ loaded'[n] => listed'[n] = ids
  BY <1>1 DEF ServiceInv, ServiceTypeOK
<1>7. ServiceTypeOK'
  BY <1>1, <1>3, <1>4 DEF ServiceInv, ServiceTypeOK, Outcomes
<1>8. InTurn'
  BY <1>5 DEF ServiceInv, InTurn
<1>9. RequestOpen'
  <2>1. CASE request.op = "none"
    <3>1. request = Service!Waiting /\ still = {}
      BY <2>1 DEF ServiceInv, RequestOpen, Service!Waiting
    <3> QED
      BY <1>3, <2>1, <3>1 DEF RequestOpen, Service!Waiting
  <2>2. CASE request.op # "none"
    <3>1. \A d \in still : outcome'[d] = "open"
      BY <1>3, <1>4, <1>5, <2>2 DEF ServiceInv, RequestOpen
    <3>2. /\ request.docid \in DocIds /\ still \subseteq Service!About(request.op, request.docid)
          /\ \A d \in Service!About(request.op, request.docid) :
                Sends(request.commands, d % NodeCount) => d \in still
      BY <2>2 DEF ServiceInv, RequestOpen
    <3> QED
      BY <1>5, <2>2, <3>1, <3>2 DEF RequestOpen
  <2> QED
    BY <2>1, <2>2
<1>10. CommandsObeyed'
  <2> SUFFICES ASSUME NEW d \in still, loaded'[d % NodeCount],
                      ~Sends(request.commands, d % NodeCount)
               PROVE  Done(d)' <=> request.op = "add"
    BY <1>5 DEF CommandsObeyed
  <2>1. d \in request.about /\ d % NodeCount \in Service!Nodes /\ d % NodeCount # n
    BY <1>5, DocidsHaveNodes
  <2> QED
    BY <1>6, <2>1 DEF ServiceInv, CommandsObeyed, Done
<1>11. FilesAgree' /\ AnsweredIsDone'
  <2>1. ASSUME NEW d \in DocIds
        PROVE  /\ Agrees(dumped'[d], d, saved'[d % NodeCount])
               /\ loaded'[d % NodeCount] => Agrees(outcome'[d], d, listed'[d % NodeCount])
    <3>1. saved \in [Service!Nodes -> SUBSET Int] /\ d % NodeCount \in Service!Nodes
      BY DocidsHaveNodes DEF ServiceInv, ServiceTypeOK
    <3>2. CASE d % NodeCount = n
      <4>1. Agrees(news[d], d, ids) /\ Agrees("open", d, ids)
        BY <3>2 DEF Agrees
      <4> QED
        BY <1>3, <1>6, <3>1, <3>2, <4>1
    <3>3. CASE d % NodeCount # n
      <4>1. /\ Agrees(dumped[d], d, saved[d % NodeCount])
            /\ loaded[d % NodeCount] => Agrees(outcome[d], d, listed[d % NodeCount])
        BY AnswersAgree DEF ServiceInv, FilesAgree
      <4> QED
        BY <1>3, <1>6, <3>1, <3>3, <4>1
    <3> QED
      BY <3>2, <3>3
  <2> QED
    BY <2>1, AnswersWillAgree DEF FilesAgree
<1> QED
  BY <1>7, <1>8, <1>9, <1>10, <1>11 DEF ServiceInv

LEMMA NodeStarts ==
    ASSUME ServiceInv, NEW n \in Service!Nodes, Service!Restart(n) \/ Service!RestartFromPart(n)
    PROVE  ServiceInv'
<1>1. CASE Service!Restart(n)
  BY <1>1, StartsKeep DEF Service!Restart, ServiceInv, ServiceTypeOK, FilesAgree
<1>2. CASE Service!RestartFromPart(n)
  <2> DEFINE news == [d \in DocIds |-> IF outcome[d] = "out" THEN "out" ELSE "open"]
  <2>1. loaded[n] /\ \E part \in SUBSET listed[n] : Service!Starts(n, part, news)
    BY <1>2 DEF Service!RestartFromPart
  <2>2. PICK part \in SUBSET listed[n] : Service!Starts(n, part, news)
    BY <2>1
  <2>3. part \in SUBSET Int /\ news \in [DocIds -> Outcomes]
    BY DEF ServiceInv, ServiceTypeOK, Outcomes
  <2>4. \A d \in DocIds : d % NodeCount = n => Agrees(news[d], d, part)
    BY <2>1, <2>2, AnswersAgree DEF ServiceInv, Agrees
  <2> HIDE DEF news
  <2> QED
    BY <2>2, <2>3, <2>4, StartsKeep
<1> QED
  BY <1>1, <1>2

LEMMA ServiceKept == ServiceInv /\ [Service!ServiceNext]_serviceVars => ServiceInv'
<1> SUFFICES ASSUME ServiceInv, [Service!ServiceNext]_serviceVars PROVE ServiceInv'
  OBVIOUS
<1>1. CASE UNCHANGED serviceVars
  BY <1>1 DEF serviceVars, ServiceInv, ServiceTypeOK, InTurn, RequestOpen, CommandsObeyed, Done,
              FilesAgree, AnsweredIsDone, Service!AnsweredIsDone
<1> QED
  BY <1>1, GetKeeps, UrlOpenKeeps, UrlOpenRaisesKeeps, FinishKeeps, DumpKeeps, NodeStarts
     DEF Service!ServiceNext

(* What the service answered with 200 the node of the docid has done, if   *)
(* it has a blacklist, and neither a request about another docid undoes it *)
(* nor a restart after its dump, for any docids and nodes.                 *)
THEOREM AnsweredIsAlwaysDone == ServicesSpec => []AnsweredIsDone
<1>1. ServicesInit => ServiceInv
  BY ServiceBegins DEF ServicesInit
<1>2. ServiceInv /\ [ServicesNext]_servicesVars => ServiceInv'
  BY ServiceKept, PartsAlone
<1>3. ServiceInv => AnsweredIsDone
  BY DEF ServiceInv
<1> QED
  BY <1>1, <1>2, <1>3, PTL DEF ServicesSpec

-----------------------------------------------------------------------------
(* StaticFiles: an old copy is at most a second old.                       *)

StaticTypeOK ==
    /\ page \in [content : Nat, mtime : Nat]
    /\ written \in Seq(Nat) /\ Len(written) >= 1 /\ clock \in Nat
    /\ copy \in [content : Nat, modified : Nat]
    /\ get \in [step : {"none", "exists", "stat", "read"}, head : BOOLEAN,
                copy : [content : Nat, modified : Nat], modified : Nat]
    /\ sent \in [status : Nat, copy : [content : Nat, modified : Nat], content : Nat]

\* Contents are written one after the other, and the file has the last, if it is there.
WrittenInOrder ==
    /\ \A i, j \in 1 .. Len(written) : i <= j => written[i] <= written[j]
    /\ \A i \in 1 .. Len(written) : written[i] <= clock
    /\ page # Static!Gone =>
          page.content = Len(written) /\ page.mtime = written[Len(written)]

\* The content of a copy was in the file no earlier than the date it came with.
CopyDated(c) ==
    c # Static!NoCopy => c.content \in 1 .. Len(written) /\ c.modified <= written[c.content]

\* Between its stat and its read a request holds a date that the file has reached.
StaticInv ==
    /\ StaticTypeOK /\ WrittenInOrder
    /\ CopyDated(copy) /\ CopyDated(get.copy)
    /\ get.step = "read" => get.modified <= written[Len(written)]
    /\ sent.status = 304 =>
          sent.copy.content \in 1 .. Len(written) /\ sent.content \in 1 .. Len(written)
    /\ StaleWithinASecond

LEMMA StaticBegins == Static!StaticInit => StaticInv
BY DEF Static!StaticInit, StaticInv, StaticTypeOK, WrittenInOrder, CopyDated,
   StaleWithinASecond, Static!StaleWithinASecond, Static!Gone, Static!NoCopy, Static!None

LEMMA Times ==
    ASSUME StaticInv
    PROVE  /\ written \in Seq(Nat) /\ Len(written) \in Nat /\ Len(written) >= 1 /\ clock \in Nat
           /\ \A i \in 1 .. Len(written) : written[i] \in Nat /\ written[i] <= clock
           /\ \A i, j \in 1 .. Len(written) : i <= j => written[i] <= written[j]
<1>1. written \in Seq(Nat) /\ Len(written) >= 1 /\ clock \in Nat
  BY DEF StaticInv, StaticTypeOK
<1>2. /\ \A i, j \in 1 .. Len(written) : i <= j => written[i] <= written[j]
      /\ \A i \in 1 .. Len(written) : written[i] <= clock
  BY DEF StaticInv, WrittenInOrder
<1>3. Len(written) \in Nat /\ \A i \in 1 .. Len(written) : written[i] \in Nat
  BY <1>1
<1> QED
  BY <1>1, <1>2, <1>3

LEMMA EditKeeps == StaticInv /\ Static!Edit => StaticInv'
<1> SUFFICES ASSUME StaticInv, Static!Edit PROVE StaticInv'
  OBVIOUS
<1>1. /\ written' = Append(written, clock)
      /\ page' = [content |-> Len(written'), mtime |-> clock]
      /\ UNCHANGED <<clock, copy, get, sent>>
  BY DEF Static!Edit
<1>2. /\ written \in Seq(Nat) /\ Len(written) \in Nat /\ Len(written) >= 1 /\ clock \in Nat
      /\ \A i \in 1 .. Len(written) : written[i] \in Nat /\ written[i] <= clock
  BY Times
<1>3. /\ written' \in Seq(Nat) /\ Len(written') = Len(written) + 1
      /\ \A i \in 1 .. Len(written) : written'[i] = written[i]
      /\ written'[Len(written')] = clock
  BY <1>1, <1>2
<1>4. StaticTypeOK'
  <2>1. Len(written') \in Nat /\ Len(written') >= 1
    BY <1>2, <1>3
  <2>2. page' \in [content : Nat, mtime : Nat]
    BY <1>1, <1>2, <2>1
  <2> QED
    BY <1>1, <1>2, <1>3, <2>1, <2>2 DEF StaticInv, StaticTypeOK
<1>5. WrittenInOrder'
  <2>1. ASSUME NEW i \in 1 .. Len(written') PROVE written'[i] <= clock
    <3>1. i \in 1 .. Len(written) \/ i = Len(written')
      BY <1>2, <1>3
    <3>2. i \in 1 .. Len(written) => written'[i] <= clock
      BY <1>2, <1>3
    <3>3. clock <= clock
      BY <1>2
    <3> QED
      BY <1>3, <3>1, <3>2, <3>3
  <2>2. \A i, j \in 1 .. Len(written') : i <= j => written'[i] <= written'[j]
    <3> SUFFICES ASSUME NEW i \in 1 .. Len(written'), NEW j \in 1 .. Len(written'), i <= j
                 PROVE  written'[i] <= written'[j]
      OBVIOUS
    <3>1. CASE j = Len(written')
      BY <1>3, <2>1, <3>1
    <3>2. CASE j # Len(written')
      <4>1. i \in 1 .. Len(written) /\ j \in 1 .. Len(written)
        BY <1>2, <1>3, <3>2
      <4> QED
        BY <1>3, <4>1 DEF StaticInv, WrittenInOrder
    <3> QED
      BY <3>1, <3>2
  <2> QED
    BY <1>1, <1>3, <2>1, <2>2 DEF WrittenInOrder
<1>7. CopyDated(copy)' /\ CopyDated(get.copy)'
  <2>1. ASSUME NEW c, CopyDated(c)
        PROVE  c # Static!NoCopy => c.content \in 1 .. Len(written')
                                    /\ c.modified <= written'[c.content]
    <3>1. \A i \in 1 .. Len(written) : i \in 1 .. Len(written')
      BY <1>2, <1>3
    <3> QED
      BY <1>3, <2>1, <3>1 DEF CopyDated
  <2> QED
    BY <1>1, <2>1 DEF CopyDated, StaticInv
<1>8. get'.step = "read" => get'.modified <= written'[Len(written')]
  <2>1. written[Len(written)] <= clock /\ written[Len(written)] \in Nat
    BY <1>2
  <2>2. get.step = "read" => get.modified <= written[Len(written)]
    BY DEF StaticInv
  <2>3. get.modified \in Nat
    BY DEF StaticInv, StaticTypeOK
  <2> QED
    BY <1>1, <1>2, <1>3, <2>1, <2>2, <2>3
<1>9. StaleWithinASecond' /\ (sent'.status = 304 =>
          sent'.copy.content \in 1 .. Len(written') /\ sent'.content \in 1 .. Len(written'))
  BY <1>1, <1>2, <1>3 DEF StaticInv, StaleWithinASecond, Static!StaleWithinASecond
<1> QED
  BY <1>4, <1>5, <1>7, <1>8, <1>9 DEF StaticInv

\* The file stands still while a request is answered, or goes on.
LEMMA FileStands ==
    ASSUME StaticInv, UNCHANGED <<page, written, clock, copy>>
    PROVE  WrittenInOrder' /\ CopyDated(copy)' /\ (CopyDated(get.copy)' <=> CopyDated(get'.copy))
BY DEF StaticInv, WrittenInOrder, CopyDated

LEMMA AnsweredKeeps ==
    ASSUME StaticInv, UNCHANGED <<page, written, clock, copy>>, NEW status \in Nat \ {304},
           Static!Answered(status, 0)
    PROVE  StaticInv'
<1>1. /\ get' = Static!None
      /\ sent' = [status |-> status, copy |-> get.copy, content |-> 0]
  BY DEF Static!Answered
<1>2. StaticTypeOK'
  BY <1>1 DEF StaticInv, StaticTypeOK, Static!None, Static!NoCopy
<1>3. WrittenInOrder' /\ CopyDated(copy)'
  BY FileStands
<1>4. CopyDated(get.copy)' /\ get'.step # "read" /\ sent'.status # 304
  BY <1>1 DEF CopyDated, Static!None
<1> QED
  BY <1>2, <1>3, <1>4 DEF StaticInv, StaleWithinASecond, Static!StaleWithinASecond

LEMMA StatKeeps == DstShift = 0 /\ StaticInv /\ Static!Stat => StaticInv'
<1> SUFFICES ASSUME DstShift = 0, StaticInv, Static!Stat PROVE StaticInv'
  OBVIOUS
<1>1. get.step = "stat" /\ UNCHANGED <<page, written, clock, copy>>
  BY DEF Static!Stat
<1>2. CASE page = Static!Gone
  <2>1. Static!Answered(500, 0)
    BY <1>2 DEF Static!Stat
  <2> QED
    BY <1>1, <2>1, AnsweredKeeps
<1>3. CASE page # Static!Gone /\ Static!NotModified(get.copy, page.mtime)
  <2>1. /\ get' = Static!None
        /\ sent' = [status |-> 304, copy |-> get.copy, content |-> page.content]
    BY <1>3 DEF Static!Stat, Static!Answered
  <2>2. /\ get.copy # Static!NoCopy /\ get.copy.modified >= page.mtime
        /\ get.copy \in [content : Nat, modified : Nat]
    BY <1>3 DEF Static!NotModified, Static!IfSince, StaticInv, StaticTypeOK
  <2>3. page.content \in 1 .. Len(written) /\ page.mtime = written[page.content]
    <3>1. page.content = Len(written) /\ page.mtime = written[Len(written)]
      BY <1>3 DEF StaticInv, WrittenInOrder
    <3> QED
      BY <3>1, Times
  <2>4. get.copy.content \in 1 .. Len(written) /\ get.copy.modified <= written[get.copy.content]
    BY <2>2 DEF StaticInv, CopyDated
  <2>5. written[get.copy.content] >= written[page.content]
    <3>1. written[get.copy.content] \in Nat /\ written[page.content] \in Nat /\ get.copy.modified \in Nat
      BY <2>2, <2>3, <2>4, Times
    <3> QED
      BY <2>2, <2>3, <2>4, <3>1
  <2>6. StaleWithinASecond' /\ (sent'.status = 304 =>
          sent'.copy.content \in 1 .. Len(written') /\ sent'.content \in 1 .. Len(written'))
    BY <1>1, <2>1, <2>3, <2>4, <2>5 DEF StaleWithinASecond, Static!StaleWithinASecond
  <2>7. StaticTypeOK' /\ WrittenInOrder' /\ CopyDated(copy)' /\ CopyDated(get.copy)'
    BY <1>1, <2>1, <2>2, <2>3 DEF StaticInv, StaticTypeOK, WrittenInOrder, CopyDated, Static!None, Static!NoCopy
  <2> QED
    BY <2>1, <2>6, <2>7 DEF StaticInv, Static!None
<1>4. CASE page # Static!Gone /\ ~Static!NotModified(get.copy, page.mtime)
  <2>1. get' = [get EXCEPT !.step = "read", !.modified = page.mtime] /\ sent' = sent
    BY <1>4 DEF Static!Stat
  <2>2. StaticTypeOK' /\ get'.copy = get.copy /\ get'.modified = written[Len(written)]
    BY <1>1, <1>4, <2>1 DEF StaticInv, StaticTypeOK, WrittenInOrder
  <2>3. written[Len(written)] \in Nat
    BY Times
  <2>4. WrittenInOrder' /\ CopyDated(copy)' /\ CopyDated(get.copy)'
    BY <1>1, <2>2 DEF StaticInv, WrittenInOrder, CopyDated
  <2>5. StaleWithinASecond' /\ (sent'.status = 304 =>
          sent'.copy.content \in 1 .. Len(written') /\ sent'.content \in 1 .. Len(written'))
    BY <1>1, <2>1 DEF StaticInv, StaleWithinASecond, Static!StaleWithinASecond
  <2> QED
    BY <1>1, <2>2, <2>3, <2>4, <2>5 DEF StaticInv
<1> QED
  BY <1>2, <1>3, <1>4

LEMMA ReadKeeps == StaticInv /\ Static!Read => StaticInv'
<1> SUFFICES ASSUME StaticInv, Static!Read PROVE StaticInv'
  OBVIOUS
<1>1. get.step = "read" /\ get' = Static!None /\ UNCHANGED <<page, written, clock>>
  BY DEF Static!Read, Static!Answered
<1>2. sent' = [status |-> IF page = Static!Gone THEN 500 ELSE 200, copy |-> get.copy,
               content |-> IF page = Static!Gone THEN 0 ELSE page.content]
  BY DEF Static!Read, Static!Answered, Static!Gone
<1>3. CopyDated(copy)' /\ copy' \in [content : Nat, modified : Nat]
  <2>1. CASE copy' = copy
    BY <1>1, <2>1 DEF StaticInv, StaticTypeOK, CopyDated
  <2>2. CASE page # Static!Gone /\ copy' = [content |-> page.content, modified |-> get.modified]
    BY <1>1, <2>2 DEF StaticInv, StaticTypeOK, WrittenInOrder, CopyDated
  <2> QED
    BY <2>1, <2>2 DEF Static!Read
<1>4. StaticTypeOK' /\ WrittenInOrder' /\ CopyDated(get.copy)'
  BY <1>1, <1>2, <1>3 DEF StaticInv, StaticTypeOK, WrittenInOrder, CopyDated, Static!None, Static!NoCopy
<1>5. sent'.status # 304
  BY <1>2
<1> QED
  BY <1>1, <1>3, <1>4, <1>5 DEF StaticInv, Static!None, StaleWithinASecond, Static!StaleWithinASecond

LEMMA RemoveKeeps == StaticInv /\ Static!Remove => StaticInv'
<1> SUFFICES ASSUME StaticInv, Static!Remove PROVE StaticInv'
  OBVIOUS
<1>1. page' = Static!Gone /\ UNCHANGED <<written, clock, copy, get, sent>>
  BY DEF Static!Remove
<1> QED
  BY <1>1 DEF StaticInv, StaticTypeOK, WrittenInOrder, CopyDated, StaleWithinASecond,
     Static!StaleWithinASecond, Static!Gone

LEMMA TickKeeps == StaticInv /\ Static!Tick => StaticInv'
<1> SUFFICES ASSUME StaticInv, Static!Tick PROVE StaticInv'
  OBVIOUS
<1>1. clock' = clock + 1 /\ UNCHANGED <<page, written, copy, get, sent>>
  BY DEF Static!Tick
<1>2. StaticTypeOK'
  BY <1>1 DEF StaticInv, StaticTypeOK
<1>3. WrittenInOrder'
  <2>1. ASSUME NEW i \in 1 .. Len(written) PROVE written[i] <= clock + 1
    <3>1. written \in Seq(Nat) /\ clock \in Nat
      BY DEF StaticInv, StaticTypeOK
    <3>2. written[i] <= clock
      BY DEF StaticInv, WrittenInOrder
    <3> QED
      BY <3>1, <3>2
  <2> QED
    BY <1>1, <2>1 DEF StaticInv, WrittenInOrder
<1> QED
  BY <1>1, <1>2, <1>3 DEF StaticInv, CopyDated, StaleWithinASecond, Static!StaleWithinASecond

LEMMA ExistsKeeps == StaticInv /\ Static!Exists => StaticInv'
<1> SUFFICES ASSUME StaticInv, Static!Exists PROVE StaticInv'
  OBVIOUS
<1>1. UNCHANGED <<page, written, clock, copy>>
  BY DEF Static!Exists
<1>2. CASE Static!Answered(404, 0)
  BY <1>1, <1>2, AnsweredKeeps
<1>3. CASE get' = [get EXCEPT !.step = "stat"] /\ UNCHANGED sent
  <2>1. StaticTypeOK' /\ get'.copy = get.copy /\ get'.step # "read"
    BY <1>1, <1>3 DEF StaticInv, StaticTypeOK
  <2> QED
    BY <1>1, <1>3, <2>1 DEF StaticInv, WrittenInOrder, CopyDated, StaleWithinASecond,
       Static!StaleWithinASecond
<1> QED
  BY <1>2, <1>3 DEF Static!Exists

LEMMA RequestKeeps ==
    ASSUME StaticInv, NEW head \in BOOLEAN, NEW with \in BOOLEAN, Static!Request(head, with)
    PROVE  StaticInv'
<1>1. UNCHANGED <<page, written, clock, copy, sent>>
  BY DEF Static!Request
<1>2. PICK c \in {copy, Static!NoCopy} :
          get' = [step |-> "exists", head |-> head, copy |-> c, modified |-> 0]
  BY DEF Static!Request
<1>3. StaticTypeOK' /\ get'.copy = c /\ get'.step # "read"
  BY <1>1, <1>2 DEF StaticInv, StaticTypeOK, Static!NoCopy
<1>4. CopyDated(get.copy)'
  BY <1>1, <1>3 DEF StaticInv, CopyDated
<1> QED
  BY <1>1, <1>3, <1>4 DEF StaticInv, WrittenInOrder, CopyDated, StaleWithinASecond,
     Static!StaleWithinASecond

LEMMA StaticKept == DstShift = 0 /\ StaticInv /\ [Static!StaticNext]_staticVars => StaticInv'
<1> SUFFICES ASSUME DstShift = 0, StaticInv, [Static!StaticNext]_staticVars PROVE StaticInv'
  OBVIOUS
<1>1. CASE UNCHANGED staticVars
  BY <1>1 DEF staticVars, StaticInv, StaticTypeOK, WrittenInOrder, CopyDated,
              StaleWithinASecond, Static!StaleWithinASecond
<1> QED
  BY <1>1, EditKeeps, RemoveKeeps, TickKeeps, RequestKeeps, ExistsKeeps, StatKeeps, ReadKeeps
     DEF Static!StaticNext

(* Where the clocks are not changed, a browser that is told to keep its    *)
(* copy has one that was written in the second of the last change or       *)
(* later, however the file is edited and removed while it is served.       *)
THEOREM StaleAtMostASecond == DstShift = 0 => (ServicesSpec => []StaleWithinASecond)
<1> SUFFICES ASSUME DstShift = 0 PROVE ServicesSpec => []StaleWithinASecond
  OBVIOUS
<1>1. ServicesInit => StaticInv
  BY StaticBegins DEF ServicesInit
<1>2. StaticInv /\ [ServicesNext]_servicesVars => StaticInv'
  BY StaticKept, PartsAlone
<1>3. StaticInv => StaleWithinASecond
  BY DEF StaticInv
<1> QED
  BY <1>1, <1>2, <1>3, PTL DEF ServicesSpec

-----------------------------------------------------------------------------
(* BlackList: when no dump runs, none has left its stream behind.          *)

Hashes == Listable \cup {0}
Thread == [pc : {"none", "opening", "created", "opened", "writing", "written", "closing", "closed"},
           left : SUBSET Hashes]
BlackTypeOK ==
    /\ blackDocs \subseteq Hashes /\ file \in Seq(Hashes)
    /\ output \in [state : {"null", "open", "closed"}, at : Nat]
    /\ dumper \in [Dumpers -> Thread] /\ faults \in Nat

\* A stream in the field that has had no I/O error has a thread that will assign null,
\* the one that closed it if it is closed: whoever finds it closed ends, and leaves that
\* to the other.
StreamOwned == faults = 0 =>
    /\ output # Black!Null =>
          \E t \in Dumpers : dumper[t].pc \in {"opened", "writing", "written", "closing", "closed"}
    /\ output.state = "closed" => \E t \in Dumpers : dumper[t].pc = "closed"

\* How far a dump that meets no other has come: the file has what is not left to write.
Reached(t) ==
    LET inFile == {file[i] : i \in DOMAIN file}
        pc == dumper[t].pc
    IN  /\ pc \in {"created", "opened"} => file = <<>>
        /\ pc = "opened" => output = [state |-> "open", at |-> 0]
        /\ pc = "writing" => /\ output.state = "open" /\ output.at = Len(file)
                             /\ lone = <<inFile \cup dumper[t].left>>
        /\ pc \in {"written", "closing"} => output.state = "open"
        /\ pc \in {"written", "closing", "closed"} => lone = <<inFile>>

AloneInTurn ==
    /\ \A t, u \in Dumpers : dumper[t].pc # "none" /\ dumper[u].pc # "none" => t = u
    /\ \A t \in Dumpers : Reached(t)
    /\ Black!Idle => lone = <<{file[i] : i \in DOMAIN file}>>
LoneInv == lone # Black!Unknown => AloneInTurn

BlackInv == BlackTypeOK /\ StreamOwned /\ LoneInv

LEMMA BlackSound == BlackInv => NextDumpIsSound
BY DEF BlackInv, BlackTypeOK, StreamOwned, LoneInv, AloneInTurn, NextDumpIsSound,
       Black!NextDumpIsSound, Black!Idle

LEMMA BlackBegins == Black!BlackListInit => BlackInv
<1> SUFFICES ASSUME Black!BlackListInit PROVE BlackInv
  OBVIOUS
<1>1. BlackTypeOK
  BY DEF Black!BlackListInit, Black!Null, Black!AtRest, BlackTypeOK, Hashes, Thread
<1>2. StreamOwned /\ LoneInv
  BY DEF Black!BlackListInit, Black!Null, StreamOwned, LoneInv
<1> QED
  BY <1>1, <1>2 DEF BlackInv

\* One thread goes to its next step.
LEMMA ThreadGoes ==
    ASSUME BlackTypeOK, NEW t \in Dumpers,
           NEW pc \in {"none", "opening", "created", "opened", "writing", "written", "closing",
                       "closed"},
           Black!To(t, pc)
    PROVE  /\ dumper' \in [Dumpers -> Thread]
           /\ dumper'[t].pc = pc /\ dumper'[t].left = dumper[t].left
           /\ \A u \in Dumpers : u # t => dumper'[u] = dumper[u]
BY DEF BlackTypeOK, Thread, Black!To

\* It ends, returning or not.
LEMMA ThreadEnds ==
    ASSUME BlackTypeOK, NEW t \in Dumpers, Black!Ends(t)
    PROVE  /\ dumper' \in [Dumpers -> Thread]
           /\ dumper'[t].pc = "none"
           /\ \A u \in Dumpers : u # t => dumper'[u] = dumper[u]
BY DEF BlackTypeOK, Thread, Black!Ends, Black!AtRest

\* It ends with an IOException: what the dumps leave is not known then.
LEMMA ThreadFails ==
    ASSUME BlackInv, NEW t \in Dumpers, Black!Fails(t), UNCHANGED blackDocs,
           file' \in Seq(Hashes), output' \in [state : {"null", "open", "closed"}, at : Nat],
           faults' \in Nat,
           faults' = 0 => output' = output /\ faults = 0 /\
              (dumper[t].pc \in {"none", "opening", "created"} \/
               (output.state = "closed" /\ dumper[t].pc # "closed"))
    PROVE  BlackInv'
<1>1. /\ dumper' \in [Dumpers -> Thread]
      /\ \A u \in Dumpers : u # t => dumper'[u] = dumper[u]
      /\ lone' = Black!Unknown
  BY ThreadEnds DEF BlackInv, Black!Fails
<1>2. StreamOwned'
  <2> SUFFICES ASSUME faults' = 0
               PROVE /\ output # Black!Null =>
                          \E u \in Dumpers : dumper'[u].pc \in {"opened", "writing", "written", "closing", "closed"}
                     /\ output.state = "closed" => \E u \in Dumpers : dumper'[u].pc = "closed"
    BY DEF StreamOwned
  <2>1. /\ output # Black!Null =>
              \E u \in Dumpers : dumper[u].pc \in {"opened", "writing", "written", "closing", "closed"}
        /\ output.state = "closed" => \E u \in Dumpers : dumper[u].pc = "closed"
    BY DEF BlackInv, StreamOwned
  <2>2. CASE dumper[t].pc \in {"none", "opening", "created"}
    BY <1>1, <2>1, <2>2
  <2>3. CASE output.state = "closed" /\ dumper[t].pc # "closed"
    <3>1. PICK u \in Dumpers : dumper[u].pc = "closed"
      BY <2>1, <2>3
    <3>2. dumper'[u].pc = "closed"
      BY <1>1, <2>3, <3>1
    <3> QED
      BY <3>2
  <2> QED
    BY <2>2, <2>3
<1> QED
  BY <1>1, <1>2 DEF BlackInv, BlackTypeOK, LoneInv

LEMMA ChangeKeeps == BlackInv /\ Black!Change => BlackInv'
<1> SUFFICES ASSUME BlackInv, Black!Change PROVE BlackInv'
  OBVIOUS
<1>1. UNCHANGED <<file, output, dumper, faults, lone>>
  BY DEF Black!Change
<1>2. blackDocs' \subseteq Hashes
  BY DEF Black!Change, BlackInv, BlackTypeOK, Hashes
<1> QED
  BY <1>1, <1>2 DEF BlackInv, BlackTypeOK, StreamOwned, LoneInv, AloneInTurn, Reached, Black!Idle

LEMMA RestartKeeps == BlackInv /\ Black!Restart => BlackInv'
<1> SUFFICES ASSUME BlackInv, Black!Restart PROVE BlackInv'
  OBVIOUS
<1>1. BlackTypeOK'
  BY DEF Black!Restart, BlackInv, BlackTypeOK, Black!AtRest, Black!Null, Thread
<1>2. StreamOwned' /\ LoneInv'
  BY DEF Black!Restart, Black!Null, StreamOwned, LoneInv
<1> QED
  BY <1>1, <1>2 DEF BlackInv

LEMMA OpenWriteKeeps ==
    ASSUME BlackInv, NEW t \in Dumpers, Black!OpenWrite(t) PROVE BlackInv'
<1>1. /\ dumper[t].pc = "none" /\ lone' = Black!Begun
      /\ Black!To(t, IF output = Black!Null THEN "opening" ELSE "opened")
      /\ UNCHANGED <<blackDocs, file, output, faults>>
  BY DEF Black!OpenWrite
<1>2. PICK pc \in {"opening", "opened"} :
          Black!To(t, pc) /\ pc = IF output = Black!Null THEN "opening" ELSE "opened"
  BY <1>1
<1>3. /\ dumper' \in [Dumpers -> Thread] /\ dumper'[t].pc = pc
      /\ \A u \in Dumpers : u # t => dumper'[u] = dumper[u]
  BY <1>2, ThreadGoes DEF BlackInv
<1>4. BlackTypeOK' /\ StreamOwned'
  BY <1>1, <1>3 DEF BlackInv, BlackTypeOK, StreamOwned
<1>5. ASSUME lone' # Black!Unknown PROVE AloneInTurn'
  <2>1. Black!Idle /\ output = Black!Null
    BY <1>1, <1>5 DEF Black!Begun
  <2>2. pc = "opening"
    BY <1>2, <2>1
  <2>3. \A u \in Dumpers : u # t => dumper'[u].pc = "none"
    BY <1>3, <2>1 DEF Black!Idle
  <2> QED
    BY <1>3, <2>2, <2>3 DEF AloneInTurn, Reached, Black!Idle
<1> QED
  BY <1>4, <1>5 DEF BlackInv, LoneInv

\* A thread that is alone stays so, and what it has reached is all there is to show.
LEMMA StillAlone ==
    ASSUME AloneInTurn, NEW t \in Dumpers, dumper[t].pc # "none",
           \A u \in Dumpers : u # t => dumper'[u] = dumper[u],
           dumper'[t].pc # "none" => Reached(t)',
           dumper'[t].pc = "none" => lone' = <<{file'[i] : i \in DOMAIN file'}>>
    PROVE  AloneInTurn'
<1>1. \A u \in Dumpers : u # t => dumper[u].pc = "none" /\ dumper'[u].pc = "none"
  BY DEF AloneInTurn
<1>2. \A u \in Dumpers : Reached(u)'
  BY <1>1 DEF Reached
<1>3. Black!Idle' => dumper'[t].pc = "none"
  BY DEF Black!Idle
<1> QED
  BY <1>1, <1>2, <1>3 DEF AloneInTurn

LEMMA CreateKeeps ==
    ASSUME BlackInv, NEW t \in Dumpers, Black!Create(t) PROVE BlackInv'
<1>1. dumper[t].pc = "opening" /\ UNCHANGED <<blackDocs, output, faults>>
  BY DEF Black!Create
<1>2. CASE Black!Fails(t) /\ UNCHANGED file
  <2>1. UNCHANGED file /\ Black!Fails(t)
    BY <1>2
  <2> QED
    BY <1>1, <2>1, ThreadFails DEF BlackInv, BlackTypeOK
<1>3. CASE file' = <<>> /\ Black!To(t, "created") /\ UNCHANGED lone
  <2>1. /\ dumper' \in [Dumpers -> Thread] /\ dumper'[t].pc = "created"
        /\ \A u \in Dumpers : u # t => dumper'[u] = dumper[u]
    BY <1>3, ThreadGoes DEF BlackInv
  <2>2. BlackTypeOK' /\ StreamOwned'
    BY <1>1, <1>3, <2>1 DEF BlackInv, BlackTypeOK, StreamOwned
  <2>3. Reached(t)'
    BY <1>1, <1>3, <2>1 DEF Reached
  <2> QED
    BY <1>1, <1>3, <2>1, <2>2, <2>3, StillAlone DEF BlackInv, LoneInv
<1> QED
  BY <1>2, <1>3 DEF Black!Create, Black!Truncated

LEMMA AssignKeeps ==
    ASSUME BlackInv, NEW t \in Dumpers, Black!Assign(t) PROVE BlackInv'
<1>1. /\ dumper[t].pc = "created" /\ Black!To(t, "opened")
      /\ output' = [state |-> "open", at |-> 0] /\ faults' = 0
      /\ UNCHANGED <<blackDocs, file, lone>>
  BY DEF Black!Assign
<1>2. /\ dumper' \in [Dumpers -> Thread] /\ dumper'[t].pc = "opened"
      /\ \A u \in Dumpers : u # t => dumper'[u] = dumper[u]
  BY <1>1, ThreadGoes DEF BlackInv
<1>3. BlackTypeOK' /\ StreamOwned'
  BY <1>1, <1>2 DEF BlackInv, BlackTypeOK, StreamOwned
<1>4. AloneInTurn => Reached(t)'
  BY <1>1, <1>2 DEF AloneInTurn, Reached
<1> QED
  BY <1>1, <1>2, <1>3, <1>4, StillAlone DEF BlackInv, LoneInv

LEMMA LockKeeps ==
    ASSUME BlackInv, NEW t \in Dumpers, Black!Lock(t) PROVE BlackInv'
<1>1. /\ dumper[t].pc = "opened"
      /\ dumper' = [dumper EXCEPT ![t] = [pc |-> "writing", left |-> blackDocs]]
      /\ lone' = IF lone = Black!Unknown THEN lone ELSE <<blackDocs>>
      /\ UNCHANGED <<blackDocs, file, output, faults>>
  BY DEF Black!Lock
<1>2. /\ dumper' \in [Dumpers -> Thread]
      /\ dumper'[t].pc = "writing" /\ dumper'[t].left = blackDocs
      /\ \A u \in Dumpers : u # t => dumper'[u] = dumper[u]
  BY <1>1 DEF BlackInv, BlackTypeOK, Thread
<1>3. BlackTypeOK' /\ StreamOwned'
  BY <1>1, <1>2 DEF BlackInv, BlackTypeOK, StreamOwned
<1>4. ASSUME lone' # Black!Unknown PROVE AloneInTurn'
  <2>1. AloneInTurn /\ lone' = <<blackDocs>>
    BY <1>1, <1>4 DEF BlackInv, LoneInv
  <2>2. file' = <<>> /\ output' = [state |-> "open", at |-> 0]
    BY <1>1, <2>1 DEF AloneInTurn, Reached
  <2>3. {file'[i] : i \in DOMAIN file'} \cup blackDocs = blackDocs
    BY <2>2
  <2>4. Reached(t)'
    BY <1>2, <2>1, <2>2, <2>3 DEF Reached
  <2> QED
    BY <1>1, <1>2, <2>1, <2>4, StillAlone
<1> QED
  BY <1>3, <1>4 DEF BlackInv, LoneInv

\* Behind the end of the file a hash is appended.
LEMMA PutTyped ==
    ASSUME file \in Seq(Hashes), NEW d \in Hashes, NEW at \in Nat
    PROVE  /\ Black!Put(d, at + 1) \in Seq(Hashes)
           /\ at = Len(file) => Black!Put(d, at + 1) = Append(file, d)
<1> DEFINE n == IF at + 1 > Len(file) THEN at + 1 ELSE Len(file)
<1>1. n \in Nat
  OBVIOUS
<1>2. Black!Put(d, at + 1) = [j \in 1 .. n |->
          IF j = at + 1 THEN d ELSE IF j <= Len(file) THEN file[j] ELSE 0]
  BY DEF Black!Put
<1>3. Black!Put(d, at + 1) \in [1 .. n -> Hashes]
  BY <1>2 DEF Hashes
<1>4. ASSUME at = Len(file) PROVE Black!Put(d, at + 1) = Append(file, d)
  BY <1>2, <1>4
<1> QED
  BY <1>1, <1>3, <1>4

LEMMA WriteOneKeeps ==
    ASSUME BlackInv, NEW t \in Dumpers, Black!WriteOne(t) PROVE BlackInv'
<1>1. dumper[t].pc = "writing" /\ UNCHANGED blackDocs
  BY DEF Black!WriteOne
<1>2. CASE output = Black!Null /\ Black!Ends(t) /\ UNCHANGED <<file, output, faults, lone>>
  <2>1. /\ dumper' \in [Dumpers -> Thread] /\ dumper'[t].pc = "none"
        /\ \A u \in Dumpers : u # t => dumper'[u] = dumper[u]
    BY <1>2, ThreadEnds DEF BlackInv
  <2>2. BlackTypeOK' /\ StreamOwned'
    BY <1>1, <1>2, <2>1 DEF BlackInv, BlackTypeOK, StreamOwned, Black!Null
  <2>3. ~AloneInTurn
    BY <1>1, <1>2 DEF AloneInTurn, Reached, Black!Null
  <2> QED
    BY <1>1, <1>2, <2>2, <2>3 DEF BlackInv, LoneInv
<1>3. CASE output.state = "closed" /\ Black!Fails(t) /\ UNCHANGED <<file, output, faults>>
  <2>1. Black!Fails(t) /\ UNCHANGED <<file, output, faults>> /\ output.state = "closed"
    BY <1>3
  <2> QED
    BY <1>1, <2>1, ThreadFails DEF BlackInv, BlackTypeOK
<1>4. CASE Black!Struck /\ Black!Fails(t) /\ UNCHANGED <<file, output>>
  <2>1. Black!Fails(t) /\ UNCHANGED <<file, output>> /\ faults' = faults + 1 /\ faults \in Nat
    BY <1>4 DEF Black!Struck, BlackInv, BlackTypeOK
  <2> QED
    BY <1>1, <2>1, ThreadFails DEF BlackInv, BlackTypeOK
<1>5. ASSUME NEW d \in dumper[t].left, output.state = "open",
             file' = Black!Put(d, output.at + 1), output' = [output EXCEPT !.at = @ + 1],
             dumper' = [dumper EXCEPT ![t].left = @ \ {d}],
             UNCHANGED <<faults, lone>>
      PROVE  BlackInv'
  <2>1. /\ dumper' \in [Dumpers -> Thread]
        /\ dumper'[t].pc = "writing" /\ dumper'[t].left = dumper[t].left \ {d}
        /\ \A u \in Dumpers : u # t => dumper'[u] = dumper[u]
    BY <1>1, <1>5 DEF BlackInv, BlackTypeOK, Thread
  <2>2. d \in Hashes /\ output.at \in Nat /\ file \in Seq(Hashes)
    BY <1>5 DEF BlackInv, BlackTypeOK, Thread
  <2>3. /\ file' \in Seq(Hashes)
        /\ output.at = Len(file) => file' = Append(file, d)
    BY <1>5, <2>2, PutTyped
  <2>4. /\ output' \in [state : {"null", "open", "closed"}, at : Nat]
        /\ output'.at = output.at + 1 /\ output'.state = "open"
    BY <1>5, <2>2 DEF BlackInv, BlackTypeOK
  <2>5. BlackTypeOK' /\ StreamOwned'
    BY <1>1, <1>5, <2>1, <2>3, <2>4 DEF BlackInv, BlackTypeOK, StreamOwned
  <2>6. ASSUME AloneInTurn PROVE Reached(t)'
    <3>1. output.at = Len(file) /\ lone = <<{file[i] : i \in DOMAIN file} \cup dumper[t].left>>
      BY <1>1, <2>6 DEF AloneInTurn, Reached
    <3>2. file' = Append(file, d) /\ Len(file') = Len(file) + 1
      BY <2>2, <2>3, <3>1
    <3>3. {file'[i] : i \in DOMAIN file'} = {file[i] : i \in DOMAIN file} \cup {d}
      BY <2>2, <3>2
    <3>4. {file'[i] : i \in DOMAIN file'} \cup dumper'[t].left
              = {file[i] : i \in DOMAIN file} \cup dumper[t].left
      BY <1>5, <2>1, <3>3
    <3> QED
      BY <1>1, <1>5, <2>1, <2>4, <3>1, <3>2, <3>4 DEF Reached
  <2> QED
    BY <1>1, <1>5, <2>1, <2>5, <2>6, StillAlone DEF BlackInv, LoneInv
<1> QED
  BY <1>2, <1>3, <1>4, <1>5 DEF Black!WriteOne, Black!NullPointer

LEMMA UnlockKeeps ==
    ASSUME BlackInv, NEW t \in Dumpers, Black!Unlock(t) PROVE BlackInv'
<1>1. /\ dumper[t].pc = "writing" /\ dumper[t].left = {} /\ Black!To(t, "written")
      /\ UNCHANGED <<blackDocs, file, output, faults, lone>>
  BY DEF Black!Unlock
<1>2. /\ dumper' \in [Dumpers -> Thread] /\ dumper'[t].pc = "written"
      /\ \A u \in Dumpers : u # t => dumper'[u] = dumper[u]
  BY <1>1, ThreadGoes DEF BlackInv
<1>3. BlackTypeOK' /\ StreamOwned'
  BY <1>1, <1>2 DEF BlackInv, BlackTypeOK, StreamOwned
<1>4. ASSUME AloneInTurn PROVE Reached(t)'
  <2>1. /\ output.state = "open"
        /\ lone = <<{file[i] : i \in DOMAIN file} \cup dumper[t].left>>
    BY <1>1, <1>4 DEF AloneInTurn, Reached
  <2> QED
    BY <1>1, <1>2, <2>1 DEF Reached
<1> QED
  BY <1>1, <1>2, <1>3, <1>4, StillAlone DEF BlackInv, LoneInv

LEMMA CloseWriteKeeps ==
    ASSUME BlackInv, NEW t \in Dumpers, Black!CloseWrite(t) PROVE BlackInv'
<1>1. dumper[t].pc = "written" /\ UNCHANGED <<blackDocs, file, output, faults, lone>>
  BY DEF Black!CloseWrite
<1>2. CASE output = Black!Null /\ Black!Ends(t)
  <2>1. /\ dumper' \in [Dumpers -> Thread] /\ dumper'[t].pc = "none"
        /\ \A u \in Dumpers : u # t => dumper'[u] = dumper[u]
    BY <1>2, ThreadEnds DEF BlackInv
  <2>2. BlackTypeOK' /\ StreamOwned'
    BY <1>1, <1>2, <2>1 DEF BlackInv, BlackTypeOK, StreamOwned, Black!Null
  <2>3. ~AloneInTurn
    BY <1>1, <1>2 DEF AloneInTurn, Reached, Black!Null
  <2> QED
    BY <1>1, <2>2, <2>3 DEF BlackInv, LoneInv
<1>3. CASE Black!To(t, "closing")
  <2>1. /\ dumper' \in [Dumpers -> Thread] /\ dumper'[t].pc = "closing"
        /\ \A u \in Dumpers : u # t => dumper'[u] = dumper[u]
    BY <1>3, ThreadGoes DEF BlackInv
  <2>2. BlackTypeOK' /\ StreamOwned'
    BY <1>1, <2>1 DEF BlackInv, BlackTypeOK, StreamOwned
  <2>3. AloneInTurn => Reached(t)'
    BY <1>1, <2>1 DEF AloneInTurn, Reached
  <2> QED
    BY <1>1, <2>1, <2>2, <2>3, StillAlone DEF BlackInv, LoneInv
<1> QED
  BY <1>2, <1>3 DEF Black!CloseWrite

LEMMA CloseStreamKeeps ==
    ASSUME BlackInv, NEW t \in Dumpers, Black!CloseStream(t) PROVE BlackInv'
<1>1. dumper[t].pc = "closing" /\ UNCHANGED <<blackDocs, file>>
  BY DEF Black!CloseStream
<1>2. CASE output = Black!Null /\ Black!Ends(t) /\ UNCHANGED <<output, faults, lone>>
  <2>1. /\ dumper' \in [Dumpers -> Thread] /\ dumper'[t].pc = "none"
        /\ \A u \in Dumpers : u # t => dumper'[u] = dumper[u]
    BY <1>2, ThreadEnds DEF BlackInv
  <2>2. BlackTypeOK' /\ StreamOwned'
    BY <1>1, <1>2, <2>1 DEF BlackInv, BlackTypeOK, StreamOwned, Black!Null
  <2>3. ~AloneInTurn
    BY <1>1, <1>2 DEF AloneInTurn, Reached, Black!Null
  <2> QED
    BY <1>1, <1>2, <2>2, <2>3 DEF BlackInv, LoneInv
<1>3. CASE /\ output' = [output EXCEPT !.state = "closed"] /\ Black!To(t, "closed")
           /\ UNCHANGED <<faults, lone>>
  <2>1. /\ dumper' \in [Dumpers -> Thread] /\ dumper'[t].pc = "closed"
        /\ \A u \in Dumpers : u # t => dumper'[u] = dumper[u]
    BY <1>3, ThreadGoes DEF BlackInv
  <2>2. BlackTypeOK' /\ StreamOwned'
    BY <1>1, <1>3, <2>1 DEF BlackInv, BlackTypeOK, StreamOwned
  <2>3. AloneInTurn => Reached(t)'
    BY <1>1, <1>3, <2>1 DEF AloneInTurn, Reached
  <2> QED
    BY <1>1, <1>3, <2>1, <2>2, <2>3, StillAlone DEF BlackInv, LoneInv
<1>4. CASE /\ output' = [output EXCEPT !.state = "closed"]
           /\ Black!Struck /\ Black!Fails(t)
  <2>1. /\ Black!Fails(t) /\ UNCHANGED <<blackDocs, file>>
        /\ faults' = faults + 1 /\ faults \in Nat
        /\ output' \in [state : {"null", "open", "closed"}, at : Nat]
    BY <1>1, <1>4 DEF Black!Struck, BlackInv, BlackTypeOK
  <2> QED
    BY <2>1, ThreadFails DEF BlackInv, BlackTypeOK
<1> QED
  BY <1>2, <1>3, <1>4 DEF Black!CloseStream, Black!NullPointer

LEMMA SetNullKeeps ==
    ASSUME BlackInv, NEW t \in Dumpers, Black!SetNull(t) PROVE BlackInv'
<1>1. /\ dumper[t].pc = "closed" /\ output' = Black!Null /\ Black!Ends(t)
      /\ faults' = 0 /\ UNCHANGED <<blackDocs, file, lone>>
  BY DEF Black!SetNull, Black!Nulled
<1>2. /\ dumper' \in [Dumpers -> Thread] /\ dumper'[t].pc = "none"
      /\ \A u \in Dumpers : u # t => dumper'[u] = dumper[u]
  BY <1>1, ThreadEnds DEF BlackInv
<1>3. BlackTypeOK' /\ StreamOwned'
  BY <1>1, <1>2 DEF BlackInv, BlackTypeOK, StreamOwned, Black!Null
<1>4. AloneInTurn => lone' = <<{file'[i] : i \in DOMAIN file'}>>
  BY <1>1 DEF AloneInTurn, Reached
<1> QED
  BY <1>1, <1>2, <1>3, <1>4, StillAlone DEF BlackInv, LoneInv

LEMMA BlackKept == BlackInv /\ [Black!BlackListNext]_blackListVars => BlackInv'
<1> SUFFICES ASSUME BlackInv, [Black!BlackListNext]_blackListVars PROVE BlackInv'
  OBVIOUS
<1>1. CASE UNCHANGED blackListVars
  BY <1>1 DEF blackListVars, BlackInv, BlackTypeOK, StreamOwned, LoneInv, AloneInTurn, Reached,
              Black!Idle
<1> QED
  BY <1>1, ChangeKeeps, RestartKeeps, OpenWriteKeeps, CreateKeeps, AssignKeeps, LockKeeps,
     WriteOneKeeps, UnlockKeeps, CloseWriteKeeps, CloseStreamKeeps, SetNullKeeps
     DEF Black!BlackListNext

(* However the dumps of any threads meet and end, the next one finds the   *)
(* field null and opens the file anew, unless a write or close of the      *)
(* stream in the field has failed; and one that found it null and met no   *)
(* other and no error leaves in the file exactly the set it locked.        *)
THEOREM NextDumpIsAlwaysSound == ServicesSpec => []NextDumpIsSound
<1>1. ServicesInit => BlackInv
  BY BlackBegins DEF ServicesInit
<1>2. BlackInv /\ [ServicesNext]_servicesVars => BlackInv'
  BY BlackKept, PartsAlone
<1> QED
  BY <1>1, <1>2, BlackSound, PTL DEF ServicesSpec

-----------------------------------------------------------------------------
(* TCPServer: who has a handler, with descriptors that are given again.    *)

TcpTypeOK ==
    /\ server \in [started : BOOLEAN, pending : SUBSET Descriptors, sockets : SUBSET Descriptors,
                   closed : SUBSET Descriptors, handlers : SUBSET Descriptors, stops : Nat]
    /\ fds \in [Descriptors -> {"free", "listening", "connection"}]

\* The sockets of the server that are open have their handlers; those that start will
\* add have none; there are no other listening sockets.
SocketsHandled ==
    /\ \A d \in server.sockets \ server.closed : fds[d] = "listening" /\ d \in server.handlers
    /\ \A d \in server.pending : fds[d] = "listening" /\ d \notin server.handlers
    /\ \A d \in Descriptors :
          fds[d] = "listening" => d \in server.pending \cup (server.sockets \ server.closed)
\* A number that is free has no handler to meet its next user.
FreeUnhandled == \A d \in Descriptors : fds[d] = "free" => d \notin server.handlers
ConnectionsHandled ==
    /\ server.stops = 0 => server.closed = {}
    /\ server.stops <= 1 => \A d \in Descriptors : fds[d] = "connection" => d \in server.handlers

TcpInv == TcpTypeOK /\ SocketsHandled /\ FreeUnhandled /\ ConnectionsHandled

LEMMA TcpClean == TcpInv => FirstStopIsClean
BY DEF TcpInv, TcpTypeOK, SocketsHandled, ConnectionsHandled, FirstStopIsClean,
       Tcp!FirstStopIsClean, Tcp!RequestsContinue

LEMMA TcpBegins == Tcp!TCPInit => TcpInv
BY DEF Tcp!TCPInit, TcpInv, TcpTypeOK, SocketsHandled, FreeUnhandled, ConnectionsHandled

\* The kernel gives the lowest number that is free, and there is one.
LEMMA LowestExists ==
    ASSUME NEW S \in SUBSET Nat, S # {}
    PROVE  \E n \in S : \A m \in S : n <= m
<1> DEFINE R == OpToRel(<, Nat)
<1>1. IsWellFoundedOn(R, Nat)
  BY NatLessThanWellFounded
<1>2. \A i, j \in Nat : <<i, j>> \in R <=> i < j
  BY DEF OpToRel
<1> HIDE DEF R
<1>3. PICK n \in S : \A m \in S : ~(<<m, n>> \in R)
  BY <1>1, WFMin
<1>4. n \in Nat /\ \A m \in S : m \in Nat /\ ~(m < n)
  BY <1>2, <1>3
<1>5. \A m \in S : n <= m
  BY <1>4
<1> QED
  BY <1>5

LEMMA HighestExists ==
    ASSUME NEW N \in Nat, NEW S \in SUBSET (1 .. N), S # {}
    PROVE  \E n \in S : \A i \in S : n >= i
<1> DEFINE B == {N - i : i \in S}
<1>0. \A i \in S : i \in Nat /\ N - i \in Nat
  OBVIOUS
<1>1. B \in SUBSET Nat /\ B # {}
  BY <1>0
<1>2. PICK m \in B : \A k \in B : m <= k
  BY <1>1, LowestExists
<1>3. PICK j \in S : m = N - j
  BY <1>2
<1>4. \A i \in S : N - i \in B
  OBVIOUS
<1>5. ASSUME NEW i \in S PROVE j >= i
  <2>1. N - j <= N - i
    BY <1>2, <1>3, <1>4
  <2>2. i \in Int /\ j \in Int
    BY <1>0
  <2> QED
    BY <2>1, <2>2
<1> QED
  BY <1>3, <1>5

LEMMA LowestIsFree == Tcp!Free # {} => Tcp!Lowest \in Tcp!Free
<1> SUFFICES ASSUME Tcp!Free # {} PROVE Tcp!Lowest \in Tcp!Free
  OBVIOUS
<1>1. Tcp!Free \in SUBSET Nat
  BY SizesAssumption DEF Tcp!Free
<1>2. \E n \in Tcp!Free : \A m \in Tcp!Free : n <= m
  BY <1>1, LowestExists
<1> QED
  BY <1>2 DEF Tcp!Lowest, Tcp!Min

\* What a step with a descriptor that was free is given.
LEMMA Given ==
    ASSUME TcpInv, Tcp!Free # {}
    PROVE  LET d == Tcp!Lowest
           IN  /\ d \in Descriptors /\ fds[d] = "free" /\ d \notin server.handlers
               /\ d \notin server.pending /\ d \notin server.sockets \ server.closed
BY LowestIsFree DEF Tcp!Free, TcpInv, SocketsHandled, FreeUnhandled

LEMMA ListenKeeps == TcpInv /\ (Tcp!Listen \/ Tcp!Bind) => TcpInv'
<1> SUFFICES ASSUME TcpInv, Tcp!Listen \/ Tcp!Bind PROVE TcpInv'
  OBVIOUS
<1>1. PICK d \in Descriptors : d = Tcp!Lowest /\ fds[d] = "free" /\ d \notin server.handlers
                               /\ d \notin server.pending /\ d \notin server.sockets \ server.closed
  BY Given DEF Tcp!Listen, Tcp!Bind, Tcp!BindSocket
<1>2. fds' = [fds EXCEPT ![d] = "listening"]
  BY <1>1 DEF Tcp!Listen, Tcp!Bind, Tcp!BindSocket
<1>3. CASE server' = [server EXCEPT !.sockets = @ \cup {d}, !.closed = @ \ {d},
                                    !.handlers = @ \cup {d}]
  <2>1. TcpTypeOK'
    BY <1>1, <1>2, <1>3 DEF TcpInv, TcpTypeOK
  <2>2. SocketsHandled' /\ FreeUnhandled' /\ ConnectionsHandled'
    BY <1>1, <1>2, <1>3 DEF TcpInv, TcpTypeOK, SocketsHandled, FreeUnhandled, ConnectionsHandled
  <2> QED
    BY <2>1, <2>2 DEF TcpInv
<1>4. CASE server' = [server EXCEPT !.pending = @ \cup {d}]
  <2>1. TcpTypeOK'
    BY <1>1, <1>2, <1>4 DEF TcpInv, TcpTypeOK
  <2>2. SocketsHandled' /\ FreeUnhandled' /\ ConnectionsHandled'
    BY <1>1, <1>2, <1>4 DEF TcpInv, TcpTypeOK, SocketsHandled, FreeUnhandled, ConnectionsHandled
  <2> QED
    BY <2>1, <2>2 DEF TcpInv
<1> QED
  BY <1>1, <1>3, <1>4 DEF Tcp!Listen, Tcp!Bind, Tcp!AddSockets

LEMMA StartKeeps == TcpInv /\ Tcp!Start => TcpInv'
<1> SUFFICES ASSUME TcpInv, Tcp!Start PROVE TcpInv'
  OBVIOUS
<1>1. /\ fds' = fds
      /\ server' = [[server EXCEPT !.started = TRUE, !.pending = {}] EXCEPT
                      !.sockets = @ \cup server.pending, !.closed = @ \ server.pending,
                      !.handlers = @ \cup server.pending]
  BY DEF Tcp!Start, Tcp!AddSockets
<1>2. TcpTypeOK'
  BY <1>1 DEF TcpInv, TcpTypeOK
<1>3. /\ server'.pending = {} /\ server'.stops = server.stops
      /\ server'.sockets = server.sockets \cup server.pending
      /\ server'.closed = server.closed \ server.pending
      /\ server'.handlers = server.handlers \cup server.pending
  BY <1>1 DEF TcpInv, TcpTypeOK
<1>4. SocketsHandled' /\ FreeUnhandled' /\ ConnectionsHandled'
  BY <1>1, <1>3 DEF TcpInv, TcpTypeOK, SocketsHandled, FreeUnhandled, ConnectionsHandled
<1> QED
  BY <1>2, <1>4 DEF TcpInv

LEMMA StopKeeps == TcpInv /\ Tcp!Stop => TcpInv'
<1> SUFFICES ASSUME TcpInv, Tcp!Stop PROVE TcpInv'
  OBVIOUS
<1>1. /\ fds' = [d \in Descriptors |->
                   IF d \in server.sockets \ server.closed THEN "free" ELSE fds[d]]
      /\ server' = [server EXCEPT !.handlers = @ \ server.sockets, !.closed = server.sockets,
                                  !.stops = @ + 1]
  BY DEF Tcp!Stop, Tcp!Removed
<1>2. TcpTypeOK'
  <2>1. fds' \in [Descriptors -> {"free", "listening", "connection"}]
    BY <1>1 DEF TcpInv, TcpTypeOK
  <2>2. /\ server.handlers \ server.sockets \in SUBSET Descriptors
        /\ server.sockets \in SUBSET Descriptors /\ server.stops + 1 \in Nat
    BY DEF TcpInv, TcpTypeOK
  <2>3. server' \in [started : BOOLEAN, pending : SUBSET Descriptors, sockets : SUBSET Descriptors,
                     closed : SUBSET Descriptors, handlers : SUBSET Descriptors, stops : Nat]
    BY <1>1, <2>2 DEF TcpInv, TcpTypeOK
  <2> QED
    BY <2>1, <2>3 DEF TcpTypeOK
<1>3. /\ server'.pending = server.pending /\ server'.stops = server.stops + 1
      /\ server'.sockets = server.sockets /\ server'.closed = server.sockets
      /\ server'.handlers = server.handlers \ server.sockets
  BY <1>1 DEF TcpInv, TcpTypeOK
<1>4. SocketsHandled' /\ FreeUnhandled'
  BY <1>1, <1>3 DEF TcpInv, TcpTypeOK, SocketsHandled, FreeUnhandled
<1>5. ConnectionsHandled'
  <2>1. server.stops \in Nat
    BY DEF TcpInv, TcpTypeOK
  <2>2. CASE server.stops = 0
    BY <1>1, <1>3, <2>1, <2>2 DEF TcpInv, TcpTypeOK, SocketsHandled, ConnectionsHandled
  <2>3. CASE server.stops # 0
    BY <1>3, <2>1, <2>3 DEF ConnectionsHandled
  <2> QED
    BY <2>2, <2>3
<1> QED
  BY <1>2, <1>4, <1>5 DEF TcpInv

LEMMA AcceptKeeps == TcpInv /\ Tcp!Accept => TcpInv'
<1> SUFFICES ASSUME TcpInv, Tcp!Accept PROVE TcpInv'
  OBVIOUS
<1>1. PICK d \in Descriptors : d = Tcp!Lowest /\ fds[d] = "free" /\ d \notin server.handlers
                               /\ d \notin server.pending /\ d \notin server.sockets \ server.closed
  BY Given DEF Tcp!Accept
<1>2. CASE UNCHANGED <<fds, server>>
  BY <1>2 DEF TcpInv, TcpTypeOK, SocketsHandled, FreeUnhandled, ConnectionsHandled
<1>3. CASE /\ fds' = [fds EXCEPT ![d] = "connection"]
           /\ server' = [server EXCEPT !.handlers = @ \cup {d}]
  <2>1. TcpTypeOK'
    BY <1>1, <1>3 DEF TcpInv, TcpTypeOK
  <2>2. SocketsHandled' /\ FreeUnhandled' /\ ConnectionsHandled'
    BY <1>1, <1>3 DEF TcpInv, TcpTypeOK, SocketsHandled, FreeUnhandled, ConnectionsHandled
  <2> QED
    BY <2>1, <2>2 DEF TcpInv
<1> QED
  BY <1>1, <1>2, <1>3 DEF Tcp!Accept, Tcp!HandleConnection

LEMMA ConnectionEndsKeeps == TcpInv /\ Tcp!ConnectionEnds => TcpInv'
<1> SUFFICES ASSUME TcpInv, Tcp!ConnectionEnds PROVE TcpInv'
  OBVIOUS
<1>1. PICK d \in Descriptors : /\ fds[d] = "connection"
                               /\ fds' = [fds EXCEPT ![d] = "free"]
                               /\ server' = [server EXCEPT !.handlers = @ \ {d}]
  BY DEF Tcp!ConnectionEnds
<1>2. TcpTypeOK'
  BY <1>1 DEF TcpInv, TcpTypeOK
<1>3. SocketsHandled' /\ FreeUnhandled' /\ ConnectionsHandled'
  BY <1>1 DEF TcpInv, TcpTypeOK, SocketsHandled, FreeUnhandled, ConnectionsHandled
<1> QED
  BY <1>2, <1>3 DEF TcpInv

LEMMA TcpKept == TcpInv /\ [Tcp!TCPNext]_serverVars => TcpInv'
<1> SUFFICES ASSUME TcpInv, [Tcp!TCPNext]_serverVars PROVE TcpInv'
  OBVIOUS
<1>1. CASE UNCHANGED serverVars
  BY <1>1 DEF serverVars, TcpInv, TcpTypeOK, SocketsHandled, FreeUnhandled, ConnectionsHandled
<1> QED
  BY <1>1, ListenKeeps, StartKeeps, StopKeeps, AcceptKeeps, ConnectionEndsKeeps DEF Tcp!TCPNext

(* Until the second stop no connection loses its handler, and at no time   *)
(* has a listening socket another's or lacks its own, however many the     *)
(* descriptors and whichever numbers are given again.                      *)
THEOREM FirstStopIsAlwaysClean == ServicesSpec => []FirstStopIsClean
<1>1. ServicesInit => TcpInv
  BY TcpBegins DEF ServicesInit
<1>2. TcpInv /\ [ServicesNext]_servicesVars => TcpInv'
  BY TcpKept, PartsAlone
<1> QED
  BY <1>1, <1>2, TcpClean, PTL DEF ServicesSpec

-----------------------------------------------------------------------------
(* GenRunner: each wait gets the results of its own callbacks.             *)

\* The callback number n is the last that was registered with the key k.
IsLast(k, n) ==
    /\ n \in DOMAIN handed /\ handed[n].key = k
    /\ \A m \in DOMAIN handed : m > n => handed[m].key # k

Operation == [key : Int, calls : Nat]
GenTypes ==
    /\ runner = [phase |-> runner.phase, point |-> runner.point, pending |-> runner.pending,
                 results |-> runner.results, exc |-> runner.exc,
                 hadException |-> runner.hadException, leaked |-> runner.leaked,
                 yields |-> runner.yields]
    /\ runner.point = [rest |-> runner.point.rest, keys |-> runner.point.keys]
    /\ runner.point.rest \in Seq(Gen!Children) /\ runner.point.keys \in Seq(Int)
    /\ runner.exc \in BOOLEAN
    /\ handed \in Seq(Operation)
\* The key of a Task is its own.
KeysOwn == \A n \in DOMAIN handed : handed[n].key \in Keys \/ handed[n].key = -n
\* A pending key has a last callback, which was not called if there is no result.
PendingLast ==
    \A k \in runner.pending :
        \E n \in DOMAIN handed : IsLast(k, n) /\ (k \notin DOMAIN runner.results => handed[n].calls = 0)
ResultsOfCalls ==
    \A k \in DOMAIN runner.results :
        LET n == runner.results[k]
        IN  n \in DOMAIN handed /\ handed[n].key = k /\ handed[n].calls > 0
\* Unless a callback of a key is called again, only the last is still to be called, and
\* a result is that of the last.
CalledInTurn ==
    \A k \in Int :
        \/ Gen!CalledAgain(k)
        \/ /\ \A n \in DOMAIN handed :
                handed[n].key = k /\ handed[n].calls = 0 => k \in runner.pending /\ IsLast(k, n)
           /\ k \in DOMAIN runner.results => k \in runner.pending /\ IsLast(k, runner.results[k])
SuspendedRight ==
    runner.phase = "suspended" =>
        ~runner.exc /\ \E k \in Gen!KeysOf(runner.point) : k \in runner.pending \ DOMAIN runner.results
StartedRight == runner.phase = "start" => runner.point.rest # <<>>
WaitsRight == Gen!ResultsFromTheirCallback

OpsInv == KeysOwn /\ PendingLast /\ ResultsOfCalls /\ CalledInTurn /\ WaitsRight
GenInv == GenTypes /\ OpsInv /\ SuspendedRight /\ StartedRight

LEMMA HandedTypes ==
    ASSUME GenTypes
    PROVE  /\ Len(handed) \in Nat /\ DOMAIN handed = 1 .. Len(handed)
           /\ \A n \in DOMAIN handed : /\ n \in Int /\ n > 0 /\ handed[n] \in Operation
                                      /\ handed[n].key \in Int /\ handed[n].calls \in Nat
<1>1. Len(handed) \in Nat /\ DOMAIN handed = 1 .. Len(handed)
  BY DEF GenTypes
<1>2. ASSUME NEW n \in DOMAIN handed
      PROVE  handed[n] \in Operation /\ handed[n].key \in Int /\ handed[n].calls \in Nat
  <2>1. handed \in Seq(Operation)
    BY DEF GenTypes
  <2>2. handed[n] \in Operation
    BY <2>1
  <2> QED
    BY <2>2 DEF Operation
<1> QED
  BY <1>1, <1>2

LEMMA LastIsLast ==
    ASSUME GenTypes, NEW k, NEW n \in DOMAIN handed, IsLast(k, n)
    PROVE  Gen!LastCallback(k) = n
<1> DEFINE P(i) == handed[i].key = k /\ \A m \in i + 1 .. Len(handed) : handed[m].key # k
<1>1. DOMAIN handed = 1 .. Len(handed) /\ Len(handed) \in Nat
  BY DEF GenTypes
<1>2. P(n)
  BY <1>1 DEF IsLast
<1>3. \A i \in DOMAIN handed : P(i) => i = n
  BY <1>1, <1>2
<1>4. Gen!LastCallback(k) = CHOOSE i \in DOMAIN handed : P(i)
  BY DEF Gen!LastCallback
<1> HIDE DEF P
<1> QED
  BY <1>2, <1>3, <1>4

LEMMA GenWaitsRight == GenInv => WaitsGetTheirResults
<1> SUFFICES ASSUME GenInv PROVE WaitsGetTheirResults
  OBVIOUS
<1>1. Gen!ResultsFromTheirCallback
  BY DEF GenInv, OpsInv, WaitsRight
<1>2. ASSUME runner.phase = "suspended" PROVE Gen!NeverLeftWaiting
  <2>1. ~runner.exc
    BY <1>2 DEF GenInv, SuspendedRight
  <2>2. PICK k \in Gen!KeysOf(runner.point) : k \in runner.pending \ DOMAIN runner.results
    BY <1>2 DEF GenInv, SuspendedRight
  <2>3. PICK n \in DOMAIN handed : IsLast(k, n) /\ handed[n].calls = 0
    BY <2>2 DEF GenInv, OpsInv, PendingLast
  <2>4. Gen!LastCallback(k) = n
    BY <2>3, LastIsLast DEF GenInv
  <2> QED
    BY <2>1, <2>2, <2>3, <2>4 DEF Gen!NeverLeftWaiting
<1>3. Gen!NeverLeftWaiting
  BY <1>2 DEF Gen!NeverLeftWaiting
<1> QED
  BY <1>1, <1>3 DEF WaitsGetTheirResults, Gen!WaitsGetTheirResults

\* Nothing is registered, called or taken.
LEMMA OpsUntouched ==
    ASSUME OpsInv, handed' = handed, waits' = waits,
           runner'.pending = runner.pending, runner'.results = runner.results
    PROVE  OpsInv'
BY DEF OpsInv, KeysOwn, PendingLast, ResultsOfCalls, CalledInTurn, WaitsRight, IsLast,
       Gen!CalledAgain, Gen!ResultsFromTheirCallback

\* The results of a wait are taken.
LEMMA OpsPopped ==
    ASSUME GenTypes, OpsInv, NEW set, handed' = handed,
           \A k \in set : Gen!Ready(k),
           runner'.pending = runner.pending \ set,
           runner'.results = [k \in DOMAIN runner.results \ set |-> runner.results[k]],
           waits' \subseteq waits \cup
               {[key |-> k, op |-> runner.results[k], last |-> Gen!LastCallback(k)] : k \in set}
    PROVE  OpsInv'
<1>0. \A k \in set : k \in runner.pending /\ k \in DOMAIN runner.results
  BY DEF Gen!Ready
<1>a. \A k, n : IsLast(k, n)' <=> IsLast(k, n)
  BY DEF IsLast
<1>b. \A k : Gen!CalledAgain(k)' <=> Gen!CalledAgain(k)
  BY DEF Gen!CalledAgain
<1>1. KeysOwn'
  BY DEF OpsInv, KeysOwn
<1>2. PendingLast'
  BY <1>a DEF OpsInv, PendingLast
<1>3. ResultsOfCalls'
  BY DEF OpsInv, ResultsOfCalls
<1>4. CalledInTurn'
  <2> SUFFICES ASSUME NEW k \in Int, ~Gen!CalledAgain(k)
               PROVE  /\ \A n \in DOMAIN handed' :
                            handed'[n].key = k /\ handed'[n].calls = 0
                                => k \in runner'.pending /\ IsLast(k, n)'
                      /\ k \in DOMAIN runner'.results
                            => k \in runner'.pending /\ IsLast(k, runner.results[k])'
    BY <1>b DEF CalledInTurn
  <2>1. /\ \A n \in DOMAIN handed :
              handed[n].key = k /\ handed[n].calls = 0 => k \in runner.pending /\ IsLast(k, n)
        /\ k \in DOMAIN runner.results => k \in runner.pending /\ IsLast(k, runner.results[k])
    BY DEF OpsInv, CalledInTurn
  \* The last of a key that is taken has been called.
  <2>2. ASSUME NEW n \in DOMAIN handed, handed[n].key = k, handed[n].calls = 0
        PROVE  k \notin set
    <3> SUFFICES ASSUME k \in set PROVE FALSE
      OBVIOUS
    <3>1. IsLast(k, n) /\ IsLast(k, runner.results[k])
      BY <1>0, <2>1, <2>2
    <3>2. n = runner.results[k]
      BY <3>1 DEF IsLast, GenTypes
    <3> QED
      BY <1>0, <2>2, <3>2 DEF OpsInv, ResultsOfCalls, GenTypes
  <2>3. k \in DOMAIN runner'.results => k \notin set /\ runner'.results[k] = runner.results[k]
    OBVIOUS
  <2>4. ASSUME NEW n \in DOMAIN handed', handed'[n].key = k, handed'[n].calls = 0
        PROVE  k \in runner'.pending /\ IsLast(k, n)'
    BY <1>a, <2>1, <2>2, <2>4
  <2>5. ASSUME k \in DOMAIN runner'.results
        PROVE  k \in runner'.pending /\ IsLast(k, runner.results[k])'
    BY <1>a, <2>1, <2>3, <2>5
  <2> QED
    BY <2>4, <2>5
<1>5. WaitsRight'
  <2> SUFFICES ASSUME NEW w \in waits'
               PROVE  w.op = w.last \/ (w.key \in Keys /\ Gen!CalledAgain(w.key))
    BY <1>b DEF WaitsRight, Gen!ResultsFromTheirCallback
  <2>1. CASE w \in waits
    BY <2>1 DEF OpsInv, WaitsRight, Gen!ResultsFromTheirCallback
  <2>2. ASSUME NEW k \in set,
               w = [key |-> k, op |-> runner.results[k], last |-> Gen!LastCallback(k)]
        PROVE  w.op = w.last \/ (w.key \in Keys /\ Gen!CalledAgain(w.key))
    <3> DEFINE n == runner.results[k]
    <3>1. n \in DOMAIN handed /\ handed[n].key = k /\ k \in Int /\ n \in Int
      BY <1>0, HandedTypes DEF OpsInv, ResultsOfCalls
    <3>2. IsLast(k, n) => w.op = w.last
      BY <2>2, <3>1, LastIsLast
    <3>3. CASE k \in Keys
      BY <1>0, <2>2, <3>1, <3>2, <3>3 DEF OpsInv, CalledInTurn
    <3>4. CASE k \notin Keys
      <4>1. \A m \in DOMAIN handed : handed[m].key = k => m = n
        BY <3>1, <3>4, HandedTypes DEF OpsInv, KeysOwn
      <4> QED
        BY <3>1, <3>2, <4>1, HandedTypes DEF IsLast
    <3> QED
      BY <3>3, <3>4
  <2> QED
    BY <2>1, <2>2
<1> QED
  BY <1>1, <1>2, <1>3, <1>4, <1>5 DEF OpsInv

\* A key that is not pending is registered.
LEMMA OpsRegistered ==
    ASSUME GenTypes, OpsInv, NEW key \in Int, key \notin runner.pending,
           key \in Keys \/ key = -(Len(handed) + 1),
           handed' = Append(handed, [key |-> key, calls |-> 0]),
           runner'.pending = runner.pending \cup {key},
           runner'.results = runner.results, waits' = waits
    PROVE  OpsInv'
<1>0. PICK new \in Int : new = Len(handed) + 1
  BY HandedTypes
<1>1. /\ DOMAIN handed' = DOMAIN handed \cup {new} /\ new \notin DOMAIN handed /\ new \in Int
      /\ handed'[new].key = key /\ handed'[new].calls = 0
      /\ \A n \in DOMAIN handed : n \in Int /\ n < new /\ handed'[n] = handed[n]
  <2>1. /\ Len(handed) \in Nat /\ DOMAIN handed = 1 .. Len(handed)
        /\ handed \in Seq(Operation)
    BY HandedTypes DEF GenTypes
  <2> DEFINE op == [key |-> key, calls |-> 0]
  <2>2. op \in Operation
    BY DEF Operation
  <2>3. op.key = key /\ op.calls = 0
    OBVIOUS
  <2> HIDE DEF op
  <2>4. /\ DOMAIN handed' = 1 .. Len(handed) + 1 /\ handed'[Len(handed) + 1] = op
        /\ \A n \in 1 .. Len(handed) : handed'[n] = handed[n]
    BY <2>1, <2>2 DEF op
  <2> QED
    BY <1>0, <2>1, <2>3, <2>4
<1>2. \A k : \A n \in DOMAIN handed : k # key => (IsLast(k, n)' <=> IsLast(k, n))
  BY <1>1 DEF IsLast
<1>3. IsLast(key, new)'
  BY <1>1 DEF IsLast
<1>4. \A k : Gen!CalledAgain(k) => Gen!CalledAgain(k)'
  BY <1>1 DEF Gen!CalledAgain
<1>5. KeysOwn'
  <2>1. \A n \in DOMAIN handed : handed'[n].key \in Keys \/ handed'[n].key = -n
    BY <1>1 DEF OpsInv, KeysOwn
  <2>2. handed'[new].key \in Keys \/ handed'[new].key = -new
    BY <1>0, <1>1
  <2> QED
    BY <1>1, <2>1, <2>2 DEF KeysOwn
<1>6. PendingLast'
  <2>1. ASSUME NEW k \in runner.pending
        PROVE  \E n \in DOMAIN handed' :
                  IsLast(k, n)' /\ (k \notin DOMAIN runner.results => handed'[n].calls = 0)
    BY <1>1, <1>2 DEF OpsInv, PendingLast
  <2>2. \E n \in DOMAIN handed' :
            IsLast(key, n)' /\ (key \notin DOMAIN runner.results => handed'[n].calls = 0)
    BY <1>1, <1>3
  <2> QED
    BY <2>1, <2>2 DEF PendingLast
<1>7. ResultsOfCalls'
  BY <1>1 DEF OpsInv, ResultsOfCalls
<1>8. CalledInTurn'
  <2> SUFFICES ASSUME NEW k \in Int, ~Gen!CalledAgain(k)'
               PROVE  /\ \A n \in DOMAIN handed' :
                            handed'[n].key = k /\ handed'[n].calls = 0
                                => k \in runner'.pending /\ IsLast(k, n)'
                      /\ k \in DOMAIN runner'.results
                            => k \in runner'.pending /\ IsLast(k, runner.results[k])'
    BY DEF CalledInTurn
  <2>1. /\ \A n \in DOMAIN handed :
              handed[n].key = k /\ handed[n].calls = 0 => k \in runner.pending /\ IsLast(k, n)
        /\ k \in DOMAIN runner.results => k \in runner.pending /\ IsLast(k, runner.results[k])
    BY <1>4 DEF OpsInv, CalledInTurn
  <2>2. CASE k = key
    BY <1>1, <1>3, <2>1, <2>2
  <2>3. CASE k # key
    <3>1. ASSUME NEW n \in DOMAIN handed', handed'[n].key = k, handed'[n].calls = 0
          PROVE  k \in runner'.pending /\ IsLast(k, n)'
      BY <1>1, <1>2, <2>1, <2>3, <3>1
    <3>2. ASSUME k \in DOMAIN runner'.results
          PROVE  k \in runner'.pending /\ IsLast(k, runner.results[k])'
      <4>1. runner.results[k] \in DOMAIN handed /\ runner'.results[k] = runner.results[k]
        BY <3>2 DEF OpsInv, ResultsOfCalls
      <4> QED
        BY <1>2, <2>1, <2>3, <3>2, <4>1
    <3> QED
      BY <3>1, <3>2
  <2> QED
    BY <2>2, <2>3
<1>9. WaitsRight'
  BY <1>4 DEF OpsInv, WaitsRight, Gen!ResultsFromTheirCallback
<1> QED
  BY <1>5, <1>6, <1>7, <1>8, <1>9 DEF OpsInv

\* A callback is called.
LEMMA OpsCalled ==
    ASSUME GenTypes, OpsInv, NEW n \in DOMAIN handed,
           handed' = [handed EXCEPT ![n].calls = @ + 1],
           runner'.pending = runner.pending,
           runner'.results = [j \in DOMAIN runner.results \cup {handed[n].key} |->
                                 IF j = handed[n].key THEN n ELSE runner.results[j]],
           waits' = waits
    PROVE  OpsInv'
<1>0. PICK key \in Int : key = handed[n].key
  BY HandedTypes
<1>1. /\ DOMAIN handed' = DOMAIN handed
      /\ \A m \in DOMAIN handed : handed'[m].key = handed[m].key
      /\ \A m \in DOMAIN handed : m # n => handed'[m].calls = handed[m].calls
      /\ handed'[n].calls = handed[n].calls + 1 /\ handed[n].calls \in Nat
  <2> DEFINE op == [handed[n] EXCEPT !.calls = @ + 1]
  <2>1. handed[n] \in Operation /\ handed[n].calls \in Nat
    BY HandedTypes
  <2>2. op.key = handed[n].key /\ op.calls = handed[n].calls + 1
    BY <2>1 DEF Operation
  <2>3. handed' = [handed EXCEPT ![n] = op]
    OBVIOUS
  <2> HIDE DEF op
  <2>4. DOMAIN handed' = DOMAIN handed /\ handed'[n] = op
        /\ \A m \in DOMAIN handed : m # n => handed'[m] = handed[m]
    BY <2>3
  <2> QED
    BY <2>1, <2>2, <2>4
<1>2. \A k, m : IsLast(k, m)' <=> IsLast(k, m)
  BY <1>1 DEF IsLast
<1>3. \A k : Gen!CalledAgain(k) => Gen!CalledAgain(k)'
  BY <1>1, HandedTypes DEF Gen!CalledAgain
<1>4. handed[n].calls # 0 => Gen!CalledAgain(key)'
  BY <1>0, <1>1 DEF Gen!CalledAgain
<1>5. KeysOwn'
  BY <1>1 DEF OpsInv, KeysOwn
<1>6. PendingLast'
  <2> SUFFICES ASSUME NEW k \in runner.pending
               PROVE  \E m \in DOMAIN handed' :
                         IsLast(k, m)' /\ (k \notin DOMAIN runner'.results => handed'[m].calls = 0)
    BY DEF PendingLast
  <2>1. PICK m \in DOMAIN handed :
            IsLast(k, m) /\ (k \notin DOMAIN runner.results => handed[m].calls = 0)
    BY DEF OpsInv, PendingLast
  <2>2. m = n => k \in DOMAIN runner'.results
    BY <1>0, <2>1 DEF IsLast
  <2> QED
    BY <1>1, <1>2, <2>1, <2>2
<1>7. ResultsOfCalls'
  <2>1. ASSUME NEW k \in DOMAIN runner'.results
        PROVE  /\ runner'.results[k] \in DOMAIN handed' /\ handed'[runner'.results[k]].key = k
               /\ handed'[runner'.results[k]].calls > 0
    <3>1. CASE k = key
      <4>1. runner'.results[k] = n
        BY <1>0, <3>1
      <4>2. n \in DOMAIN handed' /\ handed'[n].key = key
        BY <1>0, <1>1
      <4>3. handed'[n].calls > 0
        BY <1>1
      <4> QED
        BY <3>1, <4>1, <4>2, <4>3
    <3>2. CASE k # key
      <4>1. /\ runner'.results[k] = runner.results[k] /\ k \in DOMAIN runner.results
            /\ runner.results[k] \in DOMAIN handed /\ handed[runner.results[k]].key = k
            /\ handed[runner.results[k]].calls > 0
        BY <1>0, <2>1, <3>2 DEF OpsInv, ResultsOfCalls
      <4> QED
        BY <1>1, <3>2, <4>1
    <3> QED
      BY <3>1, <3>2
  <2> QED
    BY <2>1 DEF ResultsOfCalls
<1>8. CalledInTurn'
  <2> SUFFICES ASSUME NEW k \in Int, ~Gen!CalledAgain(k)'
               PROVE  /\ \A m \in DOMAIN handed' :
                            handed'[m].key = k /\ handed'[m].calls = 0
                                => k \in runner'.pending /\ IsLast(k, m)'
                      /\ k \in DOMAIN runner'.results
                            => k \in runner'.pending /\ IsLast(k, runner.results[k])'
    BY DEF CalledInTurn
  <2>1. /\ \A m \in DOMAIN handed :
              handed[m].key = k /\ handed[m].calls = 0 => k \in runner.pending /\ IsLast(k, m)
        /\ k \in DOMAIN runner.results => k \in runner.pending /\ IsLast(k, runner.results[k])
    BY <1>3 DEF OpsInv, CalledInTurn
  <2>2. ASSUME NEW m \in DOMAIN handed', handed'[m].key = k, handed'[m].calls = 0
        PROVE  k \in runner'.pending /\ IsLast(k, m)'
    BY <1>1, <1>2, <2>1, <2>2
  <2>3. ASSUME k \in DOMAIN runner'.results
        PROVE  k \in runner'.pending /\ IsLast(k, runner.results[k])'
    <3>1. CASE k = key
      <4>1. handed[n].calls = 0
        BY <1>1, <1>4, <3>1
      <4>2. k \in runner.pending /\ IsLast(k, n)
        BY <1>0, <2>1, <3>1, <4>1
      <4>3. runner'.results[k] = n
        BY <1>0, <3>1
      <4> QED
        BY <1>2, <4>2, <4>3
    <3>2. CASE k # key
      <4>1. runner'.results[k] = runner.results[k] /\ k \in DOMAIN runner.results
        BY <1>0, <2>3, <3>2
      <4> QED
        BY <1>2, <2>1, <4>1
    <3> QED
      BY <3>1, <3>2
  <2> QED
    BY <2>2, <2>3
<1>9. WaitsRight'
  BY <1>3 DEF OpsInv, WaitsRight, Gen!ResultsFromTheirCallback
<1> QED
  BY <1>5, <1>6, <1>7, <1>8, <1>9 DEF OpsInv

\* One of the keys that are asked for is the first that is not ready.
LEMMA FirstUnready ==
    ASSUME ~Gen!AsksUnknown(runner.point.keys), runner.point.keys \in Seq(Int),
           \E k \in Gen!KeysOf(runner.point) : ~Gen!Ready(k)
    PROVE  \E k \in Gen!KeysOf(runner.point) : k \in runner.pending \ DOMAIN runner.results
<1> DEFINE keys == runner.point.keys
           U == {i \in DOMAIN keys : ~Gen!Ready(keys[i])}
<1>1. U \subseteq Nat /\ U # {} /\ DOMAIN keys = 1 .. Len(keys)
  BY DEF Gen!KeysOf
<1>2. PICK i \in U : \A j \in U : i <= j
  <2> HIDE DEF U
  <2> QED
    BY <1>1, LowestExists
<1>3. ASSUME NEW j \in 1 .. i - 1 PROVE Gen!Ready(keys[j])
  <2>1. i \in Nat /\ i \in 1 .. Len(keys) /\ Len(keys) \in Nat
    BY <1>1, <1>2
  <2>2. j \in DOMAIN keys /\ ~(i <= j)
    BY <1>1, <2>1
  <2> QED
    BY <1>2, <2>2
<1>4. keys[i] \in runner.pending
  BY <1>2, <1>3 DEF Gen!AsksUnknown
<1> QED
  BY <1>2, <1>4 DEF Gen!KeysOf, Gen!Ready

\* The head of run(): the generator is resumed, with the results or an exception, or it
\* is suspended.
LEMMA GenResume ==
    ASSUME GenInv, Gen!Resume PROVE GenInv'
<1> DEFINE set == Gen!KeysOf(runner.point)
<1>1. handed' = handed
  BY DEF Gen!Resume
<1>2. CASE /\ \/ runner' = [runner EXCEPT !.phase = "body"]
              \/ runner' = [runner EXCEPT !.exc = TRUE, !.phase = "body"]
           /\ UNCHANGED waits
  <2>1. GenTypes' /\ runner'.phase = "body" /\ runner'.pending = runner.pending
        /\ runner'.results = runner.results
    BY <1>1, <1>2 DEF GenInv, GenTypes
  <2> QED
    BY <1>1, <1>2, <2>1, OpsUntouched DEF GenInv, SuspendedRight, StartedRight
<1>4. CASE /\ ~runner.exc /\ ~Gen!AsksUnknown(runner.point.keys)
           /\ \E k \in set : ~Gen!Ready(k)
           /\ runner' = [runner EXCEPT !.phase = "suspended"] /\ UNCHANGED waits
  <2>1. GenTypes' /\ runner'.phase = "suspended" /\ runner'.pending = runner.pending
        /\ runner'.results = runner.results /\ runner'.point = runner.point
        /\ runner'.exc = runner.exc
    BY <1>1, <1>4 DEF GenInv, GenTypes
  \* The first that is not ready is pending, or the question would have raised.
  <2>2. \E k \in set : k \in runner.pending \ DOMAIN runner.results
    BY <1>4, FirstUnready DEF GenInv, GenTypes
  <2>3. SuspendedRight'
    BY <1>4, <2>1, <2>2 DEF SuspendedRight, Gen!KeysOf
  <2> QED
    BY <1>1, <1>4, <2>1, <2>3, OpsUntouched DEF GenInv, StartedRight
<1>5. ASSUME NEW exc \in BOOLEAN,
             \A k \in set : Gen!Ready(k),
             runner' = [Gen!Popped(runner, set) EXCEPT !.phase = "body", !.exc = exc],
             waits' \subseteq waits \cup
               {[key |-> k, op |-> runner.results[k], last |-> Gen!LastCallback(k)] : k \in set}
      PROVE  GenInv'
  <2> HIDE DEF set
  <2> DEFINE results == [k \in DOMAIN runner.results \ set |-> runner.results[k]]
  <2>1. Gen!Popped(runner, set) = [runner EXCEPT !.pending = @ \ set, !.results = results]
    BY DEF Gen!Popped, GenInv, GenTypes
  <2> HIDE DEF results
  <2>2. /\ runner'.phase = "body" /\ runner'.exc = exc /\ runner'.point = runner.point
        /\ runner'.pending = runner.pending \ set /\ runner'.results = results
        /\ runner' = [phase |-> runner'.phase, point |-> runner'.point, pending |-> runner'.pending,
                      results |-> runner'.results, exc |-> runner'.exc,
                      hadException |-> runner'.hadException, leaked |-> runner'.leaked,
                      yields |-> runner'.yields]
    BY <1>5, <2>1 DEF GenInv, GenTypes
  <2>3. GenTypes'
    BY <1>1, <2>2 DEF GenInv, GenTypes
  <2>4. OpsInv'
    BY <1>1, <1>5, <2>2, OpsPopped DEF GenInv, results
  <2> QED
    BY <2>2, <2>3, <2>4 DEF GenInv, SuspendedRight, StartedRight
<1>6. CASE /\ ~runner.exc /\ ~Gen!AsksUnknown(runner.point.keys)
           /\ ~\E k \in set : ~Gen!Ready(k)
  <2> DEFINE twice == Gen!Cardinality(set) < Len(runner.point.keys)
  <2>1. /\ runner' = [Gen!Popped(runner, set) EXCEPT !.phase = "body", !.exc = twice]
        /\ waits' = IF twice THEN waits ELSE waits \cup
               {[key |-> k, op |-> runner.results[k], last |-> Gen!LastCallback(k)] : k \in set}
    BY <1>6 DEF Gen!Resume
  <2>2. twice \in BOOLEAN
    OBVIOUS
  <2> HIDE DEF twice, set
  <2>3. waits' \subseteq waits \cup
               {[key |-> k, op |-> runner.results[k], last |-> Gen!LastCallback(k)] : k \in set}
    BY <2>1
  <2> QED
    BY <1>5, <1>6, <2>1, <2>2, <2>3
<1> QED
  BY <1>2, <1>4, <1>6 DEF Gen!Resume

\* The children of a yield point, and their keys.
LEMMA ChildrenTyped ==
    \A c \in Gen!Children : /\ c.what \in {"callback", "wait", "task"}
                            /\ c.what # "task" => c.key \in Keys
BY DEF Gen!Children

LEMMA PointsTyped ==
    \A children \in Gen!YieldPoints : children \in Seq(Gen!Children) /\ children # <<>>
<1>1. /\ \A c \in Gen!Children : <<c>> \in Seq(Gen!Children) /\ <<c>> # <<>>
      /\ \A c, d \in Gen!Children : <<c, d>> \in Seq(Gen!Children) /\ <<c, d>> # <<>>
  OBVIOUS
<1> SUFFICES ASSUME NEW children \in Gen!YieldPoints
             PROVE  children \in Seq(Gen!Children) /\ children # <<>>
  OBVIOUS
<1>2. \/ \E c \in Gen!Children : children = <<c>>
      \/ \E c, d \in Gen!Children : children = <<c, d>>
  <2>1. \/ children \in {<<c>> : c \in Gen!Children}
        \/ children \in {<<c, d>> : c, d \in Gen!Children}
    BY DEF Gen!YieldPoints
  <2> DEFINE C == Gen!Children
  <2>2. CASE children \in {<<c>> : c \in C}
    BY <2>2
  <2>3. CASE children \in {<<c, d>> : c, d \in C}
    <3> HIDE DEF C
    <3>1. \E c, d \in C : children = <<c, d>>
      BY <2>3, SMT
    <3> QED
      BY <3>1 DEF C
  <2> QED
    BY <2>1, <2>2, <2>3
<1> QED
  BY <1>1, <1>2, Zenon

\* The runner without a change of its callbacks, past the start of a child.
LEMMA GenPointed ==
    ASSUME GenInv, handed' = handed, waits' = waits, NEW rest \in Seq(Gen!Children),
           NEW keys \in Seq(Int), runner'.point = [rest |-> rest, keys |-> keys],
           runner'.phase \in {"top", "start", "task"}, runner'.phase = "start" => rest # <<>>,
           runner'.exc \in BOOLEAN,
           runner'.pending = runner.pending, runner'.results = runner.results,
           runner' = [phase |-> runner'.phase, point |-> runner'.point, pending |-> runner'.pending,
                      results |-> runner'.results, exc |-> runner'.exc,
                      hadException |-> runner'.hadException, leaked |-> runner'.leaked,
                      yields |-> runner'.yields]
    PROVE  GenInv'
<1>1. GenTypes'
  BY DEF GenInv, GenTypes
<1>2. OpsInv'
  BY OpsUntouched DEF GenInv
<1> QED
  BY <1>1, <1>2 DEF GenInv, SuspendedRight, StartedRight

\* The generator runs up to its next yield or its end.
LEMMA GenBody ==
    ASSUME GenInv,
           \/ \E children \in Gen!YieldPoints : Gen!Yield(children)
           \/ Gen!YieldUnknown \/ Gen!Finish
    PROVE  GenInv'
<1>1. handed' = handed /\ waits' = waits
  BY DEF Gen!Yield, Gen!YieldUnknown, Gen!Finish
<1>2. ASSUME NEW children \in Gen!YieldPoints, Gen!Yield(children)
      PROVE  GenInv'
  <2>1. children \in Seq(Gen!Children) /\ children # <<>>
    BY PointsTyped
  <2>2. /\ runner'.phase = "start" /\ runner'.exc = FALSE
        /\ runner'.point = [rest |-> children, keys |-> <<>>]
        /\ runner'.pending = runner.pending /\ runner'.results = runner.results
        /\ runner' = [phase |-> runner'.phase, point |-> runner'.point, pending |-> runner'.pending,
                      results |-> runner'.results, exc |-> runner'.exc,
                      hadException |-> runner'.hadException, leaked |-> runner'.leaked,
                      yields |-> runner'.yields]
    BY <1>2 DEF Gen!Yield, Gen!Thrown, Gen!Point, GenInv, GenTypes
  <2>3. GenTypes'
    <3>1. <<>> \in Seq(Int)
      OBVIOUS
    <3>2. runner'.point.rest = children /\ runner'.point.keys = <<>>
      BY <2>2
    <3>3. handed' \in Seq(Operation)
      BY <1>1 DEF GenInv, GenTypes
    <3> QED
      BY <2>1, <2>2, <3>1, <3>2, <3>3 DEF GenTypes
  <2> QED
    BY <1>1, <2>1, <2>2, <2>3, OpsUntouched DEF GenInv, SuspendedRight, StartedRight
<1>3. ASSUME Gen!YieldUnknown \/ Gen!Finish
      PROVE  GenInv'
  <2>1. /\ runner'.phase \in {"top", "finished"} /\ runner'.point = runner.point
        /\ runner'.exc \in BOOLEAN
        /\ runner'.pending = runner.pending /\ runner'.results = runner.results
        /\ runner' = [phase |-> runner'.phase, point |-> runner'.point, pending |-> runner'.pending,
                      results |-> runner'.results, exc |-> runner'.exc,
                      hadException |-> runner'.hadException, leaked |-> runner'.leaked,
                      yields |-> runner'.yields]
    BY <1>3 DEF Gen!YieldUnknown, Gen!Finish, Gen!Thrown, GenInv, GenTypes
  <2>2. GenTypes'
    BY <1>1, <2>1 DEF GenInv, GenTypes
  <2> QED
    BY <1>1, <2>1, <2>2, OpsUntouched DEF GenInv, SuspendedRight, StartedRight
<1> QED
  BY <1>2, <1>3

\* start() of one child of the yield point.
LEMMA GenStart ==
    ASSUME GenInv, Gen!Start PROVE GenInv'
<1> DEFINE child == Head(runner.point.rest)
           rest == Tail(runner.point.rest)
           key == IF child.what = "task" THEN -(Len(handed) + 1) ELSE child.key
           asked1 == IF child.what = "callback" THEN <<>> ELSE <<key>>
           keys == runner.point.keys \o asked1
           next == [runner EXCEPT !.point = Gen!Point(rest, keys)]
           registered == [next EXCEPT !.pending = @ \cup {key}]
<1>1. /\ waits' = waits /\ runner.phase = "start"
      /\ IF child.what = "wait" THEN runner' = Gen!Started(next) /\ handed' = handed
         ELSE IF key \in runner.pending
         THEN runner' = [next EXCEPT !.phase = "top", !.exc = TRUE] /\ handed' = handed
         ELSE /\ handed' = Append(handed, [key |-> key, calls |-> 0])
              /\ runner' = IF child.what = "task" THEN [registered EXCEPT !.phase = "task"]
                           ELSE Gen!Started(registered)
  <2>1. [runner EXCEPT !.point = Gen!Point(Tail(@.rest), @.keys \o asked1)] = next
    OBVIOUS
  <2> QED
    BY <2>1 DEF Gen!Start
<1>2. /\ runner.point.rest \in Seq(Gen!Children) /\ runner.point.rest # <<>>
      /\ runner.point.keys \in Seq(Int)
  BY <1>1 DEF GenInv, GenTypes, StartedRight
<1>3. child \in Gen!Children /\ rest \in Seq(Gen!Children)
  BY <1>2
<1>4. key \in Int /\ (key \in Keys \/ key = -(Len(handed) + 1))
  <2>1. CASE child.what = "task"
    BY <2>1, HandedTypes DEF GenInv
  <2>2. CASE child.what # "task"
    <3>1. key = child.key
      BY <2>2
    <3>2. child.key \in Keys
      <4> HIDE DEF child, key
      <4> QED
        BY <1>3, <2>2, ChildrenTyped
    <3> HIDE DEF child, key
    <3>3. key \in Keys /\ key \in Int
      <4>1. Keys \subseteq Nat
        BY SizesAssumption, Zenon
      <4>2. key \in Keys
        BY ONLY <3>1, <3>2
      <4> QED
        BY ONLY <4>1, <4>2
    <3> QED
      BY ONLY <3>3
  <2> QED
    BY <2>1, <2>2
<1> HIDE DEF key
<1>5. keys \in Seq(Int)
  <2>1. asked1 \in Seq(Int)
    BY <1>4
  <2> HIDE DEF asked1
  <2> QED
    BY <1>2, <2>1
<1> HIDE DEF child, rest, keys
<1>6. /\ next.phase = runner.phase /\ next.exc = runner.exc /\ next.pending = runner.pending
      /\ next.results = runner.results /\ next.point = [rest |-> rest, keys |-> keys]
      /\ next = [phase |-> next.phase, point |-> next.point, pending |-> next.pending,
                 results |-> next.results, exc |-> next.exc,
                 hadException |-> next.hadException, leaked |-> next.leaked,
                 yields |-> next.yields]
      /\ runner.exc \in BOOLEAN
  BY DEF Gen!Point, GenInv, GenTypes
<1>7. /\ registered.phase = runner.phase /\ registered.exc = runner.exc
      /\ registered.pending = runner.pending \cup {key}
      /\ registered.results = runner.results /\ registered.point = [rest |-> rest, keys |-> keys]
      /\ registered = [phase |-> registered.phase, point |-> registered.point,
                       pending |-> registered.pending,
                       results |-> registered.results, exc |-> registered.exc,
                       hadException |-> registered.hadException, leaked |-> registered.leaked,
                       yields |-> registered.yields]
  <2> HIDE DEF next
  <2> QED
    BY <1>6
<1> HIDE DEF next, registered
<1>8. CASE runner' = Gen!Started(next) /\ handed' = handed
  <2>1. /\ runner'.point = [rest |-> rest, keys |-> keys]
        /\ runner'.phase \in {"top", "start"} /\ (runner'.phase = "start" => rest # <<>>)
        /\ runner'.exc = runner.exc
        /\ runner'.pending = runner.pending /\ runner'.results = runner.results
        /\ runner' = [phase |-> runner'.phase, point |-> runner'.point, pending |-> runner'.pending,
                      results |-> runner'.results, exc |-> runner'.exc,
                      hadException |-> runner'.hadException, leaked |-> runner'.leaked,
                      yields |-> runner'.yields]
    BY <1>6, <1>8 DEF Gen!Started
  <2> QED
    BY <1>1, <1>3, <1>5, <1>6, <1>8, <2>1, GenPointed
<1>9. CASE runner' = [next EXCEPT !.phase = "top", !.exc = TRUE] /\ handed' = handed
  <2>1. /\ runner'.point = [rest |-> rest, keys |-> keys]
        /\ runner'.phase = "top" /\ runner'.exc = TRUE
        /\ runner'.pending = runner.pending /\ runner'.results = runner.results
        /\ runner' = [phase |-> runner'.phase, point |-> runner'.point, pending |-> runner'.pending,
                      results |-> runner'.results, exc |-> runner'.exc,
                      hadException |-> runner'.hadException, leaked |-> runner'.leaked,
                      yields |-> runner'.yields]
    BY <1>6, <1>9
  <2> QED
    BY <1>1, <1>3, <1>5, <1>9, <2>1, GenPointed
<1>10. CASE /\ key \notin runner.pending
            /\ handed' = Append(handed, [key |-> key, calls |-> 0])
            /\ \/ runner' = [registered EXCEPT !.phase = "task"]
               \/ runner' = Gen!Started(registered)
  <2>1. /\ runner'.point = [rest |-> rest, keys |-> keys]
        /\ runner'.phase \in {"top", "start", "task"} /\ (runner'.phase = "start" => rest # <<>>)
        /\ runner'.exc = runner.exc
        /\ runner'.pending = runner.pending \cup {key} /\ runner'.results = runner.results
        /\ runner' = [phase |-> runner'.phase, point |-> runner'.point, pending |-> runner'.pending,
                      results |-> runner'.results, exc |-> runner'.exc,
                      hadException |-> runner'.hadException, leaked |-> runner'.leaked,
                      yields |-> runner'.yields]
    <3>1. CASE runner' = [registered EXCEPT !.phase = "task"]
      BY <1>7, <3>1
    <3>2. CASE runner' = Gen!Started(registered)
      BY <1>7, <3>2 DEF Gen!Started
    <3> QED
      BY <1>10, <3>1, <3>2
  <2>2. handed' \in Seq(Operation)
    <3>1. [key |-> key, calls |-> 0] \in Operation
      BY <1>4 DEF Operation
    <3>2. handed \in Seq(Operation)
      BY DEF GenInv, GenTypes
    <3> DEFINE op == [key |-> key, calls |-> 0]
    <3> HIDE DEF op
    <3>3. op \in Operation /\ handed' = Append(handed, op)
      BY <1>10, <3>1 DEF op
    <3> QED
      BY <3>2, <3>3
  <2>3. GenTypes'
    BY <1>3, <1>5, <1>6, <2>1, <2>2 DEF GenTypes
  <2>4. OpsInv'
    BY <1>1, <1>4, <1>10, <2>1, OpsRegistered DEF GenInv
  <2> QED
    BY <2>1, <2>3, <2>4 DEF GenInv, SuspendedRight, StartedRight
<1> QED
  BY <1>1, <1>8, <1>9, <1>10

\* A callback is called, or an operation raises, and the generator runs unless it does.
LEMMA GenCalled ==
    ASSUME GenInv, NEW n \in DOMAIN handed, Gen!Call(n) PROVE GenInv'
<1> DEFINE key == handed[n].key
           results == [j \in DOMAIN runner.results \cup {key} |->
                          IF j = key THEN n ELSE runner.results[j]]
<1>1. /\ handed' = [handed EXCEPT ![n].calls = @ + 1] /\ waits' = waits
      /\ runner' = Gen!Run([runner EXCEPT !.results = results])
  BY DEF Gen!Call
<1> HIDE DEF results
<1>2. /\ runner'.phase # "suspended" /\ runner'.exc = runner.exc /\ runner'.point = runner.point
      /\ runner'.phase = "start" => runner.phase = "start"
      /\ runner'.pending = runner.pending /\ runner'.results = results
      /\ runner' = [phase |-> runner'.phase, point |-> runner'.point, pending |-> runner'.pending,
                    results |-> runner'.results, exc |-> runner'.exc,
                    hadException |-> runner'.hadException, leaked |-> runner'.leaked,
                    yields |-> runner'.yields]
  BY <1>1 DEF Gen!Run, GenInv, GenTypes
<1>3. handed' \in Seq(Operation)
  <2> DEFINE op == [handed[n] EXCEPT !.calls = @ + 1]
  <2>1. op \in Operation
    BY HandedTypes DEF Operation, GenInv
  <2>2. handed' = [handed EXCEPT ![n] = op]
    BY <1>1
  <2>3. handed \in Seq(Operation)
    BY DEF GenInv, GenTypes
  <2> HIDE DEF op
  <2> QED
    BY <2>1, <2>2, <2>3
<1>4. GenTypes'
  BY <1>2, <1>3 DEF GenInv, GenTypes
<1>5. OpsInv'
  BY <1>1, <1>2, OpsCalled DEF GenInv, results
<1> QED
  BY <1>2, <1>4, <1>5 DEF GenInv, SuspendedRight, StartedRight

LEMMA GenKept == GenInv /\ [Gen!GenNext]_genVars => GenInv'
<1> SUFFICES ASSUME GenInv, [Gen!GenNext]_genVars PROVE GenInv'
  OBVIOUS
<1>1. CASE UNCHANGED genVars
  <2>1. runner' = runner /\ handed' = handed /\ waits' = waits
    BY <1>1 DEF genVars
  <2>2. GenTypes'
    BY <2>1 DEF GenInv, GenTypes
  <2> QED
    BY <2>1, <2>2, OpsUntouched DEF GenInv, SuspendedRight, StartedRight, Gen!KeysOf
<1>2. CASE Gen!TaskReturns
  <2>1. runner' = Gen!Started(runner) \/ runner' = [runner EXCEPT !.phase = "top", !.exc = TRUE]
    BY <1>2 DEF Gen!TaskReturns
  <2>2. handed' = handed /\ waits' = waits
    BY <1>2 DEF Gen!TaskReturns
  <2>3. /\ runner'.point = runner.point /\ runner'.exc \in BOOLEAN
        /\ runner'.phase \in {"top", "start"}
        /\ (runner'.phase = "start" => runner.point.rest # <<>>)
        /\ runner'.pending = runner.pending /\ runner'.results = runner.results
        /\ runner' = [phase |-> runner'.phase, point |-> runner'.point, pending |-> runner'.pending,
                      results |-> runner'.results, exc |-> runner'.exc,
                      hadException |-> runner'.hadException, leaked |-> runner'.leaked,
                      yields |-> runner'.yields]
    BY <2>1 DEF Gen!Started, GenInv, GenTypes
  <2>4. /\ runner.point = [rest |-> runner.point.rest, keys |-> runner.point.keys]
        /\ runner.point.rest \in Seq(Gen!Children) /\ runner.point.keys \in Seq(Int)
    BY DEF GenInv, GenTypes
  <2> QED
    BY <2>2, <2>3, <2>4, GenPointed
<1>3. CASE Gen!OperationRaises
  <2>1. handed' = handed /\ waits' = waits /\ runner' = [runner EXCEPT !.exc = TRUE, !.phase = "top"]
    BY <1>3 DEF Gen!OperationRaises, Gen!Run, GenInv, GenTypes
  <2>3. GenTypes' /\ runner'.phase = "top" /\ runner'.pending = runner.pending
        /\ runner'.results = runner.results
    BY <2>1 DEF GenInv, GenTypes
  <2> QED
    BY <2>1, <2>3, OpsUntouched DEF GenInv, SuspendedRight, StartedRight
<1> QED
  BY <1>1, <1>2, <1>3, GenResume, GenBody, GenStart, GenCalled DEF Gen!GenNext

(* However the callbacks come, before the wait, within the function that   *)
(* was given one or again, an operation that answers wakes the generator   *)
(* that waits for it, and the result goes to the wait for its key, for any *)
(* keys and any program.                                                   *)
THEOREM WaitsAlwaysGetTheirResults == ServicesSpec => []WaitsGetTheirResults
<1>1. ServicesInit => GenInv
  <2> SUFFICES ASSUME Gen!GenInit PROVE GenInv
    BY DEF ServicesInit
  <2>1. /\ runner = [phase |-> "top", point |-> Gen!Point(<<>>, <<>>), pending |-> {},
                     results |-> [k \in {} |-> 0], exc |-> FALSE, hadException |-> FALSE,
                     leaked |-> FALSE, yields |-> 0]
        /\ handed = <<>> /\ waits = {}
    BY DEF Gen!GenInit
  <2>2. runner.phase = "top" /\ runner.pending = {} /\ DOMAIN runner.results = {}
    BY <2>1
  <2>3. /\ handed \in Seq(Operation) /\ runner.point.rest \in Seq(Gen!Children)
        /\ runner.point.keys \in Seq(Int)
    <3>1. <<>> \in Seq(Operation) /\ <<>> \in Seq(Int) /\ <<>> \in Seq(Gen!Children)
      OBVIOUS
    <3>2. runner.point = Gen!Point(<<>>, <<>>)
      BY <2>1
    <3>3. runner.point.keys = <<>> /\ runner.point.rest = <<>>
      BY <3>2 DEF Gen!Point
    <3> QED
      BY <2>1, <3>1, <3>3
  <2>4. /\ runner = [phase |-> runner.phase, point |-> runner.point, pending |-> runner.pending,
                     results |-> runner.results, exc |-> runner.exc,
                     hadException |-> runner.hadException, leaked |-> runner.leaked,
                     yields |-> runner.yields]
        /\ runner.point = [rest |-> runner.point.rest, keys |-> runner.point.keys]
        /\ runner.exc \in BOOLEAN
    BY <2>1 DEF Gen!Point
  <2>5. GenTypes
    BY <2>3, <2>4 DEF GenTypes
  <2> QED
    BY <2>1, <2>2, <2>5 DEF GenInv, OpsInv, KeysOwn, PendingLast, ResultsOfCalls, CalledInTurn, WaitsRight,
       SuspendedRight, StartedRight, Gen!ResultsFromTheirCallback
<1>2. GenInv /\ [ServicesNext]_servicesVars => GenInv'
  BY GenKept, PartsAlone
<1> QED
  BY <1>1, <1>2, GenWaitsRight, PTL DEF ServicesSpec

-----------------------------------------------------------------------------
(* TwistedReactor: for any objects, descriptors and delayed calls, the     *)
(* IOLoop does what Twisted has asked of its reactor.  The maps of the     *)
(* reactor are a function of what the objects want and of their            *)
(* descriptors: Matches says which, and each operation keeps it.           *)

Matches(r, w, f) ==
    /\ r \in [asked : [Sides -> [Objects -> Fds \cup {Closed}]],
              fds : [Fds -> [Sides -> Objects \cup {Null}]],
              handlers : [Fds -> SUBSET Sides]]
    /\ w \in [Objects -> SUBSET Sides]
    /\ f \in [Objects -> Fds \cup {Closed}]
    /\ \A o, p \in Objects : f[o] = f[p] /\ f[o] # Closed => o = p
    /\ \A o \in Objects : f[o] = Closed => w[o] = {}
    /\ \A s \in Sides, o \in Objects : r.asked[s][o] = IF s \in w[o] THEN f[o] ELSE Closed
    /\ \A d \in Fds, s \in Sides, o \in Objects : r.fds[d][s] = o <=> r.asked[s][o] = d
    /\ \A d \in Fds, s \in Sides : s \in r.handlers[d] <=> r.fds[d][s] # Null

InvokedTyped ==
    /\ invoked.side \in Sides
    /\ invoked.objects \in [Sides -> Objects \cup {Null}]
    /\ invoked.step = "doIO" => current # Null

TimersMatch ==
    /\ delayed \in [Calls -> Nat \cup {Never}]
    /\ delayedCalls = {c \in Calls : delayed[c] # Never}
    /\ timeouts = {Timeout(c, delayed[c]) : c \in delayedCalls}
    /\ time \in Nat

ReactorInv == Matches(reactor, wants, fileno) /\ InvokedTyped /\ TimersMatch

-----------------------------------------------------------------------------
LEMMA ClosedIsNoFd == Closed \notin Fds
BY ReactorAssumption DEF Closed

LEMMA OtherSide ==
    \A s \in Sides : Other(s) \in Sides /\ Other(s) # s /\ \A t \in Sides : t = s \/ t = Other(s)
<1> SUFFICES ASSUME NEW s \in Sides
             PROVE Other(s) \in Sides /\ Other(s) # s /\ \A t \in Sides : t = s \/ t = Other(s)
    OBVIOUS
<1>1. \E t \in Sides : t # s
    BY DEF Sides
<1>2. Other(s) \in Sides /\ Other(s) # s
    BY <1>1 DEF Other
<1>3. QED
    BY <1>2 DEF Sides

\* removeReader and removeWriter keep the maps together.
LEMMA RemoveMatches ==
    ASSUME NEW r, NEW w, NEW f, Matches(r, w, f), NEW s \in Sides, NEW o \in Objects
    PROVE  Matches(RemoveSide(r, s, o), [w EXCEPT ![o] = @ \ {s}], f)
<1> DEFINE q == RemoveSide(r, s, o)
           v == [w EXCEPT ![o] = @ \ {s}]
<1> USE ClosedIsNoFd, ReactorAssumption
<1>0. \A e \in Fds, t \in Sides, p \in Objects : r.fds[e][t] = p <=> r.asked[t][p] = e
    BY DEF Matches
<1>1. CASE ~Asked(r, s, o)
  <2>1. s \notin w[o]
      BY <1>1 DEF Asked, Matches
  <2>2. v = w
      BY <2>1 DEF Matches
  <2>3. q = r
      BY <1>1 DEF RemoveSide
  <2>4. QED
      BY <2>2, <2>3
<1>2. CASE Asked(r, s, o)
  <2> DEFINE d == r.asked[s][o]
  <2>1. d \in Fds /\ s \in w[o] /\ d = f[o] /\ r.fds[d][s] = o
    <3>1. d # Closed /\ d = IF s \in w[o] THEN f[o] ELSE Closed
        BY <1>2 DEF Asked, Matches
    <3>2. s \in w[o] /\ d = f[o]
        BY <3>1
    <3>3. d \in Fds
        BY <3>1, <3>2 DEF Matches
    <3>4. QED
      <4> HIDE DEF d
      <4>1. d = r.asked[s][o]
          BY DEF d
      <4>2. r.fds[d][s] = o
          BY <1>0, <3>3, <4>1
      <4>3. QED
          BY <3>2, <3>3, <4>2
  <2>2. /\ q.asked = [r.asked EXCEPT ![s][o] = Closed]
        /\ q.fds = [r.fds EXCEPT ![d][s] = Null]
        /\ q.handlers = [r.handlers EXCEPT ![d] =
                            IF r.fds[d][Other(s)] # Null THEN {Other(s)} ELSE {}]
        /\ q = [asked |-> q.asked, fds |-> q.fds, handlers |-> q.handlers]
      BY <1>2 DEF RemoveSide
  <2>3. /\ q \in [asked : [Sides -> [Objects -> Fds \cup {Closed}]],
                  fds : [Fds -> [Sides -> Objects \cup {Null}]],
                  handlers : [Fds -> SUBSET Sides]]
        /\ v \in [Objects -> SUBSET Sides]
    <3>1. q.asked \in [Sides -> [Objects -> Fds \cup {Closed}]]
        BY <2>2 DEF Matches
    <3>2. q.fds \in [Fds -> [Sides -> Objects \cup {Null}]]
        BY <2>1, <2>2 DEF Matches
    <3>3. q.handlers \in [Fds -> SUBSET Sides]
        BY <2>1, <2>2, OtherSide DEF Matches
    <3>4. v \in [Objects -> SUBSET Sides]
        BY DEF Matches
    <3>5. QED
      <4> HIDE DEF q
      <4> QED
          BY <2>2, <3>1, <3>2, <3>3, <3>4
  <2>4. \A t \in Sides, p \in Objects :
           /\ q.asked[t][p] = IF t = s /\ p = o THEN Closed ELSE r.asked[t][p]
           /\ t \in v[p] <=> t \in w[p] /\ ~(t = s /\ p = o)
      BY <2>1, <2>2 DEF Matches
  <2>5. \A e \in Fds, t \in Sides :
           q.fds[e][t] = IF e = d /\ t = s THEN Null ELSE r.fds[e][t]
      BY <2>1, <2>2 DEF Matches
  <2>6. \A e \in Fds, t \in Sides : t \in q.handlers[e] <=> q.fds[e][t] # Null
      BY <2>1, <2>2, <2>5, OtherSide DEF Matches
  <2>7. \A e \in Fds, t \in Sides, p \in Objects : q.fds[e][t] = p <=> q.asked[t][p] = e
      BY <2>1, <2>4, <2>5 DEF Matches
  <2>8. \A t \in Sides, p \in Objects : q.asked[t][p] = IF t \in v[p] THEN f[p] ELSE Closed
      BY <2>4 DEF Matches
  <2>9. \A p \in Objects : f[p] = Closed => v[p] = {}
      BY <2>3, <2>4 DEF Matches
  <2>10. QED
      BY <2>3, <2>6, <2>7, <2>8, <2>9 DEF Matches
<1>3. QED
    BY <1>1, <1>2

\* addReader and addWriter keep the maps together, for an object that is open.
LEMMA AddMatches ==
    ASSUME NEW r, NEW w, NEW f, Matches(r, w, f), NEW s \in Sides, NEW o \in Objects,
           fileno = f, f[o] # Closed
    PROVE  Matches(AddSide(r, s, o), [w EXCEPT ![o] = @ \cup {s}], f)
<1> DEFINE q == AddSide(r, s, o)
           v == [w EXCEPT ![o] = @ \cup {s}]
           d == f[o]
<1> USE ClosedIsNoFd, ReactorAssumption
<1>0. \A e \in Fds, t \in Sides, p \in Objects : r.fds[e][t] = p <=> r.asked[t][p] = e
    BY DEF Matches
<1>1. CASE Asked(r, s, o)
  <2>1. s \in w[o]
      BY <1>1 DEF Asked, Matches
  <2>2. v = w
      BY <2>1 DEF Matches
  <2>3. q = r
      BY <1>1 DEF AddSide
  <2>4. QED
      BY <2>2, <2>3
<1>2. CASE ~Asked(r, s, o)
  <2>1. d \in Fds /\ s \notin w[o]
      BY <1>2 DEF Asked, Matches
  <2>a. d = f[o]
      OBVIOUS
  <2> HIDE DEF d
  <2>2. \A p \in Objects, t \in Sides : r.fds[d][t] = p => p = o
    <3>1. \A p \in Objects, t \in Sides : r.asked[t][p] = d => f[p] = d
        BY <2>1, <2>a DEF Matches
    <3>2. \A p \in Objects : f[p] = d => p = o
        BY <2>1, <2>a DEF Matches
    <3>3. QED
        BY <2>1, <3>1, <3>2, <1>0
  <2>3. r.fds[d][s] = Null
    <3>1. r.fds[d][s] \in Objects \cup {Null}
        BY <2>1 DEF Matches
    <3>2. r.fds[d][s] # o
        BY <1>0, <1>2, <2>1, ClosedIsNoFd DEF Asked
    <3>3. QED
        BY <2>2, <3>1, <3>2
  <2>4. ~(r.fds[d] # Nobody /\ r.fds[d][Other(s)] = Null)
    <3>1. SUFFICES ASSUME r.fds[d][Other(s)] = Null
                   PROVE  r.fds[d] = Nobody
        OBVIOUS
    <3>2. \A t \in Sides : r.fds[d][t] = Null
        BY <2>3, <3>1, OtherSide
    <3>3. QED
      <4>1. r.fds[d] \in [Sides -> Objects \cup {Null}]
          BY <2>1 DEF Matches
      <4>2. QED
          BY <3>2, <4>1 DEF Nobody
  <2>5. /\ q.asked = [r.asked EXCEPT ![s][o] = d]
        /\ q.fds = [r.fds EXCEPT ![d][s] = o]
        /\ q.handlers = [r.handlers EXCEPT ![d] = Interest(r, d, s)]
        /\ q = [asked |-> q.asked, fds |-> q.fds, handlers |-> q.handlers]
      BY <1>2, <2>4, <2>a DEF AddSide
  <2>6. \A t \in Sides : t \in Interest(r, d, s) <=> t = s \/ r.fds[d][t] # Null
      BY <2>3, OtherSide DEF Interest
  <2>7. /\ q \in [asked : [Sides -> [Objects -> Fds \cup {Closed}]],
                  fds : [Fds -> [Sides -> Objects \cup {Null}]],
                  handlers : [Fds -> SUBSET Sides]]
        /\ v \in [Objects -> SUBSET Sides]
    <3>1. Interest(r, d, s) \in SUBSET Sides
        BY OtherSide DEF Interest
    <3>2. q.asked \in [Sides -> [Objects -> Fds \cup {Closed}]]
        BY <2>1, <2>5 DEF Matches
    <3>3. q.fds \in [Fds -> [Sides -> Objects \cup {Null}]]
        BY <2>1, <2>5 DEF Matches
    <3>4. q.handlers \in [Fds -> SUBSET Sides]
        BY <2>1, <2>5, <3>1 DEF Matches
    <3>5. v \in [Objects -> SUBSET Sides]
        BY DEF Matches
    <3>6. QED
      <4> HIDE DEF q
      <4> QED
          BY <2>5, <3>2, <3>3, <3>4, <3>5
  <2>8. \A t \in Sides, p \in Objects :
           /\ q.asked[t][p] = IF t = s /\ p = o THEN d ELSE r.asked[t][p]
           /\ t \in v[p] <=> t \in w[p] \/ (t = s /\ p = o)
      BY <2>1, <2>5 DEF Matches
  <2>9. \A e \in Fds, t \in Sides :
           q.fds[e][t] = IF e = d /\ t = s THEN o ELSE r.fds[e][t]
      BY <2>1, <2>5 DEF Matches
  <2>10. \A e \in Fds, t \in Sides : t \in q.handlers[e] <=> q.fds[e][t] # Null
      BY <2>1, <2>5, <2>6, <2>9 DEF Matches
  <2>11. \A e \in Fds, t \in Sides, p \in Objects : q.fds[e][t] = p <=> q.asked[t][p] = e
    <3> SUFFICES ASSUME NEW e \in Fds, NEW t \in Sides, NEW p \in Objects
                 PROVE  q.fds[e][t] = p <=> q.asked[t][p] = e
        OBVIOUS
    <3> HIDE DEF q
    <3>1. CASE t = s /\ p = o
      <4>1. q.asked[t][p] = d /\ r.fds[e][t] # p
          BY <1>0, <1>2, <2>8, <3>1 DEF Asked
      <4>2. QED
          BY <2>9, <3>1, <4>1
    <3>2. CASE t = s /\ p # o
      <4>1. r.fds[d][t] # p
          BY <2>2, <3>2
      <4>2. QED
          BY <1>0, <2>8, <2>9, <3>2, <4>1
    <3>3. CASE t # s
        BY <1>0, <2>8, <2>9, <3>3
    <3>4. QED
        BY <3>1, <3>2, <3>3
  <2>12. \A t \in Sides, p \in Objects : q.asked[t][p] = IF t \in v[p] THEN f[p] ELSE Closed
      BY <2>8, <2>a DEF Matches
  <2>13. \A p \in Objects : f[p] = Closed => v[p] = {}
      BY <2>7, <2>8 DEF Matches
  <2>14. QED
      BY <2>7, <2>10, <2>11, <2>12, <2>13 DEF Matches
<1>3. QED
    BY <1>1, <1>2

\* removeAll leaves nothing: what is polled is polled for an object that is known.
LEMMA EmptiedMatches ==
    ASSUME NEW r, NEW w, NEW f, Matches(r, w, f)
    PROVE  Matches(Emptied(r), [o \in Objects |-> {}], f)
<1> DEFINE q == Emptied(r)
           v == [o \in Objects |-> {}]
<1>0. \A e \in Fds, t \in Sides, p \in Objects : r.fds[e][t] = p <=> r.asked[t][p] = e
    BY DEF Matches
<1> USE ClosedIsNoFd, ReactorAssumption
<1>1. /\ q.asked = [s \in Sides |-> [o \in Objects |-> Closed]]
      /\ q.fds = [d \in Fds |-> [s \in Sides |->
             IF \E o \in Objects : r.asked[s][o] = d THEN Null ELSE r.fds[d][s]]]
      /\ q.handlers = [d \in Fds |->
             IF \E o \in Objects, s \in Sides : r.asked[s][o] = d THEN {} ELSE r.handlers[d]]
      /\ q = [asked |-> q.asked, fds |-> q.fds, handlers |-> q.handlers]
    BY DEF Emptied
<1>2. \A d \in Fds, s \in Sides : q.fds[d][s] = Null
  <2> SUFFICES ASSUME NEW d \in Fds, NEW s \in Sides, \A o \in Objects : r.asked[s][o] # d
               PROVE  r.fds[d][s] = Null
      BY <1>1
  <2>1. r.fds[d][s] \in Objects \cup {Null}
      BY DEF Matches
  <2>2. ASSUME NEW o \in Objects PROVE r.fds[d][s] # o
      BY <1>0
  <2>3. QED
      BY <2>1, <2>2
<1>3. \A d \in Fds : q.handlers[d] = {}
  <2> SUFFICES ASSUME NEW d \in Fds, \A o \in Objects, s \in Sides : r.asked[s][o] # d
               PROVE  r.handlers[d] = {}
      BY <1>1
  <2>1. \A s \in Sides : r.fds[d][s] = Null
    <3> SUFFICES ASSUME NEW s \in Sides PROVE r.fds[d][s] = Null
        OBVIOUS
    <3>1. r.fds[d][s] \in Objects \cup {Null}
        BY DEF Matches
    <3>2. ASSUME NEW o \in Objects PROVE r.fds[d][s] # o
        BY <1>0
    <3>3. QED
        BY <3>1, <3>2
  <2>2. r.handlers[d] \in SUBSET Sides /\ \A s \in Sides : s \notin r.handlers[d]
      BY <2>1 DEF Matches
  <2>3. QED
      BY <2>2
<1>4. /\ q.asked \in [Sides -> [Objects -> Fds \cup {Closed}]]
      /\ q.fds \in [Fds -> [Sides -> Objects \cup {Null}]]
      /\ q.handlers \in [Fds -> SUBSET Sides]
  <2>1. q.asked \in [Sides -> [Objects -> Fds \cup {Closed}]]
      BY <1>1
  <2>2. q.fds = [d \in Fds |-> [s \in Sides |-> q.fds[d][s]]]
      BY <1>1
  <2>3. q.fds \in [Fds -> [Sides -> Objects \cup {Null}]]
    <3> HIDE DEF q
    <3>1. \A d \in Fds, s \in Sides : q.fds[d][s] \in Objects \cup {Null}
        BY <1>2
    <3>2. QED
        BY <2>2, <3>1
  <2>4. q.handlers = [d \in Fds |-> q.handlers[d]]
      BY <1>1
  <2>5. q.handlers \in [Fds -> SUBSET Sides]
    <3> HIDE DEF q
    <3> QED
        BY <1>3, <2>4
  <2>6. QED
      BY <2>1, <2>3, <2>5
<1>5. \A s \in Sides, o \in Objects : q.asked[s][o] = Closed
    BY <1>1
<1>6. /\ v \in [Objects -> SUBSET Sides]
      /\ \A o \in Objects : v[o] = {}
    OBVIOUS
<1>7. f \in [Objects -> Fds \cup {Closed}] /\ \A o, p \in Objects : f[o] = f[p] /\ f[o] # Closed => o = p
    BY DEF Matches
<1>8. QED
  <2> HIDE DEF q, v
  <2>1. q \in [asked : [Sides -> [Objects -> Fds \cup {Closed}]],
               fds : [Fds -> [Sides -> Objects \cup {Null}]],
               handlers : [Fds -> SUBSET Sides]]
      BY <1>1, <1>4
  <2>2. /\ \A s \in Sides, o \in Objects : q.asked[s][o] = IF s \in v[o] THEN f[o] ELSE Closed
        /\ \A d \in Fds, s \in Sides, o \in Objects : q.fds[d][s] = o <=> q.asked[s][o] = d
        /\ \A d \in Fds, s \in Sides : s \in q.handlers[d] <=> q.fds[d][s] # Null
      BY <1>2, <1>3, <1>5, <1>6
  <2>3. Matches(q, v, f)
      BY <1>6, <1>7, <2>1, <2>2 DEF Matches
  <2>4. QED
      BY <2>3 DEF q, v

\* An object that wants nothing may open a socket under a number that nobody has, or
\* close its own.
LEMMA FilenoMatches ==
    ASSUME NEW r, NEW w, NEW f, Matches(r, w, f), NEW o \in Objects, w[o] = {},
           NEW n \in Fds \cup {Closed}, n # Closed => \A p \in Objects : f[p] # n
    PROVE  Matches(r, w, [f EXCEPT ![o] = n])
<1> DEFINE g == [f EXCEPT ![o] = n]
<1>0. f \in [Objects -> Fds \cup {Closed}]
    BY DEF Matches
<1>1. g \in [Objects -> Fds \cup {Closed}]
    BY <1>0
<1>2. \A p \in Objects : g[p] = IF p = o THEN n ELSE f[p]
    BY <1>0
<1> HIDE DEF g
<1>3. \A p, q \in Objects : g[p] = g[q] /\ g[p] # Closed => p = q
    BY <1>2 DEF Matches
<1>4. \A p \in Objects : g[p] = Closed => w[p] = {}
    BY <1>2 DEF Matches
<1>5. \A s \in Sides, p \in Objects : r.asked[s][p] = IF s \in w[p] THEN g[p] ELSE Closed
  <2>1. \A s \in Sides, p \in Objects : r.asked[s][p] = IF s \in w[p] THEN f[p] ELSE Closed
      BY DEF Matches
  <2>2. QED
      BY <1>2, <2>1
<1>6. Matches(r, w, g)
    BY <1>1, <1>3, <1>4, <1>5 DEF Matches
<1>7. QED
    BY <1>6 DEF g

\* connectionLost: both removals, and then the end of the socket.
LEMMA CloseMatches ==
    ASSUME NEW r, NEW w, NEW f, Matches(r, w, f), NEW o \in Objects
    PROVE  Matches(RemoveBoth(r, o), [w EXCEPT ![o] = {}], [f EXCEPT ![o] = Closed])
<1> DEFINE v == [w EXCEPT ![o] = @ \ {"READ"}]
           u == [v EXCEPT ![o] = @ \ {"WRITE"}]
<1>1. w \in [Objects -> SUBSET Sides] /\ "READ" \in Sides /\ "WRITE" \in Sides
    BY DEF Matches, Sides
<1>2. Matches(RemoveSide(r, "READ", o), v, f)
    BY <1>1, RemoveMatches
<1>3. Matches(RemoveBoth(r, o), u, f)
  <2> HIDE DEF v
  <2> QED
      BY <1>1, <1>2, RemoveMatches DEF RemoveBoth
<1>4. u = [w EXCEPT ![o] = {}]
    BY <1>1 DEF Sides
<1>5. u[o] = {}
    BY <1>1, <1>4
<1>6. Matches(RemoveBoth(r, o), u, [f EXCEPT ![o] = Closed])
  <2> HIDE DEF u
  <2> QED
      BY <1>3, <1>5, FilenoMatches
<1>7. QED
    BY <1>4, <1>6
-----------------------------------------------------------------------------
LEMMA InitInv == ReactorInit => ReactorInv
<1> SUFFICES ASSUME ReactorInit PROVE ReactorInv
    OBVIOUS
<1>1. Matches(reactor, wants, fileno)
  <2>1. \A s \in Sides : Nobody[s] = Null
      BY DEF Nobody
  <2>2. reactor.fds \in [Fds -> [Sides -> Objects \cup {Null}]]
      BY DEF ReactorInit, Nobody
  <2>3. QED
      BY <2>1, <2>2, ClosedIsNoFd, ReactorAssumption DEF ReactorInit, Matches
<1>2. InvokedTyped
    BY DEF ReactorInit, InvokedTyped, Idle, Nobody, Sides
<1>3. TimersMatch
    BY DEF ReactorInit, TimersMatch, Never
<1>4. QED
    BY <1>1, <1>2, <1>3 DEF ReactorInv

\* The next turn: the writer's, or none.
LEMMA NextSideTyped ==
    ASSUME InvokedTyped, invoked' = NextSide
    PROVE  InvokedTyped'
<1>1. CASE invoked.side = "READ"
    BY <1>1 DEF InvokedTyped, NextSide, Sides
<1>2. CASE invoked.side # "READ"
    BY <1>2 DEF InvokedTyped, NextSide, Sides, Idle, Nobody
<1>3. QED
    BY <1>1, <1>2

\* An error on the object whose turn it is, or none.
LEMMA JudgeInv ==
    ASSUME Matches(reactor, wants, fileno), InvokedTyped, current # Null,
           NEW err \in BOOLEAN, Judge(err)
    PROVE  Matches(reactor, wants, fileno)' /\ InvokedTyped'
<1>1. current \in Objects /\ invoked.side \in Sides
    BY DEF InvokedTyped, current
<1>2. CASE err
  <2>1. ConnectionLost /\ UNCHANGED fileno
      BY <1>2 DEF Judge
  <2>2. Matches(reactor, wants, fileno)'
      BY <1>1, <2>1, RemoveMatches DEF ConnectionLost
  <2>3. InvokedTyped'
      BY <2>1 DEF ConnectionLost, OnTo, InvokedTyped
  <2>4. QED
      BY <2>2, <2>3
<1>3. CASE ~err
    BY <1>3, NextSideTyped DEF Judge
<1>4. QED
    BY <1>2, <1>3

LEMMA LaterTime == \A m \in Nat, n \in Int : n >= m => n \in Nat /\ n # Never
BY SMT DEF Never

\* delay and reset leave one timeout, the new one.
LEMMA ReplaceInv ==
    ASSUME TimersMatch, NEW c \in Calls, delayed[c] # Never,
           NEW at \in Nat, at # Never, Replace(c, at)
    PROVE  TimersMatch'
<1>1. /\ delayed' = [delayed EXCEPT ![c] = at]
      /\ timeouts' = (timeouts \ {Timeout(c, delayed[c])}) \cup {Timeout(c, at)}
      /\ UNCHANGED <<delayedCalls, time>>
    BY DEF Replace
<1>2. delayed' \in [Calls -> Nat \cup {Never}] /\ delayedCalls' = {b \in Calls : delayed'[b] # Never}
    BY <1>1 DEF TimersMatch
<1>3. timeouts' = {Timeout(b, delayed'[b]) : b \in delayedCalls'}
    BY <1>1 DEF TimersMatch, Timeout
<1>4. QED
    BY <1>1, <1>2, <1>3 DEF TimersMatch

\* A call that was made or cancelled has none.
LEMMA EndedInv ==
    ASSUME TimersMatch, NEW c \in delayedCalls, Ended(c),
           timeouts' = timeouts \ {Timeout(c, delayed[c])}
    PROVE  TimersMatch'
<1>1. c \in Calls /\ delayed' = [delayed EXCEPT ![c] = Never] /\ delayedCalls' = delayedCalls \ {c} /\ time' = time
    BY DEF Ended, TimersMatch, fdVars
<1>2. delayed' \in [Calls -> Nat \cup {Never}] /\ delayedCalls' = {b \in Calls : delayed'[b] # Never}
    BY <1>1 DEF TimersMatch
<1>3. timeouts' = {Timeout(b, delayed'[b]) : b \in delayedCalls'}
    BY <1>1 DEF TimersMatch, Timeout
<1>4. QED
    BY <1>1, <1>2, <1>3 DEF TimersMatch

LEMMA ReactorStep == ReactorInv /\ [ReactorNext]_reactorVars => ReactorInv'
<1> SUFFICES ASSUME ReactorInv, [ReactorNext]_reactorVars PROVE ReactorInv'
    OBVIOUS
<1> USE DEF ReactorInv
<1>1. ASSUME UNCHANGED timeVars PROVE TimersMatch'
    BY <1>1 DEF TimersMatch, timeVars, Timeout
<1>2. ASSUME UNCHANGED invoked PROVE InvokedTyped'
    BY <1>2 DEF InvokedTyped, current
<1>3. ASSUME UNCHANGED <<reactor, wants, fileno>> PROVE Matches(reactor, wants, fileno)'
    BY <1>3
<1>4. ASSUME NEW n \in Fds, NEW events \in SUBSET (Sides \cup {"ERROR"}), Handler(n, events)
      PROVE  ReactorInv'
  <2>1. InvokedTyped'
    <3>1. reactor.fds[n] \in [Sides -> Objects \cup {Null}]
        BY DEF Matches
    <3>2. QED
        BY <1>4, <3>1 DEF Handler, InvokedTyped, Sides
  <2>2. QED
      BY <1>1, <1>3, <1>4, <2>1 DEF Handler
<1>5. CASE DoIO
  <2>1. InvokedTyped'
      BY <1>5 DEF DoIO, OnTo, InvokedTyped, current
  <2>2. QED
      BY <1>1, <1>3, <1>5, <2>1 DEF DoIO
<1>6. CASE DoIOReturns
  <2>1. current # Null
      BY <1>6 DEF DoIOReturns, InvokedTyped
  <2>2. PICK failed \in BOOLEAN : Judge(failed \/ "ERROR" \in invoked.events)
      BY <1>6 DEF DoIOReturns
  <2>3. QED
      BY <1>1, <2>1, <2>2, JudgeInv DEF Judge
<1>7. CASE SkipIO
  <2>1. current # Null /\ Judge(Gone \/ "ERROR" \in invoked.events)
      BY <1>7 DEF SkipIO
  <2>2. QED
      BY <1>1, <2>1, JudgeInv DEF Judge
<1>8. CASE SideEnds
    BY <1>1, <1>3, <1>8, NextSideTyped DEF SideEnds
<1>9. ASSUME NEW o \in Objects, OpenSocket(o) PROVE ReactorInv'
  <2>1. PICK n \in Unused : fileno' = [fileno EXCEPT ![o] = n]
      BY <1>9 DEF OpenSocket
  <2>2. n \in Fds /\ \A p \in Objects : fileno[p] # n
      BY <2>1 DEF Unused
  <2>3. wants[o] = {}
      BY <1>9 DEF OpenSocket, Matches
  <2>4. Matches(reactor, wants, fileno)'
      BY <1>9, <2>1, <2>2, <2>3, FilenoMatches DEF OpenSocket
  <2>5. QED
      BY <1>1, <1>2, <1>9, <2>4 DEF OpenSocket
<1>10. ASSUME NEW o \in Objects, CloseSocket(o) PROVE ReactorInv'
  <2>1. Matches(reactor, wants, fileno)'
      BY <1>10, CloseMatches DEF CloseSocket
  <2>2. QED
      BY <1>1, <1>2, <1>10, <2>1 DEF CloseSocket
<1>11. ASSUME NEW o \in Objects, NEW s \in Sides, StartSide(s, o) PROVE ReactorInv'
  <2>1. Matches(reactor, wants, fileno)'
      BY <1>11, AddMatches DEF StartSide
  <2>2. QED
      BY <1>1, <1>2, <1>11, <2>1 DEF StartSide
<1>12. ASSUME NEW o \in Objects, NEW s \in Sides, StopSide(s, o) PROVE ReactorInv'
  <2>1. Matches(reactor, wants, fileno)'
      BY <1>12, RemoveMatches DEF StopSide
  <2>2. QED
      BY <1>1, <1>2, <1>12, <2>1 DEF StopSide
<1>13. CASE RemoveAll
  <2>1. Matches(reactor, wants, fileno)'
      BY <1>13, EmptiedMatches DEF RemoveAll
  <2>2. QED
      BY <1>1, <1>2, <1>13, <2>1 DEF RemoveAll
<1>14. ASSUME UNCHANGED fdVars, TimersMatch' PROVE ReactorInv'
    BY <1>2, <1>3, <1>14 DEF fdVars
<1>15. ASSUME NEW c \in Calls, CallLater(c) PROVE ReactorInv'
  <2>1. PICK at \in time .. MaxTime : /\ delayed' = [delayed EXCEPT ![c] = at]
                                      /\ timeouts' = timeouts \cup {Timeout(c, at)}
      BY <1>15 DEF CallLater
  <2>2. at \in Nat /\ at # Never
      BY <2>1, LaterTime, SMT DEF TimersMatch
  <2>3. TimersMatch'
      BY <1>15, <2>1, <2>2 DEF CallLater, TimersMatch, Timeout
  <2>4. QED
      BY <1>14, <1>15, <2>3 DEF CallLater
<1>16. CASE Tick
    BY <1>14, <1>16 DEF Tick, TimersMatch, Timeout
<1>17. ASSUME NEW c \in Calls, Active(c), NEW at \in Nat, at # Never, Replace(c, at)
       PROVE  ReactorInv'
  <2>1. TimersMatch'
      BY <1>17, ReplaceInv DEF Active
  <2>2. QED
      BY <1>14, <1>17, <2>1 DEF Replace
<1>18. ASSUME NEW c \in Calls, Delay(c) PROVE ReactorInv'
  <2>1. delayed[c] \in Nat
      BY <1>18 DEF Delay, Active, TimersMatch
  <2>2. PICK at \in delayed[c] .. MaxTime : Replace(c, at)
      BY <1>18 DEF Delay
  <2>3. at \in Nat /\ at # Never
      BY <2>1, <2>2, LaterTime, SMT
  <2>4. QED
      BY <1>17, <1>18, <2>2, <2>3 DEF Delay
<1>19. ASSUME NEW c \in Calls, Reset(c) PROVE ReactorInv'
  <2>1. PICK at \in time .. MaxTime : Replace(c, at)
      BY <1>19 DEF Reset
  <2>2. at \in Nat /\ at # Never
      BY <2>1, LaterTime, SMT DEF TimersMatch
  <2>3. QED
      BY <1>17, <1>19, <2>1, <2>2 DEF Reset
<1>20. ASSUME NEW c \in Calls, Cancel(c) PROVE ReactorInv'
  <2>1. c \in delayedCalls
      BY <1>20 DEF Cancel, Active, TimersMatch
  <2>2. TimersMatch'
      BY <1>20, <2>1, EndedInv DEF Cancel
  <2>3. QED
      BY <1>14, <1>20, <2>2 DEF Cancel, Ended
<1>21. ASSUME NEW t \in timeouts, Called(t) PROVE ReactorInv'
  <2>1. t.call \in delayedCalls /\ t = Timeout(t.call, delayed[t.call])
      BY DEF TimersMatch, Timeout
  <2>2. TimersMatch'
      BY <1>21, <2>1, EndedInv DEF Called
  <2>3. QED
      BY <1>14, <1>21, <2>2 DEF Called, Ended
<1>22. CASE UNCHANGED reactorVars
    BY <1>1, <1>2, <1>3, <1>22 DEF reactorVars, timeVars
<1>23. QED
    BY <1>4, <1>5, <1>6, <1>7, <1>8, <1>9, <1>10, <1>11, <1>12, <1>13, <1>15, <1>16,
       <1>18, <1>19, <1>20, <1>21, <1>22 DEF ReactorNext

LEMMA InvServes == ReactorInv => TwistedIsServed
<1> SUFFICES ASSUME ReactorInv PROVE TwistedIsServed
    OBVIOUS
<1> DEFINE h == reactor.handlers
<1>0. /\ \A e \in Fds, t \in Sides, p \in Objects : reactor.fds[e][t] = p <=> reactor.asked[t][p] = e
      /\ \A e \in Fds, t \in Sides : reactor.fds[e][t] \in Objects \cup {Null}
      /\ \A e \in Fds, t \in Sides : t \in h[e] <=> reactor.fds[e][t] # Null
      /\ \A e \in Fds : h[e] \in SUBSET Sides
    BY DEF ReactorInv, Matches
<1>1. \A e \in Fds, t \in Sides : t \in h[e] <=> \E p \in Objects : reactor.asked[t][p] = e
    BY <1>0, ReactorAssumption
<1>2. \A e \in Fds, t \in Sides : t \in h[e] <=> \E p \in Objects : fileno[p] = e /\ t \in wants[p]
  <2>1. \A t \in Sides, p \in Objects :
           reactor.asked[t][p] = IF t \in wants[p] THEN fileno[p] ELSE Closed
      BY DEF ReactorInv, Matches
  <2>2. QED
      BY <1>1, <2>1, ClosedIsNoFd
<1> HIDE DEF h
<1>3. ASSUME NEW o \in Objects, fileno[o] # Closed PROVE h[fileno[o]] = wants[o]
  <2>1. fileno[o] \in Fds /\ wants[o] \in SUBSET Sides
      BY <1>3 DEF ReactorInv, Matches
  <2>2. \A p \in Objects : fileno[p] = fileno[o] => p = o
      BY <1>3 DEF ReactorInv, Matches
  <2>3. \A t \in Sides : t \in h[fileno[o]] <=> t \in wants[o]
      BY <1>2, <2>1, <2>2
  <2>4. QED
      BY <1>0, <2>1, <2>3
<1>4. ASSUME NEW e \in Unused PROVE h[e] = {}
  <2>1. e \in Fds /\ \A t \in Sides : t \notin h[e]
      BY <1>2 DEF Unused
  <2>2. QED
      BY <1>0, <2>1
<1>5. PollsWhatIsAsked
    BY <1>3, <1>4 DEF PollsWhatIsAsked, h
<1>6. CallsWhatIsListed
    BY DEF ReactorInv, TimersMatch, CallsWhatIsListed
<1>7. QED
    BY <1>5, <1>6 DEF TwistedIsServed

\* The reactor never loses or keeps a handler, and never loses or doubles a delayed call:
\* whatever Twisted's code does between callbacks or within _invoke_callback.
THEOREM TwistedAlwaysServed == ReactorSpec => []TwistedIsServed
<1>1. QED
    BY InitInv, ReactorStep, InvServes, PTL DEF ReactorSpec

-----------------------------------------------------------------------------
(* The nesting of the code of a template.                                  *)

ParserRecord(p) == p = [f \in {"state", "read", "open", "lines"} |-> p[f]]
Ops == {"none", "def", "plain", "block", "apply", "if", "for", "while", "try"}
LineType ==
    [op : Ops, joins : {"none", "else", "elif", "except", "finally"}, indent : Nat, under : Nat]
BlockType == [op : Ops, line : Nat, indent : Nat]
Outermost == Parser!Block("none", 1, 1)

\* The last line that is indented less than those in the block b is b's.
Roof(ls, b) ==
    /\ b.line \in 1 .. Len(ls) /\ ls[b.line].indent = b.indent - 1
    /\ \A k \in b.line + 1 .. Len(ls) : ls[k].indent >= b.indent
Deeper(a, b) == IF b.op = "block" THEN a.indent <= b.indent ELSE a.indent < b.indent
Opened(ls, a) == Roof(ls, a) /\ (a.op # "block" => ls[a.line].op = a.op)
BlocksStand(ls, open) ==
    /\ Roof(ls, Outermost)
    /\ \A n \in 1 .. Len(open) : Opened(ls, open[n]) /\ Deeper(Outermost, open[n])
    /\ \A n \in 2 .. Len(open) : \A m \in 1 .. n - 1 : Deeper(open[m], open[n])

\* The line i goes, by its indentation, to the line it has as its "under".
Above(ls, i, k) ==
    \/ ls[k].indent < ls[i].indent
    \/ ls[i].joins # "none" /\ ls[k].indent = ls[i].indent
LineFits(ls, i) ==
    LET u == ls[i].under
    IN  /\ u \in 1 .. i - 1 /\ Above(ls, i, u)
        /\ \A k \in u + 1 .. i - 1 : ~Above(ls, i, k)
        /\ ls[i].joins # "none" =>
              ls[u].op \in Parser!Parents[ls[i].joins] /\ ls[u].indent = ls[i].indent
Nested(ls, open) ==
    /\ ls \in Seq(LineType) /\ open \in Seq(BlockType)
    /\ \A i \in 2 .. Len(ls) : LineFits(ls, i)
    /\ BlocksStand(ls, open)

ParserInv == ParserRecord(parser) /\ Nested(parser.lines, parser.open)

LEMMA LineAppended ==
    ASSUME NEW ls \in Seq(LineType), NEW x \in LineType
    PROVE  /\ Append(ls, x) \in Seq(LineType) /\ Len(Append(ls, x)) = Len(ls) + 1
           /\ Append(ls, x)[Len(ls) + 1] = x /\ Len(ls) \in Nat
           /\ \A k \in 1 .. Len(ls) : Append(ls, x)[k] = ls[k] /\ ls[k].indent \in Nat
<1>1. \A k \in 1 .. Len(ls) : ls[k] \in LineType
  OBVIOUS
<1>2. \A k \in 1 .. Len(ls) : ls[k].indent \in Nat
  BY <1>1 DEF LineType
<1>3. \A k \in 1 .. Len(ls) : Append(ls, x)[k] = ls[k]
  OBVIOUS
<1>4. /\ Append(ls, x) \in Seq(LineType) /\ Len(Append(ls, x)) = Len(ls) + 1
      /\ Append(ls, x)[Len(ls) + 1] = x /\ Len(ls) \in Nat
  OBVIOUS
<1> QED
  BY <1>2, <1>3, <1>4

LEMMA InnermostIs ==
    ASSUME NEW ls, NEW open, Nested(ls, open)
    PROVE  LET b == Parser!Innermost(open)
           IN  /\ b \in BlockType /\ Roof(ls, b) /\ b.indent >= 1
               /\ \A n \in 1 .. Len(open) : open[n].indent <= b.indent
<1> DEFINE b == Parser!Innermost(open)
<1>0. open \in Seq(BlockType) /\ Roof(ls, Outermost) /\ Len(open) \in Nat
  BY DEF Nested, BlocksStand
<1>1. CASE open = <<>>
  <2>1. b = Outermost
    BY <1>1 DEF Parser!Innermost, Outermost
  <2>2. Outermost \in BlockType /\ Outermost.indent = 1
    BY DEF Outermost, Parser!Block, BlockType, Ops
  <2>3. Len(open) = 0
    BY <1>1
  <2> HIDE DEF b
  <2> QED
    BY <1>0, <2>1, <2>2, <2>3 DEF b
<1>2. CASE open # <<>>
  <2> DEFINE n == Len(open)
  <2>1. b = open[n] /\ n \in 1 .. n
    BY <1>0, <1>2 DEF Parser!Innermost, Parser!Last
  <2> HIDE DEF b
  <2>2. b \in BlockType /\ Roof(ls, b) /\ Deeper(Outermost, b)
    BY <1>0, <2>1 DEF Nested, BlocksStand, Opened
  <2>3. b.indent \in Nat /\ b.indent >= 1
    BY <2>2 DEF BlockType, Deeper, Outermost, Parser!Block
  <2>4. ASSUME NEW m \in 1 .. n PROVE open[m].indent <= b.indent
    <3>1. CASE m = n
      BY <2>1, <2>3, <3>1
    <3>2. CASE m # n
      <4>1. n \in 2 .. n /\ m \in 1 .. n - 1
        BY <1>0, <3>2
      <4>2. Deeper(open[m], b)
        BY <2>1, <4>1 DEF Nested, BlocksStand
      <4>3. open[m] \in BlockType
        BY <1>0, <2>4
      <4> QED
        BY <2>3, <4>2, <4>3 DEF Deeper, BlockType
    <3> QED
      BY <3>1, <3>2
  <2> QED
    BY <2>2, <2>3, <2>4 DEF b
<1> QED
  BY <1>1, <1>2

\* A line that is not indented less than the lines in a block leaves its place alone.
LEMMA RoofStays ==
    ASSUME NEW ls \in Seq(LineType), NEW x \in LineType, NEW a, Roof(ls, a),
           a.indent \in Nat, x.indent >= a.indent
    PROVE  Roof(Append(ls, x), a)
<1> DEFINE t == Append(ls, x)
<1>1. /\ Len(t) = Len(ls) + 1 /\ t[Len(ls) + 1] = x /\ Len(ls) \in Nat
      /\ \A k \in 1 .. Len(ls) : t[k] = ls[k]
  BY LineAppended
<1>2. /\ a.line \in 1 .. Len(ls) /\ ls[a.line].indent = a.indent - 1
      /\ \A k \in a.line + 1 .. Len(ls) : ls[k].indent >= a.indent
  BY DEF Roof
<1> HIDE DEF t
<1>3. \A k \in a.line + 1 .. Len(t) : t[k].indent >= a.indent
  <2> SUFFICES ASSUME NEW k \in a.line + 1 .. Len(t) PROVE t[k].indent >= a.indent
    OBVIOUS
  <2>1. CASE k = Len(ls) + 1
    BY <1>1, <2>1
  <2>2. CASE k # Len(ls) + 1
    <3>1. k \in 1 .. Len(ls) /\ k \in a.line + 1 .. Len(ls)
      BY <1>1, <1>2, <2>2
    <3> QED
      BY <1>1, <1>2, <3>1
  <2> QED
    BY <2>1, <2>2
<1>4. Roof(t, a)
  BY <1>1, <1>2, <1>3 DEF Roof
<1> QED
  BY <1>4 DEF t

\* The lines that are there, and the blocks that stand, when one is added.
LEMMA LineAdded ==
    ASSUME NEW ls \in Seq(LineType), NEW x \in LineType, \A i \in 2 .. Len(ls) : LineFits(ls, i),
           LineFits(Append(ls, x), Len(ls) + 1)
    PROVE  \A i \in 2 .. Len(Append(ls, x)) : LineFits(Append(ls, x), i)
<1> DEFINE t == Append(ls, x)
<1>1. Len(t) = Len(ls) + 1 /\ Len(ls) \in Nat /\ \A k \in 1 .. Len(ls) : t[k] = ls[k]
  BY LineAppended
<1> HIDE DEF t
<1>2. ASSUME NEW i \in 2 .. Len(ls) PROVE LineFits(t, i)
  <2>1. i \in 1 .. Len(ls) /\ LineFits(ls, i)
    BY <1>2
  <2>2. t[i] = ls[i] /\ \A k \in 1 .. i - 1 : t[k] = ls[k]
    BY <1>1, <2>1
  <2>3. ls[i].under \in 1 .. i - 1
    BY <2>1 DEF LineFits
  <2>4. \A k \in 1 .. i - 1 : Above(t, i, k) <=> Above(ls, i, k)
    BY <2>2 DEF Above
  <2>5. \A k \in ls[i].under + 1 .. i - 1 : k \in 1 .. i - 1
    BY <2>3
  <2> QED
    BY <2>1, <2>2, <2>3, <2>4, <2>5 DEF LineFits
<1>3. \A i \in 2 .. Len(t) : i \in 2 .. Len(ls) \/ i = Len(ls) + 1
  BY <1>1
<1>4. LineFits(t, Len(ls) + 1)
  BY DEF t
<1>5. \A i \in 2 .. Len(t) : LineFits(t, i)
  BY <1>2, <1>3, <1>4
<1> QED
  BY <1>5 DEF t

LEMMA PlainKeeps ==
    ASSUME NEW ls, NEW open, Nested(ls, open), NEW op \in Ops
    PROVE  LET b == Parser!Innermost(open)
               x == Parser!Line(op, "none", b.indent, b.line)
           IN  x \in LineType /\ x.op = op /\ x.indent = b.indent /\ Nested(Append(ls, x), open)
<1> DEFINE b == Parser!Innermost(open)
           x == Parser!Line(op, "none", b.indent, b.line)
           t == Append(ls, x)
           n == Len(ls) + 1
<1>0. /\ b \in BlockType /\ Roof(ls, b) /\ b.indent >= 1
      /\ \A m \in 1 .. Len(open) : open[m].indent <= b.indent
  BY InnermostIs
<1> HIDE DEF b
<1>1. /\ x \in LineType /\ x.op = op /\ x.indent = b.indent /\ x.under = b.line /\ x.joins = "none"
      /\ b.indent \in Nat /\ b.line \in Nat
  BY <1>0 DEF Parser!Line, LineType, BlockType
<1> HIDE DEF x
<1>2. ls \in Seq(LineType) /\ open \in Seq(BlockType)
  BY DEF Nested
<1>3. /\ t \in Seq(LineType) /\ Len(t) = n /\ t[n] = x /\ Len(ls) \in Nat
      /\ \A k \in 1 .. Len(ls) : t[k] = ls[k] /\ ls[k].indent \in Nat
  BY <1>1, <1>2, LineAppended
<1>4. LineFits(t, n)
  <2> HIDE DEF t
  <2>1. b.line \in 1 .. n - 1 /\ t[b.line].indent = b.indent - 1
    BY <1>0, <1>3 DEF Roof
  <2>2. ASSUME NEW k \in b.line + 1 .. n - 1 PROVE t[k].indent >= b.indent /\ t[k].indent \in Nat
    <3>1. k \in b.line + 1 .. Len(ls) /\ k \in 1 .. Len(ls)
      BY <1>1, <1>3, <2>1
    <3> QED
      BY <1>0, <1>3, <3>1 DEF Roof
  <2>3. t[n].indent = b.indent /\ t[n].under = b.line /\ t[n].joins = "none"
    BY <1>1, <1>3
  <2> HIDE DEF n
  <2>4. Above(t, n, b.line)
    BY <1>1, <2>1, <2>3 DEF Above
  <2>5. \A k \in b.line + 1 .. n - 1 : ~Above(t, n, k)
    BY <1>1, <2>2, <2>3 DEF Above
  <2> QED
    BY <2>1, <2>3, <2>4, <2>5 DEF LineFits
<1>5. \A i \in 2 .. Len(t) : LineFits(t, i)
  BY <1>1, <1>2, <1>4, LineAdded DEF Nested
<1>6. ASSUME NEW a, Roof(ls, a), a.indent \in Nat, a.indent <= b.indent PROVE Roof(t, a)
  <2>1. x.indent >= a.indent
    BY <1>1, <1>6
  <2> QED
    BY <1>1, <1>2, <1>6, <2>1, RoofStays
<1>7. Roof(t, Outermost)
  <2>1. Outermost.indent = 1 /\ Roof(ls, Outermost)
    BY DEF Outermost, Parser!Block, Nested, BlocksStand
  <2> QED
    BY <1>0, <1>1, <1>6, <2>1
<1>8. ASSUME NEW m \in 1 .. Len(open) PROVE Opened(t, open[m])
  <2>1. Opened(ls, open[m]) /\ open[m] \in BlockType
    BY <1>2, <1>8 DEF Nested, BlocksStand
  <2>2. open[m].line \in 1 .. Len(ls) /\ open[m].indent \in Nat
    BY <2>1 DEF Opened, Roof, BlockType
  <2>3. Roof(t, open[m])
    BY <1>0, <1>6, <1>8, <2>1, <2>2 DEF Opened
  <2> QED
    BY <1>3, <2>1, <2>2, <2>3 DEF Opened
<1> HIDE DEF t
<1>9. BlocksStand(t, open)
  BY <1>7, <1>8 DEF Nested, BlocksStand
<1> QED
  BY <1>1, <1>2, <1>3, <1>5, <1>9 DEF Nested, t, x, b

LEMMA BlockOpened ==
    ASSUME NEW ls, NEW open, Nested(ls, open), NEW a \in BlockType, Opened(ls, a),
           Deeper(Parser!Innermost(open), a)
    PROVE  Nested(ls, Append(open, a))
<1> DEFINE b == Parser!Innermost(open)
           more == Append(open, a)
<1>0. /\ b \in BlockType /\ b.indent >= 1
      /\ \A m \in 1 .. Len(open) : open[m].indent <= b.indent
  BY InnermostIs
<1> HIDE DEF b
<1>1. /\ more \in Seq(BlockType) /\ Len(more) = Len(open) + 1 /\ Len(open) \in Nat
      /\ more[Len(open) + 1] = a
      /\ \A m \in 1 .. Len(open) : more[m] = open[m] /\ open[m] \in BlockType
  BY DEF Nested
<1> HIDE DEF more
<1>2. a.indent \in Nat /\ b.indent \in Nat /\ Deeper(b, a)
  BY <1>0 DEF BlockType, b
<1>3. \A m \in 1 .. Len(open) : Deeper(open[m], a)
  <2>1. \A m \in 1 .. Len(open) : open[m].indent \in Nat /\ open[m].indent <= b.indent
    BY <1>0, <1>1 DEF BlockType
  <2> QED
    BY <1>2, <2>1 DEF Deeper
<1>4. Deeper(Outermost, a)
  <2>1. Outermost.indent = 1
    BY DEF Outermost, Parser!Block
  <2> QED
    BY <1>0, <1>2, <2>1 DEF Deeper
<1>5. \A n \in 1 .. Len(more) : n \in 1 .. Len(open) \/ n = Len(open) + 1
  BY <1>1
<1>6. \A n \in 1 .. Len(more) : Opened(ls, more[n]) /\ Deeper(Outermost, more[n])
  BY <1>1, <1>4, <1>5 DEF Nested, BlocksStand
<1>7. ASSUME NEW n \in 2 .. Len(more), NEW m \in 1 .. n - 1 PROVE Deeper(more[m], more[n])
  <2>1. m \in 1 .. Len(open)
    BY <1>1
  <2>2. CASE n = Len(open) + 1
    BY <1>1, <1>3, <2>1, <2>2
  <2>3. CASE n # Len(open) + 1
    <3>1. n \in 2 .. Len(open) /\ n \in 1 .. Len(open)
      BY <1>1, <2>3
    <3>2. Deeper(open[m], open[n])
      BY <3>1 DEF Nested, BlocksStand
    <3> QED
      BY <1>1, <2>1, <3>1, <3>2
  <2> QED
    BY <2>2, <2>3
<1>8. BlocksStand(ls, more)
  BY <1>6, <1>7 DEF Nested, BlocksStand
<1> QED
  BY <1>1, <1>8 DEF Nested, more

LEMMA BlockEnded ==
    ASSUME NEW ls, NEW open, Nested(ls, open), open # <<>>
    PROVE  Nested(ls, Parser!Front(open))
<1> DEFINE less == Parser!Front(open)
<1>1. open \in Seq(BlockType) /\ Len(open) \in Nat /\ Len(open) # 0
  BY DEF Nested
<1>2. /\ less \in Seq(BlockType) /\ Len(less) = Len(open) - 1
      /\ \A m \in 1 .. Len(less) : less[m] = open[m]
  <2> DEFINE n == Len(open) - 1
  <2>1. n \in Nat /\ n <= Len(open) /\ \A k \in 1 .. n : open[k] \in BlockType
    BY <1>1
  <2>2. less = SubSeq(open, 1, n)
    BY DEF Parser!Front
  <2> HIDE DEF n, less
  <2>3. less = [k \in 1 .. n |-> open[k]]
    BY <1>1, <2>1, <2>2
  <2>4. less \in Seq(BlockType) /\ Len(less) = n
    BY <2>1, <2>3
  <2> QED
    BY <2>3, <2>4 DEF n
<1> HIDE DEF less
<1>3. \A m \in 1 .. Len(less) : m \in 1 .. Len(open)
  BY <1>1, <1>2
<1>4. \A n \in 2 .. Len(less) : n \in 1 .. Len(less) /\ n \in 2 .. Len(open)
                                /\ \A m \in 1 .. n - 1 : m \in 1 .. Len(less)
  BY <1>1, <1>2
<1>5. BlocksStand(ls, less)
  BY <1>2, <1>3, <1>4 DEF Nested, BlocksStand
<1> QED
  BY <1>2, <1>5 DEF Nested, less

LEMMA LinesJoined ==
    ASSUME NEW ls \in Seq(LineType), NEW x \in LineType, NEW y \in LineType
    PROVE  ls \o <<>> = ls /\ ls \o <<x>> = Append(ls, x)
           /\ ls \o <<x, y>> = Append(Append(ls, x), y)
OBVIOUS

\* A statement with the lines under it is a line, and then a block.
LEMMA StatementOpened ==
    ASSUME NEW ls, NEW open, Nested(ls, open), NEW op \in Ops
    PROVE  LET b == Parser!Innermost(open)
               x == Parser!Line(op, "none", b.indent, b.line)
               a == Parser!Block(op, Len(ls) + 1, b.indent + 1)
           IN  x \in LineType /\ a \in BlockType /\ Nested(Append(ls, x), Append(open, a))
<1> DEFINE b == Parser!Innermost(open)
           x == Parser!Line(op, "none", b.indent, b.line)
           t == Append(ls, x)
           a == Parser!Block(op, Len(ls) + 1, b.indent + 1)
<1>1. x \in LineType /\ x.op = op /\ x.indent = b.indent /\ Nested(t, open)
  BY PlainKeeps
<1>2. ls \in Seq(LineType) /\ b \in BlockType
  BY InnermostIs DEF Nested
<1> HIDE DEF b, x
<1>3. b.indent \in Nat /\ Len(ls) \in Nat
  BY <1>2 DEF BlockType
<1>4. /\ a \in BlockType /\ a.op = op /\ a.line = Len(ls) + 1 /\ a.indent = b.indent + 1
  BY <1>3 DEF Parser!Block, BlockType
<1>5. Len(t) = Len(ls) + 1 /\ t[Len(ls) + 1] = x
  BY <1>1, <1>2, LineAppended
<1> HIDE DEF t, a
<1>6. Opened(t, a)
  <2>1. \A k \in a.line + 1 .. Len(t) : t[k].indent >= a.indent
    BY <1>3, <1>4, <1>5
  <2> QED
    BY <1>1, <1>3, <1>4, <1>5, <2>1 DEF Opened, Roof
<1>7. Deeper(b, a)
  BY <1>3, <1>4 DEF Deeper
<1>8. Nested(t, Append(open, a))
  BY <1>1, <1>4, <1>6, <1>7, BlockOpened DEF b
<1> QED
  BY <1>1, <1>4, <1>8 DEF t, a, x, b

LEMMA ParentsAre ==
    ASSUME NEW joins \in DOMAIN Parser!Parents
    PROVE  /\ joins \in {"none", "else", "elif", "except", "finally"} /\ joins # "none"
           /\ Parser!Parents[joins] \subseteq {"if", "for", "while", "try"}
BY DEF Parser!Parents

\* A clause is a line that is indented like the statement it continues; the lines after
\* it stand under it.
LEMMA JoinedKeeps ==
    ASSUME NEW ls, NEW open, Nested(ls, open), NEW joins \in DOMAIN Parser!Parents,
           Parser!Innermost(open).op \in Parser!Parents[joins]
    PROVE  LET b == Parser!Innermost(open)
               x == Parser!Line(b.op, joins, b.indent - 1, b.line)
           IN  /\ x \in LineType
               /\ Nested(Append(ls, x), [open EXCEPT ![Len(open)].line = Len(ls) + 1])
<1> DEFINE b == Parser!Innermost(open)
           x == Parser!Line(b.op, joins, b.indent - 1, b.line)
           t == Append(ls, x)
           n == Len(ls) + 1
           last == Len(open)
           a == [b EXCEPT !.line = n]
           moved == [open EXCEPT ![last].line = n]
<1>1. ls \in Seq(LineType) /\ open \in Seq(BlockType) /\ last \in Nat /\ Len(ls) \in Nat
  BY DEF Nested
<1>2. /\ joins \in {"none", "else", "elif", "except", "finally"} /\ joins # "none"
      /\ b.op # "none" /\ b.op # "block"
  BY ParentsAre
<1>3. open # <<>>
  BY <1>2 DEF Parser!Innermost, Parser!Block
<1>4. b = open[last] /\ last \in 1 .. last
  BY <1>1, <1>3 DEF Parser!Innermost, Parser!Last
<1>5. b \in BlockType /\ Roof(ls, b)
  BY InnermostIs
<1> HIDE DEF b
<1>6. /\ Opened(ls, b) /\ Deeper(Outermost, b)
      /\ \A m \in 1 .. last - 1 : Deeper(open[m], b)
  <2>1. Opened(ls, b) /\ Deeper(Outermost, b)
    BY <1>4 DEF Nested, BlocksStand
  <2>2. ASSUME NEW m \in 1 .. last - 1 PROVE Deeper(open[m], b)
    <3>1. last \in 2 .. Len(open) /\ m \in 1 .. last - 1
      BY <1>1, <2>2
    <3> QED
      BY <1>4, <3>1 DEF Nested, BlocksStand
  <2> QED
    BY <2>1, <2>2
<1>7. Outermost.indent = 1
  BY DEF Outermost, Parser!Block
<1>8. b.indent \in Nat /\ b.line \in Nat /\ b.indent > 1 /\ b.op \in Ops
  BY <1>2, <1>5, <1>6, <1>7 DEF Deeper, BlockType
<1>9. /\ x \in LineType /\ x.op = b.op /\ x.joins = joins /\ x.indent = b.indent - 1
      /\ x.under = b.line
  BY <1>2, <1>8 DEF Parser!Line, LineType
<1> HIDE DEF x
<1>10. /\ t \in Seq(LineType) /\ Len(t) = n /\ t[n] = x
       /\ \A k \in 1 .. Len(ls) : t[k] = ls[k] /\ ls[k].indent \in Nat
  BY <1>1, <1>9, LineAppended
<1> HIDE DEF t
<1>11. LineFits(t, n)
  <2>1. /\ b.line \in 1 .. n - 1 /\ t[b.line].indent = b.indent - 1 /\ t[b.line].op = b.op
    BY <1>1, <1>2, <1>6, <1>10 DEF Opened, Roof
  <2>2. ASSUME NEW k \in b.line + 1 .. n - 1 PROVE t[k].indent >= b.indent /\ t[k].indent \in Nat
    <3>1. k \in b.line + 1 .. Len(ls) /\ k \in 1 .. Len(ls)
      BY <1>1, <1>8, <2>1
    <3> QED
      BY <1>5, <1>10, <3>1 DEF Roof
  <2>3. t[n].indent = b.indent - 1 /\ t[n].under = b.line /\ t[n].joins = joins
    BY <1>9, <1>10
  <2> HIDE DEF n
  <2>4. Above(t, n, b.line)
    BY <1>2, <2>1, <2>3 DEF Above
  <2>5. \A k \in b.line + 1 .. n - 1 : ~Above(t, n, k)
    BY <1>8, <2>2, <2>3 DEF Above
  <2>6. t[b.line].op \in Parser!Parents[joins]
    BY <2>1 DEF b
  <2> QED
    BY <2>1, <2>3, <2>4, <2>5, <2>6 DEF LineFits
<1>12. \A i \in 2 .. Len(t) : LineFits(t, i)
  BY <1>1, <1>9, <1>11, LineAdded DEF Nested, t
<1>13. /\ a \in BlockType /\ a.op = b.op /\ a.line = n /\ a.indent = b.indent
  <2>1. n \in Nat /\ b = [op |-> b.op, line |-> b.line, indent |-> b.indent]
    BY <1>1, <1>5 DEF BlockType
  <2> HIDE DEF n
  <2>2. a = [op |-> b.op, line |-> n, indent |-> b.indent]
    BY <2>1
  <2> HIDE DEF a
  <2> QED
    BY <1>8, <2>1, <2>2 DEF BlockType
<1> HIDE DEF a
<1>14. /\ moved \in Seq(BlockType) /\ Len(moved) = last /\ moved[last] = a
       /\ \A m \in 1 .. last - 1 : moved[m] = open[m] /\ open[m] \in BlockType
  <2>1. moved = [open EXCEPT ![last] = a]
    BY <1>4 DEF a
  <2> HIDE DEF moved
  <2> QED
    BY <1>1, <1>4, <1>13, <2>1
<1> HIDE DEF moved
<1>15. ASSUME NEW c, Roof(ls, c), c.indent \in Nat, c.indent <= b.indent - 1 PROVE Roof(t, c)
  <2>1. x.indent >= c.indent
    BY <1>8, <1>9, <1>15
  <2> QED
    BY <1>1, <1>9, <1>15, <2>1, RoofStays DEF t
<1>16. Roof(t, Outermost)
  <2>1. Roof(ls, Outermost)
    BY DEF Nested, BlocksStand
  <2> QED
    BY <1>7, <1>8, <1>15, <2>1
<1>17. Opened(t, a)
  <2>1. n \in 1 .. Len(t) /\ \A k \in n + 1 .. Len(t) : t[k].indent >= a.indent
    BY <1>1, <1>10
  <2>2. t[n].indent = a.indent - 1 /\ t[n].op = a.op
    BY <1>9, <1>10, <1>13
  <2> QED
    BY <1>13, <2>1, <2>2 DEF Opened, Roof
<1>18. ASSUME NEW m \in 1 .. last - 1 PROVE Opened(t, moved[m])
  <2>1. m \in 1 .. Len(open)
    BY <1>1
  <2>2. Opened(ls, open[m]) /\ open[m] \in BlockType
    BY <1>14, <2>1 DEF Nested, BlocksStand
  <2>3. open[m].indent \in Nat /\ open[m].line \in 1 .. Len(ls)
    BY <2>2 DEF BlockType, Opened, Roof
  <2>4. open[m].indent <= b.indent - 1
    BY <1>2, <1>6, <1>8, <2>3 DEF Deeper
  <2>5. Roof(t, open[m])
    BY <1>15, <2>2, <2>3, <2>4 DEF Opened
  <2> QED
    BY <1>10, <1>14, <2>2, <2>3, <2>5 DEF Opened
<1>19. Deeper(Outermost, a) /\ \A m \in 1 .. last - 1 : Deeper(moved[m], a)
  BY <1>6, <1>13, <1>14 DEF Deeper
<1>20. \A k \in 1 .. last : k \in 1 .. last - 1 \/ k = last
  BY <1>1
<1>21. \A k \in 1 .. last - 1 : k \in 1 .. Len(open)
  BY <1>1
<1>22. \A k \in 1 .. Len(moved) : Opened(t, moved[k]) /\ Deeper(Outermost, moved[k])
  <2>1. \A k \in 1 .. last - 1 : Deeper(Outermost, open[k])
    BY <1>21 DEF Nested, BlocksStand
  <2> QED
    BY <1>14, <1>17, <1>18, <1>19, <1>20, <2>1
<1>23. ASSUME NEW k \in 2 .. Len(moved), NEW m \in 1 .. k - 1 PROVE Deeper(moved[m], moved[k])
  <2>1. m \in 1 .. last - 1 /\ k \in 1 .. last
    BY <1>1, <1>14
  <2>2. CASE k = last
    BY <1>14, <1>19, <2>1, <2>2
  <2>3. CASE k # last
    <3>1. k \in 1 .. last - 1 /\ k \in 2 .. Len(open)
      BY <1>1, <1>14, <2>1, <2>3
    <3>2. Deeper(open[m], open[k])
      BY <3>1 DEF Nested, BlocksStand
    <3> QED
      BY <1>14, <2>1, <3>1, <3>2
  <2> QED
    BY <2>2, <2>3
<1>24. BlocksStand(t, moved)
  BY <1>16, <1>22, <1>23 DEF BlocksStand
<1>25. Nested(t, moved)
  BY <1>10, <1>12, <1>14, <1>24 DEF Nested
<1> QED
  BY <1>9, <1>25 DEF t, x, moved, b, n, last

-----------------------------------------------------------------------------
LEMMA ParserBegins == Parser!ParserInit => ParserInv
<1> SUFFICES ASSUME Parser!ParserInit PROVE ParserInv
  OBVIOUS
<1> DEFINE ls == parser.lines
<1>1. ParserRecord(parser) /\ parser.open = <<>>
      /\ ls = <<Parser!Line("def", "none", 0, 0), Parser!Line(Parser!Plain, "none", 1, 1)>>
  BY DEF Parser!ParserInit, ParserRecord
<1>2. /\ ls \in Seq(LineType) /\ Len(ls) = 2
      /\ ls[1].indent = 0 /\ ls[2].indent = 1 /\ ls[2].under = 1 /\ ls[2].joins = "none"
  BY <1>1 DEF Parser!Line, Parser!Plain, LineType, Ops
<1> HIDE DEF ls
<1>3. Outermost.indent = 1 /\ Outermost.line = 1
  BY DEF Outermost, Parser!Block
<1>4. \A k \in 1 + 1 .. 2 : k = 2
  OBVIOUS
<1>5. Roof(ls, Outermost)
  BY <1>2, <1>3, <1>4 DEF Roof
<1>6. LineFits(ls, 2)
  <2>1. \A k \in 1 + 1 .. 2 - 1 : FALSE
    OBVIOUS
  <2>2. Above(ls, 2, 1) /\ 1 \in 1 .. 2 - 1
    BY <1>2 DEF Above
  <2> QED
    BY <1>2, <2>1, <2>2 DEF LineFits
<1>7. \A i \in 2 .. Len(ls) : i = 2
  BY <1>2
<1>8. BlocksStand(ls, <<>>)
  BY <1>5 DEF BlocksStand
<1>9. <<>> \in Seq(BlockType)
  OBVIOUS
<1> QED
  BY <1>1, <1>2, <1>6, <1>7, <1>8, <1>9 DEF ParserInv, Nested, ls

LEMMA ParsedIs ==
    ASSUME ParserInv, NEW open, NEW more, Parser!Parsed(open, more)
    PROVE  ParserRecord(parser') /\ parser'.open = open /\ parser'.lines = parser.lines \o more
BY DEF ParserInv, ParserRecord, Parser!Parsed

LEMMA ParseErrorKeeps == ASSUME ParserInv, Parser!ParseError PROVE ParserInv'
<1>1. ParserRecord(parser') /\ parser'.open = parser.open /\ parser'.lines = parser.lines
  BY DEF ParserInv, ParserRecord, Parser!ParseError
<1> QED
  BY <1>1 DEF ParserInv

LEMMA DirectiveKeeps == ASSUME ParserInv, Parser!Chunk PROVE ParserInv'
<1> DEFINE ls == parser.lines
           open == parser.open
           b == Parser!Innermost(open)
           x == Parser!Line(Parser!Plain, "none", b.indent, b.line)
<1>1. Nested(ls, open) /\ ls \in Seq(LineType)
  BY DEF ParserInv, Nested
<1>2. Parser!Parsed(open, <<x>>)
  BY DEF Parser!Chunk, Parser!PlainLine, Parser!Indent, Parser!Here
<1>3. x \in LineType /\ Nested(Append(ls, x), open)
  BY <1>1, PlainKeeps DEF Parser!Plain, Ops
<1> HIDE DEF ls, open, x
<1>4. ls \o <<x>> = Append(ls, x)
  BY <1>1, <1>3, LinesJoined
<1>5. ParserRecord(parser') /\ parser'.open = open /\ parser'.lines = Append(ls, x)
  BY <1>2, <1>4, ParsedIs DEF ls
<1> QED
  BY <1>3, <1>5 DEF ParserInv

LEMMA SilentKeeps == ASSUME ParserInv, Parser!Silent PROVE ParserInv'
<1>1. parser.lines \in Seq(LineType) /\ Parser!Parsed(parser.open, <<>>)
  BY DEF ParserInv, Nested, Parser!Silent
<1>2. parser.lines \o <<>> = parser.lines
  BY <1>1
<1>3. ParserRecord(parser') /\ parser'.open = parser.open /\ parser'.lines = parser.lines
  BY <1>1, <1>2, ParsedIs
<1> QED
  BY <1>3 DEF ParserInv

LEMMA NamedKeeps == ASSUME ParserInv, Parser!NamedBlock PROVE ParserInv'
<1> DEFINE ls == parser.lines
           open == parser.open
           b == Parser!Innermost(open)
           a == Parser!Block("block", b.line, b.indent)
<1>1. Nested(ls, open) /\ ls \in Seq(LineType) /\ ls \o <<>> = ls
  BY DEF ParserInv, Nested
<1>2. Parser!Parsed(Append(open, a), <<>>)
  BY DEF Parser!NamedBlock, Parser!Indent, Parser!Here
<1>3. b \in BlockType /\ Roof(ls, b)
  BY <1>1, InnermostIs
<1> HIDE DEF ls, open, b
<1>4. b.line \in Nat /\ b.indent \in Nat
  BY <1>3 DEF BlockType
<1>5. a \in BlockType /\ a.op = "block" /\ a.line = b.line /\ a.indent = b.indent
  BY <1>4 DEF Parser!Block, BlockType, Ops
<1> HIDE DEF a
<1>6. Opened(ls, a) /\ Deeper(b, a)
  BY <1>3, <1>4, <1>5 DEF Opened, Roof, Deeper
<1>7. Nested(ls, Append(open, a))
  BY <1>1, <1>5, <1>6, BlockOpened DEF b
<1>8. ParserRecord(parser') /\ parser'.open = Append(open, a) /\ parser'.lines = ls
  BY <1>1, <1>2, ParsedIs DEF ls
<1> QED
  BY <1>7, <1>8 DEF ParserInv

LEMMA OpenKeeps ==
    ASSUME ParserInv, NEW op \in Parser!Control \cup {"apply"}, Parser!OpenBlock(op)
    PROVE  ParserInv'
<1> DEFINE ls == parser.lines
           open == parser.open
           b == Parser!Innermost(open)
           x == Parser!Line(op, "none", b.indent, b.line)
           a == Parser!Block(op, Len(ls) + 1, b.indent + 1)
           y == Parser!Line(Parser!Plain, "none", a.indent, a.line)
<1>1. Nested(ls, open) /\ ls \in Seq(LineType) /\ open \in Seq(BlockType) /\ op \in Ops
  BY DEF ParserInv, Nested, Parser!Control, Ops
<1>2. x \in LineType /\ a \in BlockType /\ Nested(Append(ls, x), Append(open, a))
  BY <1>1, StatementOpened
<1>3. a.indent = b.indent + 1 /\ a.line = Len(ls) + 1
  BY DEF Parser!Block
<1>4. Parser!Parsed(Append(open, a), IF op = "apply" THEN <<x, y>> ELSE <<x>>)
  BY <1>3 DEF Parser!OpenBlock, Parser!Indent, Parser!Here
<1> HIDE DEF x, a
<1>5. Parser!Innermost(Append(open, a)) = a
  <2>1. /\ Append(open, a) # <<>> /\ Len(Append(open, a)) = Len(open) + 1
        /\ Append(open, a)[Len(open) + 1] = a
    BY <1>1, <1>2
  <2> QED
    BY <2>1 DEF Parser!Innermost, Parser!Last
<1>6. y \in LineType /\ Nested(Append(Append(ls, x), y), Append(open, a))
  BY <1>2, <1>5, PlainKeeps DEF Parser!Plain, Ops
<1> HIDE DEF ls, open, y
<1>7. ls \o <<x>> = Append(ls, x) /\ ls \o <<x, y>> = Append(Append(ls, x), y)
  BY <1>1, <1>2, <1>6, LinesJoined
<1>8. /\ ParserRecord(parser') /\ parser'.open = Append(open, a)
      /\ parser'.lines \in {Append(ls, x), Append(Append(ls, x), y)}
  BY <1>4, <1>7, ParsedIs DEF ls
<1> QED
  BY <1>2, <1>6, <1>8 DEF ParserInv

LEMMA EndKeeps == ASSUME ParserInv, Parser!EndBlock PROVE ParserInv'
<1>1. CASE parser.open = <<>>
  BY <1>1, ParseErrorKeeps DEF Parser!EndBlock
<1>2. CASE parser.open # <<>>
  <2> DEFINE ls == parser.lines
             open == parser.open
             outer == Parser!Front(open)
             b == Parser!Innermost(open)
             c == Parser!Innermost(outer)
             x == Parser!Line(Parser!Plain, "none", b.indent, b.line)
             y == Parser!Line(Parser!Plain, "none", c.indent, c.line)
  <2>1. Nested(ls, open) /\ ls \in Seq(LineType)
    BY DEF ParserInv, Nested
  <2>2. Parser!Parsed(outer, IF b.op = "apply" THEN <<x, y>> ELSE <<>>)
    BY <1>2 DEF Parser!EndBlock, Parser!PlainLine, Parser!Indent, Parser!Here, Parser!InBlock
  <2>3. x \in LineType /\ Nested(Append(ls, x), open)
    BY <2>1, PlainKeeps DEF Parser!Plain, Ops
  <2>4. Nested(Append(ls, x), outer)
    BY <1>2, <2>3, BlockEnded
  <2>5. y \in LineType /\ Nested(Append(Append(ls, x), y), outer)
    BY <2>4, PlainKeeps DEF Parser!Plain, Ops
  <2>6. Nested(ls, outer)
    BY <1>2, <2>1, BlockEnded
  <2> HIDE DEF ls, outer, x, y
  <2>7. ls \o <<>> = ls /\ ls \o <<x, y>> = Append(Append(ls, x), y)
    BY <2>1, <2>3, <2>5, LinesJoined
  <2>8. /\ ParserRecord(parser') /\ parser'.open = outer
        /\ parser'.lines \in {ls, Append(Append(ls, x), y)}
    BY <2>2, <2>7, ParsedIs DEF ls
  <2> QED
    BY <2>5, <2>6, <2>8 DEF ParserInv
<1> QED
  BY <1>1, <1>2

LEMMA FileEndKeeps == ASSUME ParserInv, Parser!EndOfFile PROVE ParserInv'
<1> DEFINE ls == parser.lines
           x == Parser!Line(Parser!Plain, "none", 1, 1)
<1>1. CASE parser.open # <<>>
  <2>1. ParserRecord(parser') /\ parser'.open = parser.open /\ parser'.lines = parser.lines
    BY <1>1 DEF ParserInv, ParserRecord, Parser!EndOfFile
  <2> QED
    BY <2>1 DEF ParserInv
<1>2. CASE parser.open = <<>>
  <2>1. Nested(ls, <<>>)
    BY <1>2 DEF ParserInv
  <2>2. Parser!Innermost(<<>>).indent = 1 /\ Parser!Innermost(<<>>).line = 1
    BY DEF Parser!Innermost, Parser!Block
  <2>3. Nested(Append(ls, x), <<>>)
    BY <2>1, <2>2, PlainKeeps DEF Parser!Plain, Ops
  <2>4. ParserRecord(parser') /\ parser'.open = <<>> /\ parser'.lines = Append(ls, x)
    BY <1>2 DEF ParserInv, ParserRecord, Parser!EndOfFile
  <2> QED
    BY <2>3, <2>4 DEF ParserInv
<1> QED
  BY <1>1, <1>2

LEMMA JoinKeeps ==
    ASSUME ParserInv, NEW joins \in DOMAIN Parser!Parents, Parser!Intermediate(joins)
    PROVE  ParserInv'
<1>1. CASE ~Parser!Attached(joins)
  BY <1>1, ParseErrorKeeps DEF Parser!Intermediate
<1>2. CASE Parser!Attached(joins)
  <2> DEFINE ls == parser.lines
             open == parser.open
             b == Parser!Innermost(open)
             x == Parser!Line(b.op, joins, b.indent - 1, b.line)
             moved == [open EXCEPT ![Len(open)].line = Len(ls) + 1]
  <2>1. Nested(ls, open) /\ ls \in Seq(LineType) /\ b.op \in Parser!Parents[joins]
    BY <1>2 DEF ParserInv, Nested, Parser!Attached, Parser!InBlock
  <2>2. Parser!Parsed(moved, <<x>>)
    BY <1>2 DEF Parser!Intermediate, Parser!Outdent, Parser!Indent, Parser!Here, Parser!InBlock
  <2>3. x \in LineType /\ Nested(Append(ls, x), moved)
    BY <2>1, JoinedKeeps
  <2> HIDE DEF ls, x, moved
  <2>4. ls \o <<x>> = Append(ls, x)
    BY <2>1, <2>3, LinesJoined
  <2>5. ParserRecord(parser') /\ parser'.open = moved /\ parser'.lines = Append(ls, x)
    BY <2>2, <2>4, ParsedIs DEF ls
  <2> QED
    BY <2>3, <2>5 DEF ParserInv
<1> QED
  BY <1>1, <1>2

LEMMA ParserKeeps == ParserInv /\ [Parser!ParserNext]_parser => ParserInv'
<1> SUFFICES ASSUME ParserInv, [Parser!ParserNext]_parser PROVE ParserInv'
  OBVIOUS
<1>1. CASE UNCHANGED parser
  BY <1>1 DEF ParserInv
<1>2. CASE Parser!Chunk
  BY <1>2, DirectiveKeeps
<1>3. CASE Parser!Silent
  BY <1>3, SilentKeeps
<1>4. CASE Parser!Malformed
  BY <1>4, ParseErrorKeeps DEF Parser!Malformed
<1>5. CASE Parser!NamedBlock
  BY <1>5, NamedKeeps
<1>6. CASE Parser!EndBlock
  BY <1>6, EndKeeps
<1>7. CASE Parser!EndOfFile
  BY <1>7, FileEndKeeps
<1>8. CASE \E joins \in DOMAIN Parser!Parents : Parser!Intermediate(joins)
  BY <1>8, JoinKeeps
<1>9. CASE \E op \in Parser!Control \cup {"apply"} : Parser!OpenBlock(op)
  BY <1>9, OpenKeeps
<1> QED
  BY <1>1, <1>2, <1>3, <1>4, <1>5, <1>6, <1>7, <1>8, <1>9 DEF Parser!ParserNext

\* The last line above that can be the parent is the one the line has.
LEMMA FitsIsUnder == ParserInv => NestedAsWritten
<1> SUFFICES ASSUME ParserInv, NEW i \in 2 .. Len(parser.lines)
             PROVE  /\ Parser!UnderByIndent(i) = parser.lines[i].under
                    /\ parser.lines[i].joins # "none" =>
                         LET u == parser.lines[i].under
                         IN  /\ parser.lines[u].op \in Parser!Parents[parser.lines[i].joins]
                             /\ parser.lines[u].indent = parser.lines[i].indent
  BY DEF NestedAsWritten, Parser!NestedAsWritten, Parser!Lines
<1> DEFINE ls == parser.lines
           u == ls[i].under
           places == {j \in 1 .. i - 1 : \/ ls[j].indent < ls[i].indent
                                         \/ ls[i].joins # "none" /\ ls[j].indent = ls[i].indent}
<1>1. LineFits(ls, i)
  BY DEF ParserInv, Nested
<1>2. Parser!UnderByIndent(i) = Parser!LastOf(places)
  BY DEF Parser!UnderByIndent, Parser!Lines
<1>3. \A j : j \in places <=> j \in 1 .. i - 1 /\ Above(ls, i, j)
  BY DEF Above
<1> HIDE DEF ls, places
<1>4. u \in places /\ \A k \in places : k \in Int
  BY <1>1, <1>3 DEF LineFits
<1>5. \A k \in places : k <= u
  <2> SUFFICES ASSUME NEW k \in places, k > u PROVE FALSE
    BY <1>4
  <2>1. k \in 1 .. i - 1 /\ Above(ls, i, k) /\ u \in 1 .. i - 1
    BY <1>3, <1>4
  <2>2. k \in u + 1 .. i - 1
    BY <2>1
  <2> QED
    BY <1>1, <2>1, <2>2 DEF LineFits
<1>6. \A j \in places : (\A k \in places : k <= j) => j = u
  BY <1>4, <1>5
<1>7. Parser!LastOf(places) = u
  BY <1>4, <1>5, <1>6 DEF Parser!LastOf
<1> QED
  BY <1>1, <1>2, <1>7 DEF LineFits, ls

\* The code of a template does what the template says: by its indentation each line
\* belongs to the block or clause in which its directive stands, and each clause to a
\* statement that has such a clause, however deep the directives are nested.
THEOREM AlwaysNestedAsWritten == ServicesSpec => []NestedAsWritten
<1>1. ServicesInit => ParserInv
  BY ParserBegins DEF ServicesInit
<1>2. ParserInv /\ [ServicesNext]_servicesVars => ParserInv'
  BY ParserKeeps, PartsAlone
<1> QED
  BY <1>1, <1>2, FitsIsUnder, PTL DEF ServicesSpec

-----------------------------------------------------------------------------
(* The handles of the curl client.                                         *)

AskedType ==
    [valid : BOOLEAN, at : {"queued", "running", "dropped", "refused", "answered"}, answers : Nat]

\* The requests of the queue are waiting, each at one place of it; ...
QueueIs(queue, requests_) ==
    /\ queue \in Seq(Nat)
    /\ \A k \in 1 .. Len(queue) :
          queue[k] \in 1 .. Len(requests_) /\ requests_[queue[k]].at = "queued"
    /\ \A j, k \in 1 .. Len(queue) : queue[j] = queue[k] => j = k
\* ... a free handle is free once, and is not with libcurl; ...
FreeIs(free, multi) ==
    /\ free \in Seq(Handles)
    /\ \A k \in 1 .. Len(free) : free[k] \notin multi
    /\ \A j, k \in 1 .. Len(free) : free[j] = free[k] => j = k
\* ... libcurl's handles run a request each, ...
InfoIs(info, multi, requests_) ==
    /\ info \in [Handles -> Nat] /\ multi \subseteq Handles
    /\ \A h \in multi : info[h] \in 1 .. Len(requests_) /\ requests_[info[h]].at = "running"
    /\ \A g, h \in multi : info[g] = info[h] => g = h
\* ... any other has no request and is free, or has one whose setup raised; ...
LeftIs(free, info, multi, requests_) ==
    /\ \A h \in Handles : info[h] = 0 <=> \E k \in 1 .. Len(free) : free[k] = h
    /\ \A h \in Handles : h \notin multi /\ info[h] # 0 =>
          info[h] \in 1 .. Len(requests_) /\ requests_[info[h]].at \in {"dropped", "refused"}
\* ... a completed handle is reported once, and is with libcurl until then; ...
CompletedIs(completed, multi) ==
    /\ completed \in Seq(Handles)
    /\ \A k \in 1 .. Len(completed) : completed[k] \in multi
    /\ \A j, k \in 1 .. Len(completed) : completed[j] = completed[k] => j = k
\* ... and no request is answered twice.
AnswersAre(requests_) ==
    /\ requests_ \in Seq(AskedType)
    /\ \A r \in 1 .. Len(requests_) :
          requests_[r].answers = (IF requests_[r].at = "answered" THEN 1 ELSE 0)
Pool(queue, free, info, multi, completed, requests_) ==
    /\ QueueIs(queue, requests_) /\ FreeIs(free, multi) /\ InfoIs(info, multi, requests_)
    /\ LeftIs(free, info, multi, requests_)
    /\ CompletedIs(completed, multi) /\ AnswersAre(requests_)

\* The first n requests are taken by as many of the free handles, the last ones.
TakenBy(q, f, i, m, a, n, good, q2, f2, i2, m2, a2) ==
    /\ n \in 0 .. Len(q) /\ n <= Len(f)
    /\ \A k : k \in good <=> k \in 1 .. n /\ a[q[k]].valid
    /\ q2 \in Seq(Nat) /\ Len(q2) = Len(q) - n /\ \A k \in 1 .. Len(q2) : q2[k] = q[n + k]
    /\ f2 \in Seq(Handles) /\ Len(f2) = Len(f) - n /\ \A k \in 1 .. Len(f2) : f2[k] = f[k]
    /\ i2 \in [Handles -> Nat] /\ \A k \in 1 .. n : i2[f[Len(f) + 1 - k]] = q[k]
    /\ \A h \in Handles : (\A k \in 1 .. n : f[Len(f) + 1 - k] # h) => i2[h] = i[h]
    /\ \A h : h \in m2 <=> h \in m \/ \E k \in good : f[Len(f) + 1 - k] = h
    /\ a2 \in Seq(AskedType) /\ Len(a2) = Len(a)
    /\ \A r \in 1 .. Len(a) : a2[r].valid = a[r].valid /\ a2[r].answers = a[r].answers
    /\ \A k \in 1 .. n : a2[q[k]].at = (IF a[q[k]].valid THEN "running" ELSE "dropped")
    /\ \A r \in 1 .. Len(a) : (\A k \in 1 .. n : q[k] # r) => a2[r].at = a[r].at

LEMMA QueuedOnce ==
    ASSUME NEW q, NEW a, QueueIs(q, a), NEW j \in 1 .. Len(q), NEW k \in 1 .. Len(q), j # k
    PROVE  q[j] # q[k]
BY DEF QueueIs

LEMMA FreeAt ==
    ASSUME NEW f, NEW m, FreeIs(f, m), NEW j \in 1 .. Len(f)
    PROVE  f[j] \in Handles /\ f[j] \notin m
BY DEF FreeIs

LEMMA FreeDiffer ==
    ASSUME NEW f, NEW m, FreeIs(f, m), NEW j \in 1 .. Len(f), NEW k \in 1 .. Len(f), j # k
    PROVE  f[j] # f[k]
BY DEF FreeIs

LEMMA PoolTaken ==
    ASSUME NEW q, NEW f, NEW i, NEW m, NEW c, NEW a, Pool(q, f, i, m, c, a),
           NEW n, NEW good, NEW q2, NEW f2, NEW i2, NEW m2, NEW a2,
           TakenBy(q, f, i, m, a, n, good, q2, f2, i2, m2, a2)
    PROVE  Pool(q2, f2, i2, m2, c, a2)
<1> SUFFICES ASSUME
        n \in 0 .. Len(q), n <= Len(f), \A k : k \in good <=> k \in 1 .. n /\ a[q[k]].valid,
        q2 \in Seq(Nat), Len(q2) = Len(q) - n, \A k \in 1 .. Len(q2) : q2[k] = q[n + k],
        f2 \in Seq(Handles), Len(f2) = Len(f) - n, \A k \in 1 .. Len(f2) : f2[k] = f[k],
        i2 \in [Handles -> Nat], \A k \in 1 .. n : i2[f[Len(f) + 1 - k]] = q[k],
        \A h \in Handles : (\A k \in 1 .. n : f[Len(f) + 1 - k] # h) => i2[h] = i[h],
        \A h : h \in m2 <=> h \in m \/ \E k \in good : f[Len(f) + 1 - k] = h,
        a2 \in Seq(AskedType), Len(a2) = Len(a),
        \A r \in 1 .. Len(a) : a2[r].valid = a[r].valid /\ a2[r].answers = a[r].answers,
        \A k \in 1 .. n : a2[q[k]].at = (IF a[q[k]].valid THEN "running" ELSE "dropped"),
        \A r \in 1 .. Len(a) : (\A k \in 1 .. n : q[k] # r) => a2[r].at = a[r].at
             PROVE  Pool(q2, f2, i2, m2, c, a2)
  BY DEF TakenBy
<1>0. /\ QueueIs(q, a) /\ FreeIs(f, m) /\ InfoIs(i, m, a) /\ CompletedIs(c, m) /\ AnswersAre(a)
      /\ LeftIs(f, i, m, a)
  BY DEF Pool
<1>1. Len(q) \in Nat /\ Len(f) \in Nat /\ n \in Nat /\ Len(q2) \in Nat /\ Len(f2) \in Nat
      /\ Len(a) \in Nat
  BY <1>0 DEF QueueIs, FreeIs, AnswersAre
<1>2. \A k \in 1 .. n : k \in 1 .. Len(q) /\ k \in 1 .. Len(f) /\ Len(f) + 1 - k \in 1 .. Len(f)
  BY <1>1
<1>3. \A k \in 1 .. n : Len(f) + 1 - k \notin 1 .. Len(f2)
  BY <1>1
<1>4. \A k \in 1 .. Len(f2) : k \in 1 .. Len(f)
  BY <1>1
<1>5. \A k \in 1 .. Len(q2) : n + k \in 1 .. Len(q) /\ n + k \notin 1 .. n
  BY <1>1
<1>51. ASSUME NEW h PROVE h \in m2 <=> h \in m \/ \E k \in good : f[Len(f) + 1 - k] = h
  OBVIOUS
<1>6. QueueIs(q2, a2)
  <2>1. ASSUME NEW k \in 1 .. Len(q2)
        PROVE  q2[k] \in 1 .. Len(a2) /\ a2[q2[k]].at = "queued"
    <3>1. q2[k] = q[n + k] /\ n + k \in 1 .. Len(q)
      BY <1>5
    <3>2. q[n + k] \in 1 .. Len(a) /\ a[q[n + k]].at = "queued"
      BY <1>0, <3>1 DEF QueueIs
    <3>3. \A j \in 1 .. n : q[j] # q[n + k]
      BY <1>0, <1>2, <1>5, <3>1 DEF QueueIs
    <3>4. a2[q[n + k]].at = a[q[n + k]].at
      BY <3>2, <3>3
    <3> QED
      BY <3>1, <3>2, <3>4
  <2>2. ASSUME NEW j \in 1 .. Len(q2), NEW k \in 1 .. Len(q2), q2[j] = q2[k] PROVE j = k
    <3>1. n + j \in 1 .. Len(q) /\ n + k \in 1 .. Len(q) /\ q[n + j] = q[n + k]
      BY <1>5, <2>2
    <3>2. n + j = n + k
      BY <1>0, <3>1 DEF QueueIs
    <3> QED
      BY <1>1, <3>2
  <2> QED
    BY <2>1, <2>2 DEF QueueIs
<1>7. FreeIs(f2, m2)
  <2>1. ASSUME NEW k \in 1 .. Len(f2) PROVE f2[k] \notin m2
    <3>1. f2[k] = f[k] /\ k \in 1 .. Len(f) /\ f[k] \notin m
      BY <1>0, <1>4 DEF FreeIs
    <3>2. ASSUME NEW j \in good PROVE f[Len(f) + 1 - j] # f[k]
      <4>1. j \in 1 .. n
        OBVIOUS
      <4>2. Len(f) + 1 - j \in 1 .. Len(f) /\ Len(f) + 1 - j \notin 1 .. Len(f2)
        BY <1>2, <1>3, <4>1
      <4>3. Len(f) + 1 - j # k
        BY <4>2
      <4>4. FreeIs(f, m)
        BY <1>0
      <4> DEFINE u == Len(f) + 1 - j
      <4>5. u \in 1 .. Len(f) /\ k \in 1 .. Len(f) /\ u # k
        BY <3>1, <4>2, <4>3
      <4> HIDE DEF u
      <4>6. f[u] # f[k]
        BY ONLY <4>4, <4>5, FreeDiffer
      <4> QED
        BY <4>6 DEF u
    <3>3. f2[k] \in m2 <=> f2[k] \in m \/ \E j \in good : f[Len(f) + 1 - j] = f2[k]
      BY <1>51
    <3> QED
      BY <3>1, <3>2, <3>3
  <2>2. ASSUME NEW j \in 1 .. Len(f2), NEW k \in 1 .. Len(f2), f2[j] = f2[k] PROVE j = k
    <3>1. j \in 1 .. Len(f) /\ k \in 1 .. Len(f) /\ f[j] = f[k]
      BY <1>4, <2>2
    <3> QED
      BY <1>0, <3>1 DEF FreeIs
  <2> QED
    BY <2>1, <2>2 DEF FreeIs
<1>8. ASSUME NEW h \in m PROVE h \in Handles /\ i2[h] = i[h] /\ a2[i[h]] \in AskedType
                               /\ i[h] \in 1 .. Len(a2) /\ a2[i[h]].at = "running"
                               /\ \A k \in 1 .. n : q[k] # i[h]
  <2>1. h \in Handles /\ i[h] \in 1 .. Len(a) /\ a[i[h]].at = "running"
    BY <1>0, <1>8 DEF InfoIs
  <2>2. ASSUME NEW k \in 1 .. n PROVE f[Len(f) + 1 - k] # h
    <3>2. Len(f) + 1 - k \in 1 .. Len(f)
      BY <1>2
    <3>3. f[Len(f) + 1 - k] \notin m
      BY <1>0, <3>2, FreeAt
    <3> QED
      BY <1>8, <3>3
  <2>3. ASSUME NEW k \in 1 .. n PROVE q[k] # i[h]
    <3>1. k \in 1 .. Len(q)
      BY <1>2
    <3>2. a[q[k]].at = "queued"
      BY <1>0, <3>1 DEF QueueIs
    <3> QED
      BY <2>1, <3>2
  <2>4. i2[h] = i[h] /\ a2[i[h]].at = "running"
    BY <2>1, <2>2, <2>3
  <2> QED
    BY <2>1, <2>3, <2>4
<1>9. ASSUME NEW k \in good
      PROVE  /\ f[Len(f) + 1 - k] \in Handles /\ i2[f[Len(f) + 1 - k]] = q[k]
             /\ q[k] \in 1 .. Len(a2) /\ a2[q[k]].at = "running" /\ k \in 1 .. n
  <2>1. k \in 1 .. n /\ a[q[k]].valid /\ k \in 1 .. Len(q) /\ Len(f) + 1 - k \in 1 .. Len(f)
    BY <1>2
  <2>2. q[k] \in 1 .. Len(a)
    BY <1>0, <2>1 DEF QueueIs
  <2>3. f[Len(f) + 1 - k] \in Handles
    <3> DEFINE u == Len(f) + 1 - k
    <3>1. u \in 1 .. Len(f) /\ FreeIs(f, m)
      BY <1>0, <2>1
    <3> HIDE DEF u
    <3>2. f[u] \in Handles
      BY ONLY <3>1, FreeAt
    <3> QED
      BY <3>2 DEF u
  <2> QED
    BY <2>1, <2>2, <2>3
<1>10. InfoIs(i2, m2, a2)
  <2>1. ASSUME NEW h \in m2 PROVE h \in Handles
    <3>1. CASE h \in m
      BY <1>8, <3>1
    <3>2. CASE \E k \in good : f[Len(f) + 1 - k] = h
      BY <1>9, <3>2
    <3> QED
      BY <1>51, <2>1, <3>1, <3>2
  <2>3. ASSUME NEW h \in m2 PROVE i2[h] \in 1 .. Len(a2) /\ a2[i2[h]].at = "running"
    <3>1. CASE h \in m
      <4>1. i2[h] = i[h] /\ i[h] \in 1 .. Len(a2) /\ a2[i[h]].at = "running"
        BY <1>8, <3>1, Zenon
      <4> QED
        BY ONLY <4>1
    <3>2. CASE h \notin m
      <4>1. PICK k \in good : f[Len(f) + 1 - k] = h
        BY <2>3, <3>2
      <4> QED
        BY <1>9, <4>1
    <3> QED
      BY <3>1, <3>2
  <2>4. ASSUME NEW g \in m2, NEW h \in m2, i2[g] = i2[h] PROVE g = h
    <3>1. CASE g \in m /\ h \in m
      BY <1>0, <1>8, <2>4, <3>1 DEF InfoIs
    <3>2. ASSUME NEW x \in m, NEW k \in good, i2[x] = i2[f[Len(f) + 1 - k]] PROVE FALSE
      <4>1. i2[x] = i[x] /\ q[k] # i[x]
        BY <1>8, <1>9, <3>2
      <4> QED
        BY <1>9, <3>2, <4>1
    <3>3. CASE g \notin m /\ h \notin m
      <4>1. PICK j \in good : f[Len(f) + 1 - j] = g
        BY <2>4, <3>3
      <4>2. PICK k \in good : f[Len(f) + 1 - k] = h
        BY <2>4, <3>3
      <4>3. q[j] = q[k] /\ j \in 1 .. Len(q) /\ k \in 1 .. Len(q)
        BY <1>2, <1>9, <2>4, <4>1, <4>2
      <4>4. j = k
        BY <1>0, <4>3 DEF QueueIs
      <4> QED
        BY <4>1, <4>2, <4>4
    <3>4. CASE g \in m /\ h \notin m
      <4>1. PICK k \in good : f[Len(f) + 1 - k] = h
        BY <2>4, <3>4
      <4> QED
        BY <2>4, <3>2, <3>4, <4>1
    <3>5. CASE g \notin m /\ h \in m
      <4>1. PICK k \in good : f[Len(f) + 1 - k] = g
        BY <2>4, <3>5
      <4> QED
        BY <2>4, <3>2, <3>5, <4>1
    <3> QED
      BY <3>1, <3>3, <3>4, <3>5
  <2> QED
    BY <2>1, <2>3, <2>4 DEF InfoIs
<1>11. CompletedIs(c, m2)
  BY <1>0 DEF CompletedIs
\* The places of the free list are those that are left and those that are taken.
<1>13. ASSUME NEW h \in Handles
       PROVE  i[h] = 0 <=> \/ \E k \in 1 .. Len(f2) : f2[k] = h
                           \/ \E k \in 1 .. n : f[Len(f) + 1 - k] = h
  <2>1. ASSUME NEW j \in 1 .. Len(f), f[j] = h
        PROVE  \/ \E k \in 1 .. Len(f2) : f2[k] = h
               \/ \E k \in 1 .. n : f[Len(f) + 1 - k] = h
    <3>1. CASE j \in 1 .. Len(f2)
      BY <2>1, <3>1
    <3>2. CASE j \notin 1 .. Len(f2)
      <4> DEFINE k == Len(f) + 1 - j
      <4>1. k \in 1 .. n /\ Len(f) + 1 - k = j
        BY <1>1, <3>2
      <4> QED
        BY <2>1, <4>1
    <3> QED
      BY <3>1, <3>2
  <2>2. ASSUME NEW k \in 1 .. Len(f2), f2[k] = h PROVE \E j \in 1 .. Len(f) : f[j] = h
    BY <1>4, <2>2
  <2>3. ASSUME NEW k \in 1 .. n, f[Len(f) + 1 - k] = h PROVE \E j \in 1 .. Len(f) : f[j] = h
    BY <1>2, <2>3
  <2>4. i[h] = 0 <=> \E j \in 1 .. Len(f) : f[j] = h
    BY <1>0 DEF LeftIs
  <2> QED
    BY <2>1, <2>2, <2>3, <2>4
<1>14. ASSUME NEW h \in Handles, NEW k \in 1 .. n, f[Len(f) + 1 - k] = h
       PROVE  /\ i2[h] = q[k] /\ q[k] \in 1 .. Len(a) /\ q[k] # 0
              /\ \A j \in 1 .. Len(f2) : f2[j] # h
              /\ h \notin m2 => a2[q[k]].at = "dropped"
  <2>1. i2[h] = q[k]
    BY <1>14
  <2>2. q[k] \in 1 .. Len(a)
    BY <1>0, <1>2 DEF QueueIs
  <2>3. q[k] # 0
    BY <2>2
  <2>4. ASSUME NEW j \in 1 .. Len(f2) PROVE f2[j] # h
    <3> DEFINE u == Len(f) + 1 - k
    <3>1. u \in 1 .. Len(f) /\ j \in 1 .. Len(f) /\ u # j /\ f2[j] = f[j] /\ f[u] = h /\ FreeIs(f, m)
      BY SMTT(30), <1>0, <1>2, <1>3, <1>4, <1>14
    <3> HIDE DEF u
    <3>2. f[u] # f[j]
      BY ONLY <3>1, FreeDiffer
    <3> QED
      BY ONLY <3>1, <3>2
  <2>5. ASSUME h \notin m2 PROVE a2[q[k]].at = "dropped"
    <3>1. k \notin good
      BY ZenonT(40), <1>14, <1>51, <2>5
    <3>2. ~a[q[k]].valid
      BY <3>1
    <3> QED
      BY <3>2
  <2> QED
    BY <2>1, <2>2, <2>3, <2>4, <2>5
<1>15. LeftIs(f2, i2, m2, a2)
  <2>1. ASSUME NEW h \in Handles PROVE i2[h] = 0 <=> \E k \in 1 .. Len(f2) : f2[k] = h
    <3>1. CASE \E k \in 1 .. n : f[Len(f) + 1 - k] = h
      BY SMTT(30), <1>14, <3>1
    <3>2. CASE \A k \in 1 .. n : f[Len(f) + 1 - k] # h
      <4>1. i2[h] = i[h]
        BY <3>2
      <4>2. i[h] = 0 <=> \E k \in 1 .. Len(f2) : f2[k] = h
        BY <1>13, <3>2
      <4> QED
        BY ONLY <4>1, <4>2
    <3> QED
      BY <3>1, <3>2
  <2>2. ASSUME NEW h \in Handles, h \notin m2, i2[h] # 0
        PROVE  i2[h] \in 1 .. Len(a2) /\ a2[i2[h]].at \in {"dropped", "refused"}
    <3>1. CASE \E k \in 1 .. n : f[Len(f) + 1 - k] = h
      BY SMTT(30), <1>14, <2>2, <3>1
    <3>2. CASE \A k \in 1 .. n : f[Len(f) + 1 - k] # h
      <4>1. i2[h] = i[h]
        BY <3>2
      <4>2. h \notin m
        BY <1>51, <2>2
      <4>3. i[h] \in 1 .. Len(a) /\ a[i[h]].at \in {"dropped", "refused"}
        BY <1>0, <2>2, <4>1, <4>2 DEF LeftIs
      <4>4. ASSUME NEW k \in 1 .. n PROVE q[k] # i[h]
        <5>1. a[q[k]].at = "queued"
          BY <1>0, <1>2 DEF QueueIs
        <5> QED
          BY <4>3, <5>1
      <4>5. a2[i[h]].at = a[i[h]].at
        BY <4>3, <4>4
      <4> QED
        BY <4>1, <4>3, <4>5
    <3> QED
      BY <3>1, <3>2
  <2> QED
    BY <2>1, <2>2 DEF LeftIs
<1>12. AnswersAre(a2)
  <2> SUFFICES ASSUME NEW r \in 1 .. Len(a2)
               PROVE  a2[r].answers = (IF a2[r].at = "answered" THEN 1 ELSE 0)
    BY DEF AnswersAre
  <2>1. a[r].answers = (IF a[r].at = "answered" THEN 1 ELSE 0) /\ a2[r].answers = a[r].answers
    BY <1>0 DEF AnswersAre
  <2>2. CASE \E k \in 1 .. n : q[k] = r
    <3>1. PICK k \in 1 .. n : q[k] = r
      BY <2>2
    <3>2. a[r].at = "queued"
      BY <1>0, <1>2, <3>1 DEF QueueIs
    <3>3. a2[r].at # "answered"
      BY <3>1
    <3> QED
      BY <2>1, <3>2, <3>3
  <2>3. CASE \A k \in 1 .. n : q[k] # r
    BY <2>1, <2>3
  <2> QED
    BY <2>2, <2>3
<1> QED
  BY <1>6, <1>7, <1>10, <1>11, <1>12, <1>15 DEF Pool

LEMMA PoolQueued ==
    ASSUME NEW q, NEW f, NEW i, NEW m, NEW c, NEW a, Pool(q, f, i, m, c, a),
           NEW x \in AskedType, x.at = "queued", x.answers = 0
    PROVE  Pool(Append(q, Len(a) + 1), f, i, m, c, Append(a, x))
<1> DEFINE n == Len(a) + 1
           q2 == Append(q, n)
           a2 == Append(a, x)
<1>0. /\ QueueIs(q, a) /\ FreeIs(f, m) /\ InfoIs(i, m, a) /\ CompletedIs(c, m) /\ AnswersAre(a)
      /\ LeftIs(f, i, m, a)
  BY DEF Pool
<1>1. a \in Seq(AskedType) /\ q \in Seq(Nat) /\ Len(a) \in Nat /\ Len(q) \in Nat /\ n \in Nat
  BY <1>0 DEF QueueIs, AnswersAre
<1>2. /\ a2 \in Seq(AskedType) /\ Len(a2) = n /\ a2[n] = x
      /\ \A r \in 1 .. Len(a) : a2[r] = a[r] /\ r \in 1 .. n
  BY <1>1
<1>3. /\ q2 \in Seq(Nat) /\ Len(q2) = Len(q) + 1 /\ q2[Len(q) + 1] = n
      /\ \A k \in 1 .. Len(q) : q2[k] = q[k]
  BY <1>1
<1>4. n \in 1 .. n /\ n \notin 1 .. Len(a)
  BY <1>1
<1> HIDE DEF q2, a2
<1>5. \A k \in 1 .. Len(q2) : k \in 1 .. Len(q) \/ k = Len(q) + 1
  BY <1>1, <1>3
<1>6. \A r \in 1 .. Len(a2) : r \in 1 .. Len(a) \/ r = n
  BY <1>1, <1>2
<1> HIDE DEF n
<1>7. QueueIs(q2, a2)
  <2>1. ASSUME NEW k \in 1 .. Len(q2) PROVE q2[k] \in 1 .. Len(a2) /\ a2[q2[k]].at = "queued"
    <3>1. CASE k \in 1 .. Len(q)
      <4>1. q2[k] = q[k] /\ q[k] \in 1 .. Len(a) /\ a[q[k]].at = "queued"
        BY <1>0, <1>3, <3>1 DEF QueueIs
      <4> QED
        BY <1>2, <4>1
    <3>2. CASE k = Len(q) + 1
      BY <1>2, <1>3, <1>4, <3>2
    <3> QED
      BY <1>5, <3>1, <3>2
  <2>2. ASSUME NEW j \in 1 .. Len(q2), NEW k \in 1 .. Len(q2), j # k PROVE q2[j] # q2[k]
    <3>1. \A l \in 1 .. Len(q) : q2[l] # n
      <4>1. ASSUME NEW l \in 1 .. Len(q) PROVE q[l] \in 1 .. Len(a)
        BY <1>0 DEF QueueIs
      <4> QED
        BY <1>3, <1>4, <4>1
    <3>2. CASE j \in 1 .. Len(q) /\ k \in 1 .. Len(q)
      <4>1. q[j] # q[k]
        BY <1>0, <2>2, <3>2, QueuedOnce
      <4> QED
        BY <1>3, <3>2, <4>1
    <3>3. CASE j = Len(q) + 1 /\ k \in 1 .. Len(q)
      BY <1>3, <3>1, <3>3
    <3>4. CASE j \in 1 .. Len(q) /\ k = Len(q) + 1
      BY <1>3, <3>1, <3>4
    <3> QED
      BY <1>5, <2>2, <3>2, <3>3, <3>4
  <2> QED
    BY <1>3, <2>1, <2>2 DEF QueueIs
<1>8. InfoIs(i, m, a2)
  BY <1>0, <1>2 DEF InfoIs
<1>9. AnswersAre(a2)
  BY <1>0, <1>2, <1>6 DEF AnswersAre
<1>11. LeftIs(f, i, m, a2)
  BY <1>0, <1>2 DEF LeftIs
<1>10. Pool(q2, f, i, m, c, a2)
  BY <1>0, <1>7, <1>8, <1>9, <1>11 DEF Pool
<1> QED
  BY <1>10 DEF q2, a2, n

LEMMA PoolFinished ==
    ASSUME NEW q, NEW f, NEW i, NEW m, NEW c, NEW a, Pool(q, f, i, m, c, a),
           NEW h \in m, \A k \in 1 .. Len(c) : c[k] # h,
           NEW x \in AskedType, x.at = "answered", x.answers = a[i[h]].answers + 1
    PROVE  Pool(q, Append(f, h), [i EXCEPT ![h] = 0], m \ {h}, c, [a EXCEPT ![i[h]] = x])
<1> DEFINE f2 == Append(f, h)
           i2 == [i EXCEPT ![h] = 0]
           m2 == m \ {h}
           r == i[h]
           a2 == [a EXCEPT ![r] = x]
<1>0. /\ QueueIs(q, a) /\ FreeIs(f, m) /\ InfoIs(i, m, a) /\ CompletedIs(c, m) /\ AnswersAre(a)
      /\ LeftIs(f, i, m, a)
  BY DEF Pool
<1>1. h \in Handles /\ r \in 1 .. Len(a) /\ a[r].at = "running" /\ i \in [Handles -> Nat]
  BY <1>0 DEF InfoIs
<1>2. f \in Seq(Handles) /\ Len(f) \in Nat /\ a \in Seq(AskedType)
  BY <1>0 DEF FreeIs, AnswersAre
<1>3. /\ f2 \in Seq(Handles) /\ Len(f2) = Len(f) + 1 /\ f2[Len(f) + 1] = h
      /\ \A k \in 1 .. Len(f) : f2[k] = f[k]
  BY <1>1, <1>2
<1>4. i2 \in [Handles -> Nat] /\ i2[h] = 0 /\ \A g \in Handles \ {h} : i2[g] = i[g]
  BY <1>1
<1> HIDE DEF r
<1>5. /\ a2 \in Seq(AskedType) /\ Len(a2) = Len(a) /\ a2[r] = x
      /\ \A k \in 1 .. Len(a) : k # r => a2[k] = a[k]
  BY <1>1, <1>2
<1> HIDE DEF f2, i2, m2, a2
<1>6. m2 \subseteq m /\ h \notin m2 /\ \A g : g \in m2 <=> g \in m /\ g # h
  BY DEF m2
<1>7. QueueIs(q, a2)
  BY <1>0, <1>1, <1>5 DEF QueueIs
<1>8. FreeIs(f2, m2)
  <2>1. \A k \in 1 .. Len(f2) : k \in 1 .. Len(f) \/ k = Len(f) + 1
    BY <1>2, <1>3
  <2>2. \A k \in 1 .. Len(f2) : f2[k] \notin m2
    BY <1>0, <1>3, <1>6, <2>1 DEF FreeIs
  <2>3. \A j, k \in 1 .. Len(f2) : f2[j] = f2[k] => j = k
    BY <1>0, <1>3, <2>1 DEF FreeIs
  <2> QED
    BY <1>3, <2>2, <2>3 DEF FreeIs
<1>9. InfoIs(i2, m2, a2)
  <2>1. \A g \in m2 : g \in Handles /\ g \in m /\ g # h /\ i2[g] = i[g]
    BY <1>0, <1>4, <1>6 DEF InfoIs
  <2>3. ASSUME NEW g \in m2 PROVE i2[g] \in 1 .. Len(a2) /\ a2[i2[g]].at = "running"
    <3>1. i[g] \in 1 .. Len(a) /\ a[i[g]].at = "running"
      BY <1>0, <2>1 DEF InfoIs
    <3>2. i[g] # r
      BY <1>0, <2>1 DEF InfoIs, r
    <3> QED
      BY <1>5, <2>1, <3>1, <3>2
  <2>4. \A g, k \in m2 : i2[g] = i2[k] => g = k
    BY <1>0, <2>1 DEF InfoIs
  <2> QED
    BY <1>0, <1>4, <1>6, <2>3, <2>4 DEF InfoIs
<1>10. CompletedIs(c, m2)
  BY <1>0, <1>6 DEF CompletedIs
<1>11. AnswersAre(a2)
  <2>1. a[r].answers = 0 /\ x.answers = a[r].answers + 1
    BY <1>0, <1>1 DEF AnswersAre, r
  <2>2. a2[r].answers = 1 /\ a2[r].at = "answered"
    BY <1>5, <2>1
  <2> QED
    BY <1>0, <1>5, <2>2 DEF AnswersAre
<1>13. LeftIs(f2, i2, m2, a2)
  <2>1. \A k \in 1 .. Len(f2) : k \in 1 .. Len(f) \/ k = Len(f) + 1
    BY <1>2, <1>3
  <2>2. \A k \in 1 .. Len(f) : k \in 1 .. Len(f2)
    BY <1>2, <1>3
  <2>3. Len(f) + 1 \in 1 .. Len(f2)
    BY <1>2, <1>3
  <2>4. ASSUME NEW g \in Handles PROVE i2[g] = 0 <=> \E k \in 1 .. Len(f2) : f2[k] = g
    <3>1. CASE g = h
      BY <1>3, <1>4, <2>3, <3>1
    <3>2. CASE g # h
      <4>1. i2[g] = i[g] /\ (i[g] = 0 <=> \E k \in 1 .. Len(f) : f[k] = g)
        BY <1>0, <1>4, <3>2 DEF LeftIs
      <4>2. (\E k \in 1 .. Len(f) : f[k] = g) <=> \E k \in 1 .. Len(f2) : f2[k] = g
        BY <1>3, <2>1, <2>2, <3>2
      <4> QED
        BY <4>1, <4>2
    <3> QED
      BY <3>1, <3>2
  <2>5. ASSUME NEW g \in Handles, g \notin m2, i2[g] # 0
        PROVE  i2[g] \in 1 .. Len(a2) /\ a2[i2[g]].at \in {"dropped", "refused"}
    <3>1. g # h /\ g \notin m /\ i2[g] = i[g]
      BY <1>4, <1>6, <2>5
    <3>2. i[g] \in 1 .. Len(a) /\ a[i[g]].at \in {"dropped", "refused"}
      BY <1>0, <2>5, <3>1 DEF LeftIs
    <3>3. i[g] # r
      BY <1>1, <3>2
    <3> QED
      BY <1>5, <3>1, <3>2, <3>3
  <2> QED
    BY <2>4, <2>5 DEF LeftIs
<1>12. Pool(q, f2, i2, m2, c, a2)
  BY <1>7, <1>8, <1>9, <1>10, <1>11, <1>13 DEF Pool
<1> QED
  BY <1>12 DEF f2, i2, m2, a2, r

LEMMA PoolRefused ==
    ASSUME NEW q, NEW f, NEW i, NEW m, NEW c, NEW a, Pool(q, f, i, m, c, a),
           NEW r \in 1 .. Len(a), a[r].at = "dropped",
           NEW x \in AskedType, x.at = "refused", x.answers = a[r].answers
    PROVE  Pool(q, f, i, m, c, [a EXCEPT ![r] = x])
<1> DEFINE a2 == [a EXCEPT ![r] = x]
<1>0. /\ QueueIs(q, a) /\ FreeIs(f, m) /\ InfoIs(i, m, a) /\ CompletedIs(c, m) /\ AnswersAre(a)
      /\ LeftIs(f, i, m, a)
  BY DEF Pool
<1>1. a \in Seq(AskedType) /\ a[r].answers = 0
  BY <1>0 DEF AnswersAre
<1>2. /\ a2 \in Seq(AskedType) /\ Len(a2) = Len(a) /\ a2[r] = x
      /\ \A k \in 1 .. Len(a) : k # r => a2[k] = a[k]
  BY <1>1
<1> HIDE DEF a2
<1>3. QueueIs(q, a2) /\ InfoIs(i, m, a2)
  <2>1. ASSUME NEW k \in 1 .. Len(q) PROVE q[k] \in 1 .. Len(a2) /\ a2[q[k]].at = "queued"
    <3>1. q[k] \in 1 .. Len(a) /\ a[q[k]].at = "queued"
      BY <1>0 DEF QueueIs
    <3>2. q[k] # r
      BY <3>1
    <3> QED
      BY <1>2, <3>1, <3>2
  <2>2. ASSUME NEW h \in m PROVE i[h] \in 1 .. Len(a2) /\ a2[i[h]].at = "running"
    <3>1. i[h] \in 1 .. Len(a) /\ a[i[h]].at = "running"
      BY <1>0, <2>2 DEF InfoIs
    <3>2. i[h] # r
      BY <3>1
    <3> QED
      BY <1>2, <3>1, <3>2
  <2>3. QueueIs(q, a2)
    BY <1>0, <2>1 DEF QueueIs
  <2>4. InfoIs(i, m, a2)
    BY <1>0, <2>2 DEF InfoIs
  <2> QED
    BY <2>3, <2>4
<1>4. AnswersAre(a2)
  BY <1>0, <1>1, <1>2 DEF AnswersAre
<1>6. LeftIs(f, i, m, a2)
  BY <1>0, <1>2 DEF LeftIs
<1>5. Pool(q, f, i, m, c, a2)
  BY <1>0, <1>3, <1>4, <1>6 DEF Pool
<1> QED
  BY <1>5 DEF a2

-----------------------------------------------------------------------------
\* The state of the client, as a record of all its fields.
ClientRecord(s) ==
    /\ s = [curl |-> s.curl, asked |-> s.asked]
    /\ s.curl = [queue |-> s.curl.queue, free |-> s.curl.free, info |-> s.curl.info,
                 multi |-> s.curl.multi, timer |-> s.curl.timer,
                 completed |-> s.curl.completed, raised |-> s.curl.raised]
Client(s) ==
    /\ ClientRecord(s)
    /\ Pool(s.curl.queue, s.curl.free, s.curl.info, s.curl.multi, s.curl.completed, s.asked)
\* No request waits while a handle is free.
Serves(s) == s.curl.queue # <<>> => s.curl.free = <<>> \/ s.curl.raised

\* As many requests are taken as there are, or as there are handles for, or up to the
\* first whose setup raises.
LEMMA TakesAre ==
    ASSUME NEW s, s.curl.queue \in Seq(Nat), s.curl.free \in Seq(Handles)
    PROVE  LET n == Curl!Takes(s)
               q == s.curl.queue
           IN  /\ n \in 0 .. Len(q) /\ n <= Len(s.curl.free)
               /\ n = Len(q) \/ n = Len(s.curl.free) \/ \E k \in 1 .. n : ~s.asked[q[k]].valid
<1> DEFINE q == s.curl.queue
           f == s.curl.free
           Fit(n) == Curl!Fits(s, n)
           L == Len(q)
           fits == {j \in 1 .. L + 1 : Fit(j - 1)}
           Best(n) == Fit(n) /\ \A k \in 0 .. L : Fit(k) => k <= n
           t == Curl!Takes(s)
<1>1. L \in Nat /\ Len(f) \in Nat
  OBVIOUS
<1>2. \A n : Fit(n) <=> n <= Len(f) /\ \A k \in 1 .. n - 1 : s.asked[q[k]].valid
  BY DEF Curl!Fits
<1>3. t = CHOOSE n \in 0 .. L : Best(n)
  BY DEF Curl!Takes
<1> HIDE DEF Fit, t, L, f, q
<1>4. Fit(0)
  BY <1>1, <1>2
<1>5. 1 \in fits /\ fits \in SUBSET (1 .. L + 1)
  BY <1>1, <1>4
<1>6. PICK j \in fits : \A k \in fits : j >= k
  <2> DEFINE N == L + 1
  <2>1. N \in Nat /\ fits \in SUBSET (1 .. N)
    BY <1>1, <1>5
  <2>2. fits # {}
    BY <1>5
  <2> HIDE DEF N, fits
  <2> QED
    BY <2>1, <2>2, HighestExists
<1>7. j \in 1 .. L + 1 /\ Fit(j - 1)
  BY <1>6
<1>8. j - 1 \in 0 .. L /\ Best(j - 1)
  <2>1. ASSUME NEW k \in 0 .. L, Fit(k) PROVE k <= j - 1
    <3>1. k + 1 \in 1 .. L + 1 /\ (k + 1) - 1 = k
      BY <1>1
    <3>2. k + 1 \in fits
      BY <2>1, <3>1
    <3>3. j >= k + 1
      BY <1>6, <3>2
    <3> QED
      BY <1>1, <1>7, <3>3
  <2>2. j - 1 \in 0 .. L
    BY <1>1, <1>7
  <2> QED
    BY <1>7, <2>1, <2>2
<1>9. t \in 0 .. L /\ Best(t)
  BY <1>3, <1>8
<1>10. t <= Len(f)
  BY <1>2, <1>9
<1>11. ASSUME t # L, t # Len(f), \A k \in 1 .. t : s.asked[q[k]].valid PROVE FALSE
  <2>1. t + 1 \in 0 .. L /\ t + 1 <= Len(f) /\ (t + 1) - 1 = t
    BY <1>1, <1>9, <1>10, <1>11
  <2>2. Fit(t + 1)
    BY <1>2, <1>11, <2>1
  <2>3. t + 1 <= t
    BY <1>9, <2>1, <2>2
  <2> QED
    BY <1>1, <1>9, <2>3
<1> QED
  BY <1>9, <1>10, <1>11 DEF t, L, f, q

Processed(s, Q, F, I, M, X, A) ==
    [[s EXCEPT !.curl.queue = Q, !.curl.free = F] EXCEPT
        !.curl.info = I, !.curl.multi = M, !.curl.raised = X, !.asked = A]

LEMMA ProcessedIs ==
    ASSUME NEW s, ClientRecord(s), NEW Q, NEW F, NEW I, NEW M, NEW X, NEW A
    PROVE  Processed(s, Q, F, I, M, X, A)
           = [curl |-> [queue |-> Q, free |-> F, info |-> I, multi |-> M,
                        timer |-> s.curl.timer, completed |-> s.curl.completed, raised |-> X],
              asked |-> A]
<1> DEFINE c == s.curl
           a == s.asked
           Fields(q, f, i, m, x) ==
               [queue |-> q, free |-> f, info |-> i, multi |-> m,
                timer |-> c.timer, completed |-> c.completed, raised |-> x]
           c0 == Fields(c.queue, c.free, c.info, c.multi, c.raised)
           c1 == Fields(Q, c.free, c.info, c.multi, c.raised)
           c2 == Fields(Q, F, c.info, c.multi, c.raised)
           c3 == Fields(Q, F, I, c.multi, c.raised)
           c4 == Fields(Q, F, I, M, c.raised)
           c5 == Fields(Q, F, I, M, X)
           t1 == [s EXCEPT !.curl.queue = Q]
           t2 == [t1 EXCEPT !.curl.free = F]
           t3 == [t2 EXCEPT !.curl.info = I]
           t4 == [t3 EXCEPT !.curl.multi = M]
           t5 == [t4 EXCEPT !.curl.raised = X]
<1>0. s = [curl |-> c0, asked |-> a]
  BY DEF ClientRecord
<1>1. [c0 EXCEPT !.queue = Q] = c1
  OBVIOUS
<1>2. [c1 EXCEPT !.free = F] = c2
  OBVIOUS
<1>3. [c2 EXCEPT !.info = I] = c3
  OBVIOUS
<1>4. [c3 EXCEPT !.multi = M] = c4
  OBVIOUS
<1>5. [c4 EXCEPT !.raised = X] = c5
  OBVIOUS
<1> HIDE DEF a, c0, c1, c2, c3, c4, c5
<1>6. t1 = [curl |-> c1, asked |-> a]
  BY <1>0, <1>1
<1> HIDE DEF t1
<1>7. t2 = [curl |-> c2, asked |-> a]
  BY <1>6, <1>2
<1> HIDE DEF t2
<1>8. t3 = [curl |-> c3, asked |-> a]
  BY <1>7, <1>3
<1> HIDE DEF t3
<1>9. t4 = [curl |-> c4, asked |-> a]
  BY <1>8, <1>4
<1> HIDE DEF t4
<1>10. t5 = [curl |-> c5, asked |-> a]
  BY <1>9, <1>5
<1> HIDE DEF t5
<1>11. [t5 EXCEPT !.asked = A] = [curl |-> c5, asked |-> A]
  BY <1>10
<1>12. Processed(s, Q, F, I, M, X, A) = [t5 EXCEPT !.asked = A]
  BY DEF Processed, t1, t2, t3, t4, t5
<1> QED
  BY <1>11, <1>12 DEF c5

\* The queue is processed: the pool stays sound, and no request waits for a free handle.
LEMMA QueueProcessed ==
    ASSUME NEW s, Client(s)
    PROVE  LET p == Curl!ProcessQueue(s)
           IN  /\ Client(p) /\ Serves(p) /\ p.curl.completed = s.curl.completed
               /\ Len(p.asked) = Len(s.asked)
<1> DEFINE q == s.curl.queue
           f == s.curl.free
           i == s.curl.info
           m == s.curl.multi
           a == s.asked
           n == Curl!Takes(s)
           good == {k \in 1 .. n : a[q[k]].valid}
           Place(h) == {k \in 1 .. n : Curl!Handle(s, k) = h}
           q2 == SubSeq(q, n + 1, Len(q))
           f2 == SubSeq(f, 1, Len(f) - n)
           i2 == [h \in Handles |-> IF Place(h) # {} THEN q[CHOOSE k \in Place(h) : TRUE]
                                    ELSE i[h]]
           m2 == m \cup {Curl!Handle(s, k) : k \in good}
           x2 == good # 1 .. n
           a2 == [r \in DOMAIN a |-> IF \E k \in 1 .. n : q[k] = r THEN Curl!Started(a[r])
                                     ELSE a[r]]
           p == Curl!ProcessQueue(s)
<1>0. /\ ClientRecord(s) /\ Pool(q, f, i, m, s.curl.completed, a)
      /\ QueueIs(q, a) /\ FreeIs(f, m) /\ InfoIs(i, m, a) /\ AnswersAre(a)
  BY DEF Client, Pool
<1>1. q \in Seq(Nat) /\ f \in Seq(Handles) /\ a \in Seq(AskedType) /\ Len(q) \in Nat
      /\ Len(f) \in Nat /\ i \in [Handles -> Nat]
  BY <1>0 DEF QueueIs, FreeIs, AnswersAre, InfoIs
<1>2. /\ n \in 0 .. Len(q) /\ n <= Len(f)
      /\ n = Len(q) \/ n = Len(f) \/ \E k \in 1 .. n : ~a[q[k]].valid
  BY <1>1, TakesAre
<1>3. p = Processed(s, q2, f2, i2, m2, x2, a2)
  BY DEF Processed, Curl!ProcessQueue, Curl!Popped
<1>4. \A k : Curl!Handle(s, k) = f[Len(f) + 1 - k]
  BY DEF Curl!Handle
<1> HIDE DEF q, f, i, m, a, n, p
<1>5. \A k : k \in good <=> k \in 1 .. n /\ a[q[k]].valid
  OBVIOUS
<1>6. /\ q2 \in Seq(Nat) /\ Len(q2) = Len(q) - n
      /\ \A k \in 1 .. Len(q2) : q2[k] = q[n + k]
  <2> DEFINE from == n + 1
             L == Len(q)
  <2>1. from \in Int /\ L \in Int /\ from >= 1 /\ n \in Int /\ from <= L + 1
    BY <1>1, <1>2
  <2>2. \A k \in from .. L : q[k] \in Nat
    BY <1>1, <2>1
  <2>3. q2 = SubSeq(q, from, L)
    OBVIOUS
  <2> HIDE DEF from, L, q2
  <2>4. /\ q2 \in Seq(Nat) /\ Len(q2) = (IF from <= L THEN L - from + 1 ELSE 0)
        /\ \A k \in 1 .. L - from + 1 : q2[k] = q[from + k - 1]
    BY <2>1, <2>2, <2>3, SubSeqProperties
  <2>5. Len(q2) = L - from + 1 /\ L - from + 1 = L - n
    BY <2>1, <2>4 DEF from
  <2>6. ASSUME NEW k \in 1 .. Len(q2) PROVE q2[k] = q[n + k]
    <3>1. from + k - 1 = n + k
      BY <2>1 DEF from
    <3> QED
      BY <2>4, <2>5, <3>1
  <2> QED
    BY <2>4, <2>5, <2>6 DEF L
<1>7. /\ f2 \in Seq(Handles) /\ Len(f2) = Len(f) - n
      /\ \A k \in 1 .. Len(f2) : f2[k] = f[k]
  <2> DEFINE L == Len(f) - n
  <2>1. L \in Nat /\ L <= Len(f) /\ \A k \in 1 .. L : f[k] \in Handles
    BY <1>1, <1>2
  <2> HIDE DEF L
  <2>2. f2 = [k \in 1 .. L |-> f[k]]
    BY <1>1, <2>1 DEF L
  <2> HIDE DEF f2
  <2> QED
    BY <2>1, <2>2 DEF L
<1>70. good \subseteq 1 .. n
  OBVIOUS
<1>71. n \in 0 .. Len(q) /\ n <= Len(f) /\ Len(q) \in Nat /\ Len(f) \in Nat
  BY <1>1, <1>2
<1>72. \A k \in 1 .. Len(q) : q[k] \in Nat
  BY <1>1
<1> HIDE DEF good, q2, f2
<1>8. ASSUME NEW k \in 1 .. n
      PROVE  k \in 1 .. Len(q) /\ Len(f) + 1 - k \in 1 .. Len(f) /\ q[k] \in Nat
  <2>2. k \in 1 .. Len(q) /\ Len(f) + 1 - k \in 1 .. Len(f)
    BY ONLY <1>71, k \in 1 .. n
  <2> QED
    BY <1>72, <2>2
<1>9. \A h : Place(h) = {k \in 1 .. n : f[Len(f) + 1 - k] = h}
  BY <1>4
<1>10. i2 \in [Handles -> Nat]
  BY <1>1, <1>8
<1>11. ASSUME NEW k \in 1 .. n PROVE i2[f[Len(f) + 1 - k]] = q[k]
  <2> DEFINE h == f[Len(f) + 1 - k]
             j == CHOOSE l \in Place(h) : TRUE
  <2>1. h \in Handles
    BY <1>1, <1>8
  <2>2. k \in Place(h)
    BY <1>9
  <2>3. j \in 1 .. n /\ f[Len(f) + 1 - j] = h
    BY <1>9, <2>2
  <2>4. i2[h] = q[j]
    BY <2>1, <2>2
  <2> HIDE DEF j, h, i2, Place
  <2>5. Len(f) + 1 - j = Len(f) + 1 - k
    BY <1>0, <1>8, <2>3 DEF FreeIs, h
  <2>6. j \in Int /\ k \in Int
    BY <1>8, <2>3
  <2>7. j = k
    BY <1>1, <2>5, <2>6
  <2> QED
    BY <2>4, <2>7 DEF h
<1>12. \A h \in Handles : (\A k \in 1 .. n : f[Len(f) + 1 - k] # h) => i2[h] = i[h]
  BY <1>9
<1>13. \A h : h \in m2 <=> h \in m \/ \E k \in good : f[Len(f) + 1 - k] = h
  BY <1>4
<1> HIDE DEF i2, m2, Place
<1>14. ASSUME NEW r \in 1 .. Len(a)
       PROVE  /\ Curl!Started(a[r]) \in AskedType /\ a[r] \in AskedType
              /\ Curl!Started(a[r]).at = (IF a[r].valid THEN "running" ELSE "dropped")
              /\ Curl!Started(a[r]).valid = a[r].valid
              /\ Curl!Started(a[r]).answers = a[r].answers
  <2>1. a[r] \in AskedType
    BY <1>1
  <2> QED
    BY <2>1 DEF Curl!Started, AskedType
<1>15. DOMAIN a = 1 .. Len(a) /\ Len(a) \in Nat
  BY <1>1
<1>16. /\ a2 \in Seq(AskedType) /\ Len(a2) = Len(a)
       /\ \A r \in 1 .. Len(a) : a2[r] = (IF \E k \in 1 .. n : q[k] = r THEN Curl!Started(a[r])
                                          ELSE a[r])
  BY <1>14, <1>15
<1> HIDE DEF a2
<1>17. \A k \in 1 .. n : q[k] \in 1 .. Len(a)
  BY <1>0, <1>1, <1>2 DEF QueueIs
<1>18. \A r \in 1 .. Len(a) : a2[r].valid = a[r].valid /\ a2[r].answers = a[r].answers
  BY <1>14, <1>16
<1>19. \A k \in 1 .. n : a2[q[k]].at = (IF a[q[k]].valid THEN "running" ELSE "dropped")
  BY <1>14, <1>16, <1>17
<1>20. \A r \in 1 .. Len(a) : (\A k \in 1 .. n : q[k] # r) => a2[r].at = a[r].at
  BY <1>16
<1>21. Pool(q2, f2, i2, m2, s.curl.completed, a2)
  <2>1. TakenBy(q, f, i, m, a, n, good, q2, f2, i2, m2, a2)
    BY <1>2, <1>5, <1>6, <1>7, <1>10, <1>11, <1>12, <1>13, <1>16, <1>18, <1>19, <1>20 DEF TakenBy
  <2> QED
    BY <1>0, <2>1, PoolTaken
<1> HIDE DEF x2
<1>22. p = [curl |-> [queue |-> q2, free |-> f2, info |-> i2, multi |-> m2,
                      timer |-> s.curl.timer, completed |-> s.curl.completed, raised |-> x2],
            asked |-> a2]
  BY <1>0, <1>3, ProcessedIs
<1>23. /\ p.curl.queue = q2 /\ p.curl.free = f2 /\ p.curl.info = i2 /\ p.curl.multi = m2
       /\ p.curl.timer = s.curl.timer /\ p.curl.completed = s.curl.completed /\ p.asked = a2
  BY <1>22
<1>24. p.curl.raised = x2
  BY <1>22
<1>25. ClientRecord(p)
  BY <1>22 DEF ClientRecord
<1>26. Client(p)
  BY <1>21, <1>23, <1>25 DEF Client
<1>27. Serves(p)
  <2>1. ASSUME q2 # <<>>, f2 # <<>> PROVE x2
    <3>1. Len(q2) # 0 /\ Len(f2) # 0
      BY <1>6, <1>7, <2>1
    <3>2. n # Len(q) /\ n # Len(f)
      BY <1>1, <1>2, <1>6, <1>7, <3>1
    <3> QED
      BY <1>2, <1>5, <3>2 DEF x2
  <2> QED
    BY <1>23, <1>24, <2>1 DEF Serves
<1> QED
  BY <1>16, <1>23, <1>26, <1>27 DEF p, a

\* The first record is s with other requests, the second one with another queue.
WithRequest(s, x) ==
    [s EXCEPT !.asked = Append(@, x), !.curl.queue = Append(@, Len(s.asked) + 1)]

LEMMA RequestAdded ==
    ASSUME NEW s, Client(s), NEW x \in AskedType, x.at = "queued", x.answers = 0
    PROVE  LET t == WithRequest(s, x)
           IN  /\ Client(t) /\ t.curl.completed = s.curl.completed
               /\ Len(t.asked) = Len(s.asked) + 1
<1> DEFINE c == s.curl
           a == s.asked
           Q == Append(c.queue, Len(a) + 1)
           A == Append(a, x)
           c1 == [queue |-> Q, free |-> c.free, info |-> c.info, multi |-> c.multi,
                  timer |-> c.timer, completed |-> c.completed, raised |-> c.raised]
           s1 == [s EXCEPT !.asked = A]
           t == [s1 EXCEPT !.curl.queue = Q]
<1>1. /\ s = [curl |-> c, asked |-> a]
      /\ Pool(c.queue, c.free, c.info, c.multi, c.completed, a)
  BY DEF Client, ClientRecord
<1>2. Pool(Q, c.free, c.info, c.multi, c.completed, A)
  BY <1>1, PoolQueued
<1>3. a \in Seq(AskedType) /\ Len(A) = Len(a) + 1
  BY <1>1 DEF Pool, AnswersAre
<1>4. [c EXCEPT !.queue = Q] = c1
  <2>1. c = [queue |-> c.queue, free |-> c.free, info |-> c.info, multi |-> c.multi,
             timer |-> c.timer, completed |-> c.completed, raised |-> c.raised]
    BY DEF Client, ClientRecord
  <2> HIDE DEF Q
  <2> QED
    BY <2>1
<1>5. /\ c1.queue = Q /\ c1.free = c.free /\ c1.info = c.info /\ c1.multi = c.multi
      /\ c1.completed = c.completed
  OBVIOUS
<1>6. c1 = [queue |-> c1.queue, free |-> c1.free, info |-> c1.info, multi |-> c1.multi,
            timer |-> c1.timer, completed |-> c1.completed, raised |-> c1.raised]
  OBVIOUS
<1> HIDE DEF A, Q, c, a, c1
<1>7. s1 = [curl |-> c, asked |-> A]
  BY <1>1
<1> HIDE DEF s1
<1>8. t = [curl |-> c1, asked |-> A]
  BY <1>4, <1>7
<1> HIDE DEF t
<1>9. Client(t) /\ t.curl.completed = c.completed /\ Len(t.asked) = Len(a) + 1
  BY <1>2, <1>3, <1>5, <1>6, <1>8 DEF Client, ClientRecord
<1>10. t = WithRequest(s, x)
  BY DEF WithRequest, t, s1, A, Q, a, c
<1> QED
  BY <1>9, <1>10 DEF c, a

WithTimer(s, x) == [s EXCEPT !.curl.timer = x]
LEMMA TimerSet ==
    ASSUME NEW s, Client(s), NEW x
    PROVE  LET t == WithTimer(s, x)
           IN  Client(t) /\ (Serves(s) => Serves(t)) /\ t.curl.completed = s.curl.completed
<1> DEFINE c == s.curl
           a == s.asked
           c1 == [queue |-> c.queue, free |-> c.free, info |-> c.info, multi |-> c.multi,
                  timer |-> x, completed |-> c.completed, raised |-> c.raised]
           t == WithTimer(s, x)
<1>1. /\ s = [curl |-> c, asked |-> a]
      /\ Pool(c.queue, c.free, c.info, c.multi, c.completed, a)
  BY DEF Client, ClientRecord
<1>2. [c EXCEPT !.timer = x] = c1
  <2>1. c = [queue |-> c.queue, free |-> c.free, info |-> c.info, multi |-> c.multi,
             timer |-> c.timer, completed |-> c.completed, raised |-> c.raised]
    BY DEF Client, ClientRecord
  <2> QED
    BY <2>1
<1>3. /\ c1.queue = c.queue /\ c1.free = c.free /\ c1.info = c.info /\ c1.multi = c.multi
      /\ c1.completed = c.completed /\ c1.raised = c.raised
  OBVIOUS
<1>4. c1 = [queue |-> c1.queue, free |-> c1.free, info |-> c1.info, multi |-> c1.multi,
            timer |-> c1.timer, completed |-> c1.completed, raised |-> c1.raised]
  OBVIOUS
<1>5. Serves(s) => (c.queue # <<>> => c.free = <<>> \/ c.raised)
  BY DEF Serves
<1> HIDE DEF c, a, c1
<1>6. t = [curl |-> c1, asked |-> a]
  BY <1>1, <1>2 DEF WithTimer
<1> HIDE DEF t
<1>7. Client(t) /\ (Serves(s) => Serves(t)) /\ t.curl.completed = c.completed
  BY <1>1, <1>3, <1>4, <1>5, <1>6 DEF Client, ClientRecord, Serves
<1> QED
  BY <1>7 DEF t, c

Refused(s, r) == [s EXCEPT !.asked[r].at = "refused"]
LEMMA RequestRefused ==
    ASSUME NEW s, Client(s), Serves(s), NEW r \in 1 .. Len(s.asked), s.asked[r].at = "dropped"
    PROVE  LET t == Refused(s, r)
           IN  Client(t) /\ Serves(t) /\ t.curl.completed = s.curl.completed
<1> DEFINE c == s.curl
           a == s.asked
           x == [a[r] EXCEPT !.at = "refused"]
           A == [a EXCEPT ![r] = x]
           t == Refused(s, r)
<1>1. /\ s = [curl |-> c, asked |-> a] /\ c = s.curl
      /\ Pool(c.queue, c.free, c.info, c.multi, c.completed, a)
  BY DEF Client, ClientRecord
<1>2. a[r] \in AskedType
  BY <1>1 DEF Pool, AnswersAre
<1>3. x \in AskedType /\ x.at = "refused" /\ x.answers = a[r].answers
  BY <1>2 DEF AskedType
<1>4. Pool(c.queue, c.free, c.info, c.multi, c.completed, A)
  BY <1>1, <1>3, PoolRefused
<1>5. /\ c = [queue |-> c.queue, free |-> c.free, info |-> c.info, multi |-> c.multi,
              timer |-> c.timer, completed |-> c.completed, raised |-> c.raised]
      /\ c.queue # <<>> => c.free = <<>> \/ c.raised
  BY DEF Client, ClientRecord, Serves
<1>6. t = [s EXCEPT !.asked = A]
  BY DEF Refused
<1> HIDE DEF c, a, A, t
<1>7. t = [curl |-> c, asked |-> A]
  BY <1>1, <1>6
<1>8. Client(t) /\ Serves(t) /\ t.curl.completed = c.completed
  BY <1>4, <1>5, <1>7 DEF Client, ClientRecord, Serves
<1> QED
  BY <1>8 DEF t, c

LEMMA FetchKeeps ==
    ASSUME NEW s, Client(s), NEW valid \in BOOLEAN
    PROVE  LET t == Curl!Fetch(s, valid)
           IN  Client(t) /\ Serves(t) /\ t.curl.completed = s.curl.completed
<1> DEFINE r == Len(s.asked) + 1
           x == [valid |-> valid, at |-> "queued", answers |-> 0]
           u == WithRequest(s, x)
           t == Curl!ProcessQueue(u)
           yes == TRUE
<1>1. Len(s.asked) \in Nat
  BY DEF Client, Pool, AnswersAre
<1>2. x \in AskedType /\ x.at = "queued" /\ x.answers = 0
  BY DEF AskedType
<1>3. Curl!Fetch(s, valid) = IF ~t.curl.raised THEN WithTimer(t, yes)
                             ELSE IF t.asked[r].at = "dropped" THEN Refused(t, r) ELSE t
  BY DEF Curl!Fetch, WithTimer, Refused, WithRequest
<1> HIDE DEF x, yes
<1>4. Client(u) /\ u.curl.completed = s.curl.completed /\ Len(u.asked) = r
  BY <1>2, RequestAdded
<1> HIDE DEF u
<1>5. Client(t) /\ Serves(t) /\ t.curl.completed = s.curl.completed /\ Len(t.asked) = r
  BY <1>4, QueueProcessed
<1>6. r \in 1 .. Len(t.asked)
  BY <1>1, <1>5
<1> HIDE DEF t, r
<1>7. CASE ~t.curl.raised
  <2>1. Curl!Fetch(s, valid) = WithTimer(t, yes)
    BY <1>3, <1>7
  <2> QED
    BY <1>5, <2>1, TimerSet
<1>8. CASE t.curl.raised /\ t.asked[r].at = "dropped"
  <2>1. Curl!Fetch(s, valid) = Refused(t, r)
    BY <1>3, <1>8
  <2> QED
    BY <1>5, <1>6, <1>8, <2>1, RequestRefused
<1>9. CASE t.curl.raised /\ t.asked[r].at # "dropped"
  BY <1>3, <1>5, <1>9
<1> QED
  BY <1>7, <1>8, <1>9

\* A handle that libcurl has done with is free again before the callback runs.
LEMMA HandleFinished ==
    ASSUME NEW s, Client(s), NEW h \in s.curl.multi, NEW reaction,
           \A k \in 1 .. Len(s.curl.completed) : s.curl.completed[k] # h
    PROVE  LET t == Curl!Finish(s, h, reaction)
           IN  Client(t) /\ t.curl.completed = s.curl.completed
<1> DEFINE c == s.curl
           a == s.asked
           r == c.info[h]
           x == [[a[r] EXCEPT !.at = "answered"] EXCEPT !.answers = a[r].answers + 1]
           I == [c.info EXCEPT ![h] = 0]
           F == Append(c.free, h)
           M == c.multi \ {h}
           y == [a[r] EXCEPT !.at = "answered"]
           B == [a EXCEPT ![r] = y]
           A == [a EXCEPT ![r] = x]
           c0 == [queue |-> c.queue, free |-> c.free, info |-> c.info, multi |-> c.multi,
                  timer |-> c.timer, completed |-> c.completed, raised |-> c.raised]
           c1 == [queue |-> c.queue, free |-> c.free, info |-> I, multi |-> c.multi,
                  timer |-> c.timer, completed |-> c.completed, raised |-> c.raised]
           c2 == [queue |-> c.queue, free |-> F, info |-> I, multi |-> c.multi,
                  timer |-> c.timer, completed |-> c.completed, raised |-> c.raised]
           c3 == [queue |-> c.queue, free |-> F, info |-> I, multi |-> M,
                  timer |-> c.timer, completed |-> c.completed, raised |-> c.raised]
           t1 == [s EXCEPT !.curl.info = I]
           t2 == [t1 EXCEPT !.curl.free = F]
           t3 == [t2 EXCEPT !.curl.multi = M]
           t4 == [t3 EXCEPT !.asked = B]
           t == [t4 EXCEPT !.asked = A]
           full == [s EXCEPT !.curl.info[h] = Curl!Nothing, !.curl.free = Append(@, h),
                             !.curl.multi = @ \ {h},
                             !.asked[r].at = "answered", !.asked[r].answers = @ + 1]
<1>1. /\ s = [curl |-> c0, asked |-> a] /\ c = c0
      /\ Pool(c.queue, c.free, c.info, c.multi, c.completed, a)
  BY DEF Client, ClientRecord
<1>2. a \in Seq(AskedType) /\ r \in 1 .. Len(a) /\ a[r] \in AskedType
  BY <1>1 DEF Pool, AnswersAre, InfoIs
<1>3. x \in AskedType /\ x.at = "answered" /\ x.answers = a[r].answers + 1
      /\ y.answers = a[r].answers
  <2> DEFINE e == a[r]
             n == e.answers + 1
  <2>1. e \in AskedType /\ n \in Nat
    BY <1>2 DEF AskedType
  <2> HIDE DEF e, n
  <2>2. [e EXCEPT !.at = "answered"] \in AskedType
    BY <2>1 DEF AskedType
  <2>3. [e EXCEPT !.at = "answered"].answers = e.answers
    BY <2>1 DEF AskedType
  <2>4. [e EXCEPT !.at = "answered"].at = "answered"
    BY <2>1 DEF AskedType
  <2> DEFINE z == [e EXCEPT !.at = "answered"]
  <2> HIDE DEF z
  <2>5. [z EXCEPT !.answers = n] \in AskedType /\ [z EXCEPT !.answers = n].answers = n
        /\ [z EXCEPT !.answers = n].at = z.at
    BY <2>1, <2>2 DEF AskedType, z
  <2> QED
    BY <2>3, <2>4, <2>5 DEF z, e, n
<1>4. Pool(c.queue, F, I, M, c.completed, A)
  BY <1>1, <1>3, PoolFinished
<1>8. B[r] = y /\ [B EXCEPT ![r] = x] = A
  <2> HIDE DEF x, y, r
  <2> QED
    BY <1>2 DEF B, A
<1> HIDE DEF I, F, M
<1>5. [c0 EXCEPT !.info = I] = c1
  OBVIOUS
<1>6. [c1 EXCEPT !.free = F] = c2
  OBVIOUS
<1>7. [c2 EXCEPT !.multi = M] = c3
  OBVIOUS
<1>9. /\ c3.queue = c.queue /\ c3.free = F /\ c3.info = I /\ c3.multi = M
      /\ c3.completed = c.completed
      /\ c3 = [queue |-> c3.queue, free |-> c3.free, info |-> c3.info, multi |-> c3.multi,
               timer |-> c3.timer, completed |-> c3.completed, raised |-> c3.raised]
  OBVIOUS
<1> HIDE DEF c, a, c0, c1, c2, c3, A, B, x, y
<1>10. t1 = [curl |-> c1, asked |-> a]
  BY <1>1, <1>5
<1> HIDE DEF t1
<1>11. t2 = [curl |-> c2, asked |-> a]
  BY <1>6, <1>10
<1> HIDE DEF t2
<1>12. t3 = [curl |-> c3, asked |-> a]
  BY <1>7, <1>11
<1> HIDE DEF t3
<1>13. t4 = [curl |-> c3, asked |-> B]
  BY <1>12
<1> HIDE DEF t4
<1>14. t = [curl |-> c3, asked |-> A]
  BY <1>13
<1> HIDE DEF t
<1>15. Client(t) /\ t.curl.completed = c.completed
  BY <1>4, <1>9, <1>14 DEF Client, ClientRecord
<1> DEFINE U1(z) == [z EXCEPT !.curl.info[h] = Curl!Nothing]
           U2(z) == [z EXCEPT !.curl.free = Append(s.curl.free, h)]
           U3(z) == [z EXCEPT !.curl.multi = s.curl.multi \ {h}]
           U4(z) == [z EXCEPT !.asked[r].at = "answered"]
           U5(z) == [z EXCEPT !.asked[r].answers = s.asked[r].answers + 1]
<1>16. full = t
  <2>1. t1 = U1(s)
    BY DEF t1, I, c, Curl!Nothing
  <2>2. t2 = U2(t1)
    BY DEF t2, F, c
  <2>3. t3 = U3(t2)
    BY DEF t3, M, c
  <2>4. t4 = U4(t3)
    BY <1>12 DEF t4, B, y
  <2>5. t = U5(t4)
    <3>1. t4.asked = B /\ B[r] = y /\ A = [B EXCEPT ![r] = x]
      BY <1>8, <1>13
    <3>2. x = [y EXCEPT !.answers = s.asked[r].answers + 1]
      BY DEF x, y, a
    <3> QED
      BY <3>1, <3>2 DEF t
  <2>6. full = U5(U4(U3(U2(U1(s)))))
    OBVIOUS
  <2> HIDE DEF full, U1, U2, U3, U4, U5
  <2> QED
    BY <2>1, <2>2, <2>3, <2>4, <2>5, <2>6
<1>17. Client(full) /\ full.curl.completed = s.curl.completed
  BY <1>15, <1>16 DEF c
<1>18. \/ Curl!Finish(s, h, reaction) = full
       \/ Curl!Finish(s, h, reaction) = Curl!Fetch(full, reaction = "fetch")
  BY DEF Curl!Finish, r, c
<1> DEFINE valid == reaction = "fetch"
<1>19. valid \in BOOLEAN
  OBVIOUS
<1> HIDE DEF full, valid
<1>20. Client(Curl!Fetch(full, valid)) /\ Curl!Fetch(full, valid).curl.completed = s.curl.completed
  BY <1>17, <1>19, FetchKeeps
<1> QED
  BY <1>17, <1>18, <1>20 DEF valid

-----------------------------------------------------------------------------
State == [curl |-> curl, asked |-> asked]
CurlInv == Client(State) /\ (curl.completed = <<>> => Serves(State))

LEMMA StateIs == State.curl = curl /\ State.asked = asked /\ Curl!State = State
BY DEF State, Curl!State

LEMMA CurlBecomes ==
    ASSUME NEW s, Client(s), s.curl.completed = <<>> => Serves(s), Curl!Becomes(s)
    PROVE  CurlInv'
<1>1. State' = [curl |-> s.curl, asked |-> s.asked] /\ curl' = s.curl
  BY DEF Curl!Becomes, State
<1>2. State' = s
  BY <1>1 DEF Client, ClientRecord
<1> QED
  BY <1>1, <1>2 DEF CurlInv

\* The completed handles are reported, or those that are left.
WithCompleted(s, x) == [s EXCEPT !.curl.completed = x]
LEMMA CompletedSet ==
    ASSUME NEW s, Client(s), NEW x, CompletedIs(x, s.curl.multi)
    PROVE  LET t == WithCompleted(s, x)
           IN  /\ Client(t) /\ t.curl.completed = x /\ t.curl.multi = s.curl.multi
               /\ Serves(s) => Serves(t)
<1> DEFINE c == s.curl
           a == s.asked
           c1 == [queue |-> c.queue, free |-> c.free, info |-> c.info, multi |-> c.multi,
                  timer |-> c.timer, completed |-> x, raised |-> c.raised]
           t == WithCompleted(s, x)
<1>1. /\ s = [curl |-> c, asked |-> a]
      /\ Pool(c.queue, c.free, c.info, c.multi, x, a)
  BY DEF Client, ClientRecord, Pool
<1>2. [c EXCEPT !.completed = x] = c1
  <2>1. c = [queue |-> c.queue, free |-> c.free, info |-> c.info, multi |-> c.multi,
             timer |-> c.timer, completed |-> c.completed, raised |-> c.raised]
    BY DEF Client, ClientRecord
  <2> QED
    BY <2>1
<1>3. /\ c1.queue = c.queue /\ c1.free = c.free /\ c1.info = c.info /\ c1.multi = c.multi
      /\ c1.completed = x /\ c1.raised = c.raised
  OBVIOUS
<1>4. c1 = [queue |-> c1.queue, free |-> c1.free, info |-> c1.info, multi |-> c1.multi,
            timer |-> c1.timer, completed |-> c1.completed, raised |-> c1.raised]
  OBVIOUS
<1>5. Serves(s) => (c.queue # <<>> => c.free = <<>> \/ c.raised)
  BY DEF Serves
<1> HIDE DEF c, a, c1
<1>6. t = [curl |-> c1, asked |-> a]
  BY <1>1, <1>2 DEF WithCompleted
<1> HIDE DEF t
<1>7. /\ Client(t) /\ t.curl.completed = x /\ t.curl.multi = c.multi
      /\ Serves(s) => Serves(t)
  BY <1>1, <1>3, <1>4, <1>5, <1>6 DEF Client, ClientRecord, Serves
<1> QED
  BY <1>7 DEF t, c

LEMMA SameCardinality == \A S : Curl!Cardinality(S) = Cardinality(S)
BY DEF Curl!Cardinality, Cardinality

LEMMA CurlBegins == Curl!CurlInit => CurlInv
<1> SUFFICES ASSUME Curl!CurlInit PROVE CurlInv
  OBVIOUS
<1> DEFINE n == Cardinality(Handles)
           f == Curl!SetToSeq(Handles)
           i == [h \in Handles |-> 0]
           no == FALSE
           c == [queue |-> <<>>, free |-> f, info |-> i, multi |-> {}, timer |-> no,
                 completed |-> <<>>, raised |-> no]
<1>1. n \in Nat /\ ExistsBijection(1 .. n, Handles)
  BY SizesAssumption, FS_CardinalityType
<1>2. PICK g \in [1 .. n -> Handles] : \A j, k \in 1 .. n : g[j] = g[k] => j = k
  BY <1>1 DEF ExistsBijection, Bijection, Injection, IsInjective
<1>3. f = CHOOSE z \in [1 .. n -> Handles] : Curl!IsInjective(z)
  BY SameCardinality DEF Curl!SetToSeq
<1>4. Curl!IsInjective(g)
  BY <1>2 DEF Curl!IsInjective
<1>5. f \in [1 .. n -> Handles] /\ Curl!IsInjective(f)
  BY <1>2, <1>3, <1>4
<1> HIDE DEF f
<1>6. f \in Seq(Handles) /\ \A j, k \in 1 .. Len(f) : f[j] = f[k] => j = k
  BY <1>1, <1>5 DEF Curl!IsInjective
\* A list of as many handles as there are, each once, has them all.
<1>61. \A h \in Handles : \E k \in 1 .. Len(f) : f[k] = h
  <2>1. IsFiniteSet(Handles) /\ Cardinality(1 .. n) = n /\ Len(f) = n
    BY <1>1, <1>5, SizesAssumption, FS_Interval
  <2>2. f \in Injection(1 .. n, Handles)
    BY <1>5 DEF Injection, IsInjective, Curl!IsInjective
  <2>3. f \in Surjection(1 .. n, Handles)
    BY <2>1, <2>2, FS_Injection
  <2> QED
    BY <2>1, <2>3 DEF Surjection
<1>7. curl = c /\ asked = <<>>
  BY DEF Curl!CurlInit, Curl!Nothing, f
<1>8. Pool(<<>>, f, i, {}, <<>>, <<>>)
  <2>1. LeftIs(f, i, {}, <<>>)
    BY <1>61 DEF LeftIs
  <2> QED
    BY <1>6, <2>1 DEF Pool, QueueIs, FreeIs, InfoIs, CompletedIs, AnswersAre
<1> HIDE DEF i, no
<1>9. /\ c.queue = <<>> /\ c.free = f /\ c.info = i /\ c.multi = {} /\ c.completed = <<>>
      /\ c = [queue |-> c.queue, free |-> c.free, info |-> c.info, multi |-> c.multi,
              timer |-> c.timer, completed |-> c.completed, raised |-> c.raised]
  OBVIOUS
<1> HIDE DEF c
<1>10. Client(State) /\ Serves(State)
  BY <1>7, <1>8, <1>9, StateIs DEF Client, ClientRecord, Serves, State
<1> QED
  BY <1>10 DEF CurlInv

LEMMA AppFetchKeeps == ASSUME CurlInv, Curl!ApplicationFetches PROVE CurlInv'
<1>1. PICK valid \in BOOLEAN : Curl!Becomes(Curl!Fetch(State, valid))
  BY StateIs DEF Curl!ApplicationFetches
<1>2. Client(Curl!Fetch(State, valid)) /\ Serves(Curl!Fetch(State, valid))
  BY FetchKeeps DEF CurlInv
<1> QED
  BY <1>1, <1>2, CurlBecomes

LEMMA LibcurlKeeps == ASSUME CurlInv, Curl!LibcurlRuns PROVE CurlInv'
<1> DEFINE Ran(order, x) == WithTimer(WithCompleted(State, order), x)
<1>1. PICK done \in SUBSET curl.multi : \E order \in Curl!SetToSeqs(done), x \in BOOLEAN :
         Curl!Becomes(IF done = {} THEN Curl!AtTheEnd(Ran(order, x)) ELSE Ran(order, x))
  <2>1. PICK because \in {"events", "scan", "timeout"}, ended \in SUBSET curl.multi :
            \E list \in Curl!SetToSeqs(ended) :
            LET t == [State EXCEPT !.curl.completed = list,
                                   !.curl.timer = @ /\ because # "timeout"]
            IN  Curl!Becomes(IF ended = {} THEN Curl!AtTheEnd(t) ELSE t)
    BY StateIs DEF Curl!LibcurlRuns
  <2>2. PICK list \in Curl!SetToSeqs(ended) :
            LET t == [State EXCEPT !.curl.completed = list,
                                   !.curl.timer = @ /\ because # "timeout"]
            IN  Curl!Becomes(IF ended = {} THEN Curl!AtTheEnd(t) ELSE t)
    BY <2>1
  <2> DEFINE y == curl.timer /\ because # "timeout"
  <2>3. y \in BOOLEAN
    OBVIOUS
  <2>4. [State EXCEPT !.curl.completed = list, !.curl.timer = @ /\ because # "timeout"]
        = Ran(list, y)
    BY StateIs DEF WithTimer, WithCompleted
  <2>5. Curl!Becomes(IF ended = {} THEN Curl!AtTheEnd(Ran(list, y)) ELSE Ran(list, y))
    BY <2>2, <2>4
  <2> HIDE DEF y
  <2> QED
    BY <2>3, <2>5
<1>2. PICK order \in Curl!SetToSeqs(done), x \in BOOLEAN :
         Curl!Becomes(IF done = {} THEN Curl!AtTheEnd(Ran(order, x)) ELSE Ran(order, x))
  BY <1>1
<1> DEFINE n == Cardinality(done)
           t == Ran(order, x)
<1>3. Client(State) /\ curl.multi \subseteq Handles /\ State.curl.multi = curl.multi
  BY StateIs DEF CurlInv, Client, Pool, InfoIs
<1>4. n \in Nat /\ (n = 0 <=> done = {})
  <2>1. IsFiniteSet(done)
    BY <1>3, SizesAssumption, FS_Subset
  <2> QED
    BY <2>1, FS_CardinalityType, FS_EmptySet
<1>5. order \in [1 .. n -> done] /\ \A j, k \in 1 .. n : j # k => order[j] # order[k]
  BY SameCardinality DEF Curl!SetToSeqs
<1> HIDE DEF n
<1>6. CompletedIs(order, curl.multi) /\ Len(order) = n
  BY <1>3, <1>4, <1>5 DEF CompletedIs
<1> DEFINE u == WithCompleted(State, order)
<1>7. Client(u) /\ u.curl.completed = order
  BY <1>3, <1>6, CompletedSet
<1> HIDE DEF u
<1>8. Client(t) /\ t.curl.completed = order
  BY <1>7, TimerSet DEF u
<1> HIDE DEF t
<1>9. CASE done = {}
  <2>1. Curl!Becomes(Curl!ProcessQueue(t))
    BY <1>2, <1>9 DEF Curl!AtTheEnd, t
  <2>2. Client(Curl!ProcessQueue(t)) /\ Serves(Curl!ProcessQueue(t))
    BY <1>8, QueueProcessed
  <2> QED
    BY <2>1, <2>2, CurlBecomes
<1>10. CASE done # {}
  <2>1. Curl!Becomes(t) /\ t.curl.completed # <<>>
    BY <1>2, <1>4, <1>6, <1>8, <1>10 DEF t
  <2> QED
    BY <1>8, <2>1, CurlBecomes
<1> QED
  BY <1>9, <1>10

LEMMA FinishPendingKeeps == ASSUME CurlInv, Curl!FinishPending PROVE CurlInv'
<1> DEFINE done == curl.completed
           h == Head(done)
           left == Tail(done)
           u == WithCompleted(State, left)
<1>1. PICK reaction \in Curl!Reactions :
         LET t == Curl!Finish(u, h, reaction)
         IN  Curl!Becomes(IF t.curl.completed = <<>> THEN Curl!AtTheEnd(t) ELSE t)
  BY StateIs DEF Curl!FinishPending, WithCompleted
<1>2. done # <<>>
  BY DEF Curl!FinishPending, Curl!Idle
<1>3. Client(State) /\ State.curl.multi = curl.multi /\ CompletedIs(done, curl.multi)
  BY StateIs DEF CurlInv, Client, Pool
<1> HIDE DEF done
<1>4. done \in Seq(Handles) /\ Len(done) \in Nat /\ Len(done) # 0
  BY <1>2, <1>3 DEF CompletedIs
<1>5. /\ left \in Seq(Handles) /\ Len(left) = Len(done) - 1 /\ h = done[1]
      /\ \A k \in 1 .. Len(left) : left[k] = done[k + 1] /\ k + 1 \in 1 .. Len(done) /\ k + 1 # 1
  BY <1>2, <1>4
<1>6. 1 \in 1 .. Len(done)
  BY <1>4
<1> HIDE DEF left, h
<1>7. h \in curl.multi /\ \A k \in 1 .. Len(left) : left[k] # h
  BY <1>3, <1>5, <1>6 DEF CompletedIs
<1>8. CompletedIs(left, curl.multi)
  <2>1. ASSUME NEW j \in 1 .. Len(left), NEW k \in 1 .. Len(left), left[j] = left[k] PROVE j = k
    <3>1. j + 1 = k + 1
      BY <1>3, <1>5, <2>1 DEF CompletedIs
    <3> QED
      BY <3>1
  <2>2. \A k \in 1 .. Len(left) : left[k] \in curl.multi
    BY <1>3, <1>5 DEF CompletedIs
  <2> QED
    BY <1>5, <2>1, <2>2 DEF CompletedIs
<1>9. Client(u) /\ u.curl.completed = left /\ u.curl.multi = curl.multi
  BY <1>3, <1>8, CompletedSet
<1> HIDE DEF u
<1> DEFINE t == Curl!Finish(u, h, reaction)
<1>10. Client(t)
  BY <1>7, <1>9, HandleFinished
<1>11. Curl!Becomes(IF t.curl.completed = <<>> THEN Curl!ProcessQueue(t) ELSE t)
  BY <1>1 DEF Curl!AtTheEnd
<1> HIDE DEF t
<1>12. Client(Curl!ProcessQueue(t)) /\ Serves(Curl!ProcessQueue(t))
  BY <1>10, QueueProcessed
<1> QED
  BY <1>10, <1>11, <1>12, CurlBecomes

LEMMA CurlKeeps == CurlInv /\ [Curl!CurlNext]_curlVars => CurlInv'
<1>1. ASSUME CurlInv, UNCHANGED curlVars PROVE CurlInv'
  BY <1>1 DEF CurlInv, State, curlVars
<1> QED
  BY <1>1, AppFetchKeeps, LibcurlKeeps, FinishPendingKeeps DEF Curl!CurlNext

LEMMA PoolServes == CurlInv => HandlesServe
<1> SUFFICES ASSUME CurlInv PROVE HandlesServe
  OBVIOUS
<1>1. /\ QueueIs(curl.queue, asked) /\ FreeIs(curl.free, curl.multi)
      /\ InfoIs(curl.info, curl.multi, asked) /\ AnswersAre(asked)
      /\ LeftIs(curl.free, curl.info, curl.multi, asked)
  BY StateIs DEF CurlInv, Client, Pool
<1>2. curl.free \in Seq(Handles) /\ DOMAIN curl.free = 1 .. Len(curl.free)
      /\ DOMAIN asked = 1 .. Len(asked)
  BY <1>1 DEF FreeIs, AnswersAre
<1>3. Curl!IsInjective(curl.free)
  BY <1>1, <1>2 DEF FreeIs, Curl!IsInjective
<1>4. \A h \in Handles : h \in Curl!ToSet(curl.free) <=> curl.info[h] = Curl!Nothing
  <2>1. \A h : h \in Curl!ToSet(curl.free) <=> \E k \in 1 .. Len(curl.free) : curl.free[k] = h
    BY <1>2 DEF Curl!ToSet
  <2> QED
    BY <1>1, <2>1 DEF LeftIs, Curl!Nothing
<1>5. /\ \A h \in Handles : curl.info[h] # Curl!Nothing =>
            asked[curl.info[h]].at \in (IF h \in curl.multi THEN {"running"}
                                       ELSE {"dropped", "refused"})
      /\ \A h \in curl.multi : curl.info[h] # Curl!Nothing
  BY <1>1 DEF InfoIs, LeftIs, Curl!Nothing
<1>6. \A r \in DOMAIN asked :
         asked[r].answers = (IF asked[r].at = "answered" THEN 1 ELSE 0)
  BY <1>1, <1>2 DEF AnswersAre
<1>7. Curl!NoIdleHandle
  BY StateIs DEF CurlInv, Serves, Curl!NoIdleHandle, Curl!Idle
<1> QED
  BY <1>3, <1>4, <1>5, <1>6, <1>7 DEF HandlesServe, Curl!HandlesServe, Curl!PoolIsSound

\* Although callbacks fetch again while completed handles wait for their turn, a handle
\* is free once or has one request, which it runs unless its setup raised, no request is
\* answered twice, and none waits while a handle is free unless the last setup raised.
THEOREM HandlesAlwaysServe == ServicesSpec => []HandlesServe
<1>1. ServicesInit => CurlInv
  BY CurlBegins DEF ServicesInit
<1>2. CurlInv /\ [ServicesNext]_servicesVars => CurlInv'
  BY CurlKeeps, PartsAlone
<1> QED
  BY <1>1, <1>2, PoolServes, PTL DEF ServicesSpec
=============================================================================

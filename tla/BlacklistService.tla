-------------------------- MODULE BlacklistService --------------------------
(***************************************************************************)
(* The web service in front of the blacklists of the nodes.  Its handler   *)
(* blocks in urllib2.urlopen, so that one request is served at a time; the *)
(* answer of a node may be lost after the node has done what it was told.  *)
(*                                                                         *)
(* A node holds its blacklist in memory, dumps it to a file, and loads the *)
(* file when it starts; if that fails it runs without a blacklist, and     *)
(* answers as if it had one.  A dump is complete unless the node is killed *)
(* in it: what else may become of dumps is BlackList's.  A node has ended  *)
(* before it starts again: the handover of a running one to a successor,   *)
(* which loads the file first, is left out.                                *)
(***************************************************************************)
EXTENDS Integers, Sequences

CONSTANTS
    NodeCount,   \* len(hostnames)
    DocIds       \* the docids of requests

VARIABLES
    loaded,      \* of each node: it has a blacklist
    listed,      \* of each node: its blacklist, by the node's own ids
    saved,       \* of each node: the ids in its file
    request,     \* the request being served: op, docid, the commands still to send, and
                 \* the docids of which its answer will tell
    outcome,     \* of each docid: what is known of it from the answers with 200
    dumped       \* of each docid: what was known of it when the file was written

serviceVars == <<loaded, listed, saved, request, outcome, dumped>>

Nodes == 0 .. NodeCount - 1
Waiting == [op |-> "none", docid |-> 0, commands |-> <<>>, about |-> {}]
ServiceInit ==
    /\ loaded \in [Nodes -> BOOLEAN]
    /\ listed = [n \in Nodes |-> {}] /\ saved = listed
    /\ request = Waiting
    /\ outcome = [d \in DocIds |-> "out"] /\ dumped = outcome

NodeOf(d) == d % NodeCount
\* The mutated form of RealDocId: the index in place of the quotient.
RealDocIdLost(d) == d % NodeCount
RealDocId(d) == d \div NodeCount

One(d, op) == <<[node |-> NodeOf(d), op |-> op, id |-> RealDocId(d)]>>
\* The loop of clear visits the hosts in their order.
All == [i \in 1 .. NodeCount |-> [node |-> i - 1, op |-> "clear", id |-> 0]]
Commands(op, d) == CASE op = "add" -> One(d, "blacklist")
                     [] op = "del" -> One(d, "whitelist")
                     [] op = "clear" -> All
About(op, d) == IF op = "clear" THEN DocIds ELSE {d}

Get(op, d) ==
    /\ request = Waiting
    /\ request' = [op |-> op, docid |-> d, commands |-> Commands(op, d), about |-> About(op, d)]
    /\ outcome' = [e \in DocIds |-> IF e \in About(op, d) THEN "open" ELSE outcome[e]]
    /\ UNCHANGED <<loaded, listed, saved, dumped>>

\* What the handler of the node does with its blacklist, if there is one.
Obeyed(c) ==
    IF ~loaded[c.node] THEN listed
    ELSE [listed EXCEPT ![c.node] = CASE c.op = "blacklist" -> @ \cup {c.id}
                                      [] c.op = "whitelist" -> @ \ {c.id}
                                      [] c.op = "clear" -> {}]

\* The os.system call behind each urlopen runs the address as a command, which fails
\* and is not looked at.
UrlOpen ==
    /\ request.commands # <<>>
    /\ listed' = Obeyed(Head(request.commands))
    /\ request' = [request EXCEPT !.commands = Tail(@)]
    /\ UNCHANGED <<loaded, saved, outcome, dumped>>

\* A node that is down, fails or answers too late: the exception ends the handler, the
\* answer is 500, and the commands behind this one are not sent.
UrlOpenRaises ==
    /\ request.commands # <<>>
    /\ listed' \in {listed, Obeyed(Head(request.commands))}
    /\ request' = Waiting
    /\ UNCHANGED <<loaded, saved, outcome, dumped>>

\* The answer is 200.
Finish ==
    /\ request # Waiting /\ request.commands = <<>>
    /\ outcome' = [e \in DocIds |-> IF e \notin request.about THEN outcome[e]
                                    ELSE IF request.op = "add" THEN "in" ELSE "out"]
    /\ request' = Waiting
    /\ UNCHANGED <<loaded, listed, saved, dumped>>

-----------------------------------------------------------------------------
(* The nodes.                                                              *)

\* outcomes with those of the docids of node n as in news.
OfNode(n, outcomes, news) == [d \in DocIds |-> IF NodeOf(d) = n THEN news[d] ELSE outcomes[d]]

\* By the timer, the dump command or the shutdown hook.
Dump(n) ==
    /\ loaded[n]
    /\ saved' = [saved EXCEPT ![n] = listed[n]]
    /\ dumped' = OfNode(n, dumped, outcome)
    /\ UNCHANGED <<loaded, listed, request, outcome>>

\* The request goes on; of a docid of the node its answer will tell something only if
\* the command is sent after the start.
ToSend(n) == \E i \in DOMAIN request.commands : request.commands[i].node = n
StillAbout(n) == {d \in request.about : NodeOf(d) = n => ToSend(n)}

\* The node starts with ids in its file, of whose docids news is known.
Starts(n, ids, news) ==
    /\ \E has \in BOOLEAN :
          /\ loaded' = [loaded EXCEPT ![n] = has]
          /\ listed' = [listed EXCEPT ![n] = IF has THEN ids ELSE {}]
    /\ saved' = [saved EXCEPT ![n] = ids]
    /\ request' = [request EXCEPT !.about = StillAbout(n)]
    /\ dumped' = OfNode(n, dumped, news)
    /\ outcome' = OfNode(n, outcome, [d \in DocIds |-> IF d \in StillAbout(n) THEN "open"
                                                       ELSE news[d]])

\* The node was killed: what was not dumped is lost.
Restart(n) == Starts(n, saved[n], dumped)

\* It was killed in a dump, which had emptied the file and has written a part.
RestartFromPart(n) ==
    /\ loaded[n]
    /\ \E part \in SUBSET listed[n] :
          Starts(n, part, [d \in DocIds |-> IF outcome[d] = "out" THEN "out" ELSE "open"])

ServiceNext ==
    \/ \E op \in {"add", "del", "clear"}, d \in DocIds : Get(op, d)
    \/ UrlOpen \/ UrlOpenRaises \/ Finish
    \/ \E n \in Nodes : Dump(n) \/ Restart(n) \/ RestartFromPart(n)
ServiceSpec == ServiceInit /\ [][ServiceNext]_serviceVars
-----------------------------------------------------------------------------
\* What was answered with 200 has been done, if the node has a blacklist: it lists a docid
\* exactly if the last request about it, a clear among them, was an add, whatever was done
\* about other docids meanwhile and however far a request that failed got.  So it stays
\* until the node starts again.  Then what was so at its last dump is so again; if a dump
\* was cut, what had been added may be lost, but nothing that had been deleted is back.
AnsweredIsDone ==
    \A d \in DocIds : loaded[d % NodeCount] =>
        /\ outcome[d] = "in" => d \div NodeCount \in listed[d % NodeCount]
        /\ outcome[d] = "out" => d \div NodeCount \notin listed[d % NodeCount]
=============================================================================

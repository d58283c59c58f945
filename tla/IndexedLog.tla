----------------------------- MODULE IndexedLog -----------------------------
(***************************************************************************)
(* What a .store file and its index promise to a reader: a log of          *)
(* documents that only grows. An entry, once there, reads the same for     *)
(* ever, through appends, crashes and restarts of the writer.              *)
(***************************************************************************)
EXTENDS Sequences

CONSTANT Documents

VARIABLE log

Init == log = <<>>

\* A document is added as a whole or not at all.
Add(d) == log' = Append(log, d)

Next == \E d \in Documents : Add(d)

Spec == Init /\ [][Next]_log
=============================================================================

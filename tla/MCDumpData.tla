----------------------------- MODULE MCDumpData -----------------------------
(* Input directories for the runs of DumpData.                             *)
EXTENDS DumpData

D(h) == [kind |-> "doc", hash |-> h]
Overflow == [kind |-> "overflow", hash |-> 0]
NoSeparator == [kind |-> "noseparator", hash |-> 0]

\* Three files for two fetchers; every kind of record. With two builders of two
\* files each, hashes 0 and 4 share a file, 0 and 1 not even a builder.
MixedContent ==
    << <<D(0), D(-1)>>,
       <<D(1), Overflow>>,
       <<D(4), NoSeparator, D(0)>> >>

\* A fetcher has one empty file, the other has the documents.
LateContent == << <<>>, <<D(0), D(-1), D(1)>> >>

\* Two files; hashes 0 and 2 share a builder but no file of it.
SmallContent == << <<D(0), D(1)>>, <<D(2)>> >>
=============================================================================

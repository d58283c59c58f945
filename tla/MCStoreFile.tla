---------------------------- MODULE MCStoreFile -----------------------------
(* Documents for the runs of StoreFile.                                    *)
EXTENDS StoreFile

\* An empty document and one with data; hash 0 is what a gap would read as.
SmallDocuments == {[hash |-> 0, length |-> 0], [hash |-> 7, length |-> 2]}
=============================================================================

-------------------------- MODULE MCDocumentIndex --------------------------
(* A folder with one file: everything that races here races on one file.   *)
EXTENDS DocumentIndex

CONSTANTS u1, f1

OneFile == [u \in {u1} |-> f1]
=============================================================================

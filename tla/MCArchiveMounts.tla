--------------------------- MODULE MCArchiveMounts ---------------------------
(***************************************************************************)
(* Instances of ArchiveMounts: the requests of an instance are named here, *)
(* a condition says which of them come and what may happen beside them.    *)
(***************************************************************************)
EXTENDS ArchiveMounts, TLC

CONSTANTS a, b, x, y, p1, p2, p3, d1, d2, c1, r1

MCRepoOf ==
  [q \in Post \cup Call \cup Run |-> IF q = p3 THEN b ELSE a]

MCArchiveOf == [q \in Post |-> IF q = p2 THEN y ELSE x]

\* Mount requests one after the other, with restarts, on two repositories.
Serial ==
  [limited |-> {}, requests |-> Proc, overlap |-> FALSE, slow |-> FALSE,
   cleanupFails |-> FALSE, restarts |-> TRUE]

\* Overlapping, slow and failing requests on a limited filesystem.
Overlapping ==
  [limited |-> {a}, requests |-> {p1, p2, d1, d2, r1}, overlap |-> TRUE, slow |-> TRUE,
   cleanupFails |-> TRUE, restarts |-> FALSE]

\* The same on a limited filesystem, slow, with fewer of them.
SlowSerial ==
  [limited |-> {a}, requests |-> {p1, p2, d1, c1, r1}, overlap |-> FALSE, slow |-> TRUE,
   cleanupFails |-> FALSE, restarts |-> TRUE]

MCConditions == {Serial, SlowSerial, Overlapping}
=============================================================================

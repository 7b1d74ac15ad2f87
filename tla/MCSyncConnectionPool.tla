------------------------ MODULE MCSyncConnectionPool ------------------------
(* Small instances of SyncConnectionPool for TLC. *)
EXTENDS SyncConnectionPool, TLC

\* Borrowers and connection objects are interchangeable.
Interchangeable == Permutations(Threads) \cup Permutations(Conns)
=============================================================================

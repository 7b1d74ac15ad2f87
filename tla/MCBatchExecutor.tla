--------------------------- MODULE MCBatchExecutor ---------------------------
(* An instance of BatchExecutor for TLC. *)
EXTENDS BatchExecutor

CONSTANTS h1, h2, h3

ThreeHosts == <<h1, h2, h3>>
TwoWorkers == {1, 2}
=============================================================================

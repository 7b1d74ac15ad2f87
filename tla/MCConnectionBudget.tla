------------------------ MODULE MCConnectionBudget ------------------------
(* Small instances of ConnectionBudget for TLC. *)
EXTENDS ConnectionBudget

CONSTANTS t1, t2, a1, a2, a3, p1, none

\* A thread and a task acquire for pool p1, the others directly.
MCPoolOf == [c \in Clients |-> IF c \in {t1, a1} THEN p1 ELSE none]
==========================================================================

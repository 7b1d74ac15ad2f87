--------------------------- MODULE FairSemaphore ---------------------------
(***************************************************************************)
(* What a connection budget promises its callers (the module docstring of  *)
(* core/budget.py): at most MaxConnections slots are out at a time, free   *)
(* slots go to the waiters strictly in arrival order, a newcomer never     *)
(* overtakes, and capacity that is given back is handed on in the same     *)
(* step.                                                                   *)
(***************************************************************************)
EXTENDS Integers, FiniteSets

CONSTANTS Clients,         \* everybody who may ask for a slot
          MaxConnections   \* number of slots

VARIABLES owners,   \* the clients a slot is reserved for
          ahead     \* for each client that waits, those ahead of it in line

semVars == <<owners, ahead>>

Waiting == DOMAIN ahead

Newcomers == Clients \ (owners \cup Waiting)

\* Some owners give back, some waiters give up, some client may arrive and
\* stands behind all the others; then every waiter that has fewer owners and
\* waiters before it than there are slots gets one.
Serve(leaving, arriving) ==
  LET kept   == owners \ leaving
      stayed == Waiting \ leaving
      line   == [c \in stayed \cup arriving |->
                   IF c \in arriving THEN stayed ELSE ahead[c] \ leaving]
      served == { c \in DOMAIN line :
                    Cardinality(kept) + Cardinality(line[c]) < MaxConnections }
  IN  /\ owners' = kept \cup served
      /\ ahead' = [c \in DOMAIN line \ served |-> line[c] \ served]

SemInit == owners = {} /\ ahead = [c \in {} |-> {}]

SemNext ==
  \E leaving \in SUBSET (owners \cup Waiting),
     arriving \in { {} } \cup { {c} : c \in Newcomers } :
       Serve(leaving, arriving)

SemSpec == SemInit /\ [][SemNext]_semVars
=============================================================================

--------------------- MODULE AsyncConnectionPool_proofs ---------------------
(***************************************************************************)
(* The accounting and the closing of AsyncConnectionPool, for any number   *)
(* of borrowers, closers and connections and any limits, with every await  *)
(* open to cancellation.                                                   *)
(***************************************************************************)
EXTENDS AsyncConnectionPool, FiniteSetTheorems, TLAPS

TaskPlaces == AcquirePlaces \cup {"idle", "holding", "relClose", "relBroken", "relClosed"}
CloserPlaces == {"idle", "join", "closing", "shield", "wait", "returned", "raised"}

Types ==
  /\ pc \in [Callers -> TaskPlaces \cup CloserPlaces
                         \cup {"off", "sleep", "reap", "none", "done", "dead"}]
  /\ \A t \in Tasks : pc[t] \in TaskPlaces
  /\ \A k \in Closers : pc[k] \in CloserPlaces
  /\ pc[Monitor] \in {"off", "sleep", "reap"}
  /\ pc[Recovery] \in {"none", "join", "closing", "done", "dead"}
  /\ owes \subseteq Callers /\ connections \subseteq Conns
  /\ permits \in Int /\ lost \in Int /\ budgetUsed \in Int /\ foreign \in Int
  /\ cancelled \in BOOLEAN /\ closed \in BOOLEAN /\ finished \in BOOLEAN

\* Who can have a slot in hand: from the budget to the registration, and while
\* a connection it has untracked disconnects.
OwesInPlace ==
  /\ \A t \in Tasks : pc[t] = "connect" => t \in owes
  /\ \A t \in Tasks : pc[t] \in {"idle", "sem", "probe", "budget", "holding"} => t \notin owes
  /\ pc[Monitor] \in {"off", "sleep"} => Monitor \notin owes

\* close_all's list covers the connections left; whoever goes through it does
\* so after the monitor has gone, and ends when it is empty.
Closing ==
  /\ closed => free = <<>> /\ connections \subseteq toClose
  /\ closed /\ pc[Monitor] # "off" => cancelled
  /\ \A t \in Tasks : pc[t] = "relClosed" => closed
  /\ \A k \in Closers : pc[k] # "idle" => closed
  /\ pc[Recovery] # "none" => closed
  /\ \A a \in Closers \cup {Recovery} :
       pc[a] \in {"closing", "returned", "done"} => pc[Monitor] = "off"
  /\ \A a \in Closers \cup {Recovery} : pc[a] \in {"returned", "done"} => toClose = {}
  /\ finished => closed /\ pc[Monitor] = "off" /\ toClose = {}

Shape == Types /\ OwesInPlace /\ Closing

IInv == Shape /\ PermitsConserved /\ BudgetExact

-----------------------------------------------------------------------------
\* A new pool, its monitor not yet started.
LEMMA InitShape == Init => Shape
<1> SUFFICES ASSUME Init PROVE Shape
  OBVIOUS
<1> USE AsyncPoolAssumption DEF Init, Callers
<1>1. /\ \A t \in Tasks : pc[t] = "idle"
      /\ \A k \in Closers : pc[k] = "idle"
      /\ pc[Monitor] = "off" /\ pc[Recovery] = "none"
  OBVIOUS
<1>2. pc \in [Callers -> {"off", "none", "idle"}]
  <2>1. DOMAIN pc = Callers /\ pc = [a \in Callers |-> pc[a]]
    OBVIOUS
  <2>2. \A a \in Callers : pc[a] \in {"off", "none", "idle"}
    BY <1>1
  <2> HIDE DEF Init
  <2> QED BY <2>1, <2>2
<1>3. Types
  <2>1. permits \in Int /\ lost \in Int /\ budgetUsed \in Int /\ foreign \in Int
    OBVIOUS
  <2>2. pc \in [Callers -> TaskPlaces \cup CloserPlaces
                             \cup {"off", "sleep", "reap", "none", "done", "dead"}]
    BY <1>2 DEF TaskPlaces
  <2> QED BY <1>1, <2>1, <2>2 DEF Types, TaskPlaces, CloserPlaces
<1> QED BY <1>1, <1>3 DEF Shape, OwesInPlace, Closing

\* There are finitely many callers and connections.
LEMMA Sizes ==
  ASSUME NEW C \in SUBSET Conns, NEW A \in SUBSET Callers
  PROVE  /\ IsFiniteSet(C) /\ Cardinality(C) \in Nat
         /\ IsFiniteSet(A) /\ Cardinality(A) \in Nat
<1>1. IsFiniteSet({Monitor} \cup {Recovery})
  BY FS_Singleton, FS_Union
<1>2. IsFiniteSet(Callers)
  <2>1. Callers = (Tasks \cup Closers) \cup ({Monitor} \cup {Recovery})
    BY DEF Callers
  <2>2. IsFiniteSet(Tasks \cup Closers)
    BY FS_Union, AsyncPoolAssumption
  <2> QED BY <1>1, <2>1, <2>2, FS_Union
<1> QED BY <1>2, AsyncPoolAssumption, FS_Subset, FS_CardinalityType

\* ... so tasks can be counted.
LEMMA TaskSets ==
  ASSUME NEW S \in SUBSET Tasks
  PROVE  IsFiniteSet(S) /\ Cardinality(S) \in Nat
  BY AsyncPoolAssumption, FS_Subset, FS_CardinalityType

\* The waiters for a permit are counted by a number.
LEMMA WaiterCount == Cardinality(AcquireWaiters) \in Nat
<1>1. AcquireWaiters \in SUBSET Tasks
  BY DEF AcquireWaiters
<1> QED BY <1>1, TaskSets

\* Every step keeps the shape: each action against each of its three parts.
LEMMA NextShape == Shape /\ [Next]_vars => Shape'
<1> SUFFICES ASSUME Shape, [Next]_vars PROVE Shape'
  OBVIOUS
<1> USE AsyncPoolAssumption
    DEF Shape, Types, OwesInPlace, Closing, TaskPlaces, CloserPlaces, AcquirePlaces,
        Callers, Goto, Drop, PickUp, BeginClose, EndClose, SlotsAfterClose,
        workVars, semVars, leaseVars, monVars, closeVars
<1>1. ASSUME NEW t \in Tasks, Acquire(t) PROVE Shape'
  BY <1>1 DEF Acquire, TakeFree
<1>2. ASSUME NEW t \in Tasks, SemAcquired(t) PROVE Shape'
  BY <1>2 DEF SemAcquired, TakeFree
<1>3. ASSUME NEW t \in Tasks, SemCancelled(t) PROVE Shape'
  BY <1>3 DEF SemCancelled
<1>4. ASSUME NEW t \in Tasks, ProbeHealthy(t) PROVE Shape'
  BY <1>4 DEF ProbeHealthy
<1>5. ASSUME NEW t \in Tasks, ProbeFails(t) PROVE Shape'
  BY <1>5 DEF ProbeFails
<1>6. ASSUME NEW t \in Tasks, Discarded(t) PROVE Shape'
  BY <1>6 DEF Discarded, TakeFree
<1>7. ASSUME NEW t \in Tasks, AcquireRaises(t) PROVE Shape'
  BY <1>7 DEF AcquireRaises, ReturnedPermit
<1>8. ASSUME NEW t \in Tasks, BudgetAcquired(t) PROVE Shape'
  BY <1>8 DEF BudgetAcquired
<1>9. ASSUME NEW t \in Tasks, BudgetClosed(t) PROVE Shape'
  BY <1>9 DEF BudgetClosed
<1>10. ASSUME NEW t \in Tasks, CreateFails(t) PROVE Shape'
  BY <1>10 DEF CreateFails
<1>11. ASSUME NEW t \in Tasks, Connected(t) PROVE Shape'
  BY <1>11 DEF Connected
<1>12. ASSUME NEW t \in Tasks, ReleaseKeeps(t) PROVE Shape'
  BY <1>12 DEF ReleaseKeeps
<1>13. ASSUME NEW t \in Tasks, ReleaseCloses(t) PROVE Shape'
  BY <1>13 DEF ReleaseCloses
<1>14. ASSUME NEW t \in Tasks, ReleaseEnds(t) PROVE Shape'
  BY <1>14 DEF ReleaseEnds
<1>15. CASE StartMonitor
  BY <1>15 DEF StartMonitor
<1>16. CASE StopMonitor
  BY <1>16 DEF StopMonitor
<1>17. CASE MonitorWakes
  <2>1. /\ ~cancelled /\ ~closed /\ budgetUsed' \in Int
        /\ \/ /\ pc' = [pc EXCEPT ![Monitor] = "sleep"]
              /\ owes' = owes \ {Monitor} /\ UNCHANGED connections
           \/ \E c : pc' = [pc EXCEPT ![Monitor] = "reap"] /\ BeginClose(Monitor, c)
        /\ UNCHANGED <<semVars, foreign, cancelled, closeVars>>
    BY <1>17 DEF MonitorWakes, Scan
  <2> QED BY <2>1
<1>18. CASE MonitorReaped
  <2>1. /\ ~cancelled /\ ~closed /\ budgetUsed' \in Int
        /\ \/ /\ pc' = [pc EXCEPT ![Monitor] = "sleep"]
              /\ owes' = owes \ {Monitor} /\ UNCHANGED connections
           \/ \E c : pc' = [pc EXCEPT ![Monitor] = "reap"] /\ BeginClose(Monitor, c)
        /\ UNCHANGED <<semVars, foreign, cancelled, closeVars>>
    <3>1. /\ ~cancelled /\ ~closed /\ budgetUsed' \in Int
          /\ Scan(free, snapshot, keep)
          /\ UNCHANGED <<semVars, foreign, cancelled, closeVars>>
      BY <1>18 DEF MonitorReaped
    <3> QED BY <3>1 DEF Scan
  <2> QED BY <2>1
<1>19. CASE MonitorCancelled
  <2>1. /\ pc' = [pc EXCEPT ![Monitor] = "off"] /\ owes' = owes \ {Monitor}
        /\ budgetUsed' \in Int /\ cancelled' = FALSE
        /\ UNCHANGED <<semVars, connections, free, foreign, closeVars>>
    BY <1>19 DEF MonitorCancelled
  <2>2. Types'
    BY <2>1
  <2>3. OwesInPlace' /\ Closing'
    BY <2>1
  <2> QED BY <2>2, <2>3
<1>20. ASSUME NEW k \in Closers, CloseAll(k) PROVE Shape'
  <2>1. permits' \in Int
    BY <1>20, WaiterCount DEF CloseAll, WakePermits
  <2>2. Types'
    BY <1>20, <2>1 DEF CloseAll
  <2>3. OwesInPlace'
    BY <1>20 DEF CloseAll
  <2>4. Closing'
    BY <1>20 DEF CloseAll
  <2> QED BY <2>2, <2>3, <2>4
<1>21. ASSUME NEW k \in Closers, CloseAgain(k) PROVE Shape'
  BY <1>21 DEF CloseAgain
<1>22. ASSUME NEW k \in Closers, WaitOver(k) PROVE Shape'
  BY <1>22 DEF WaitOver, Settled
<1>23. ASSUME NEW k \in Closers, CloseStep(k) PROVE Shape'
  BY <1>23 DEF CloseStep, CloseNext
<1>24. ASSUME NEW k \in Closers, CloseCancelled(k) PROVE Shape'
  BY <1>24 DEF CloseCancelled
<1>25. ASSUME NEW k \in Closers, ShieldOver(k) PROVE Shape'
  BY <1>25 DEF ShieldOver
<1>26. CASE RecoveryStep
  BY <1>26 DEF RecoveryStep, CloseNext
<1>27. CASE ForeignAcquire \/ ForeignRelease
  BY <1>27 DEF ForeignAcquire, ForeignRelease
<1>28. ASSUME NEW t \in Tasks, ReleaseCancelled(t) PROVE Shape'
  BY <1>28 DEF ReleaseCancelled
<1>29. CASE RecoveryCancelled
  BY <1>29 DEF RecoveryCancelled
<1>30. CASE UNCHANGED vars
  BY <1>30 DEF vars
<1> QED BY <1>1, <1>2, <1>3, <1>4, <1>5, <1>6, <1>7, <1>8, <1>9, <1>10, <1>11, <1>12,
           <1>13, <1>14, <1>15, <1>16, <1>17, <1>18, <1>19, <1>20, <1>21, <1>22, <1>23,
           <1>24, <1>25, <1>26, <1>27, <1>28, <1>29, <1>30 DEF Next, AcquireStep

-----------------------------------------------------------------------------
(* The budget. *)

\* What a caller has to give back at the end of its stretch, ...
Settles(a) == \/ budgetUsed' = SlotsAfterClose(a)
              \/ a \notin owes /\ budgetUsed' = budgetUsed
\* ... and what it owes after it: nothing, or the slot of one it untracked.
OwesNext(a) == \/ connections' = connections /\ owes' = owes \ {a}
               \/ \E c : /\ connections' = connections \ {c}
                         /\ owes' = IF c \in connections THEN owes \cup {a} ELSE owes \ {a}

\* A stretch that settles what was owed keeps the budget exact.
LEMMA SettledBudget ==
  ASSUME Shape, BudgetExact, NEW a \in Callers, Settles(a), OwesNext(a), foreign' = foreign
  PROVE  BudgetExact'
<1>1. /\ connections \in SUBSET Conns /\ owes \in SUBSET Callers
      /\ budgetUsed \in Int /\ foreign \in Int
  BY DEF Shape, Types
<1>2. /\ IsFiniteSet(connections) /\ Cardinality(connections) \in Nat
      /\ IsFiniteSet(owes) /\ Cardinality(owes) \in Nat
  BY <1>1, Sizes
<1> DEFINE rest == owes \ {a}
<1>3. /\ IsFiniteSet(rest) /\ a \notin rest
      /\ Cardinality(rest) = IF a \in owes THEN Cardinality(owes) - 1 ELSE Cardinality(owes)
  BY <1>2, FS_RemoveElement
<1>4. Cardinality(owes \cup {a}) = Cardinality(rest) + 1
  <2>1. owes \cup {a} = rest \cup {a}
    OBVIOUS
  <2> QED BY <1>3, <2>1, FS_AddElement
<1> HIDE DEF rest
<1>5. budgetUsed' = Cardinality(connections) + Cardinality(rest) + foreign
  BY <1>1, <1>2, <1>3 DEF BudgetExact, Settles, SlotsAfterClose
<1>6. Cardinality(rest) \in Int
  BY <1>2, <1>3
<1>7. CASE connections' = connections /\ owes' = rest
  BY <1>5, <1>7 DEF BudgetExact
<1>8. ASSUME NEW c, connections' = connections \ {c},
             owes' = IF c \in connections THEN owes \cup {a} ELSE rest
      PROVE  BudgetExact'
  <2>1. CASE c \in connections
    <3>1. Cardinality(connections \ {c}) = Cardinality(connections) - 1
      BY <1>2, <2>1, FS_RemoveElement
    <3> QED BY <1>1, <1>2, <1>4, <1>5, <1>6, <1>8, <2>1, <3>1 DEF BudgetExact
  <2>2. CASE c \notin connections
    <3>1. connections \ {c} = connections
      BY <2>2
    <3> QED BY <1>5, <1>8, <2>2, <3>1 DEF BudgetExact
  <2> QED BY <2>1, <2>2
<1> QED BY <1>7, <1>8 DEF OwesNext, rest

\* A slot is taken and given back together with its connection or its owner in
\* flight, so the sum stays.
LEMMA NextBudget == Shape /\ BudgetExact /\ [Next]_vars => BudgetExact'
<1> SUFFICES ASSUME Shape, BudgetExact, [Next]_vars PROVE BudgetExact'
  OBVIOUS
<1>1. CASE UNCHANGED <<budgetUsed, connections, owes, foreign>>
  BY <1>1 DEF BudgetExact
<1>2. ASSUME NEW a \in Callers, Settles(a), OwesNext(a), foreign' = foreign
      PROVE  BudgetExact'
  BY <1>2, SettledBudget
<1>0. /\ connections \in SUBSET Conns /\ owes \in SUBSET Callers
      /\ budgetUsed \in Int /\ foreign \in Int
      /\ IsFiniteSet(connections) /\ Cardinality(connections) \in Nat
      /\ IsFiniteSet(owes) /\ Cardinality(owes) \in Nat
  BY Sizes DEF Shape, Types
<1> USE DEF workVars, semVars, leaseVars, monVars, closeVars
<1>3. ASSUME NEW t \in Tasks, Acquire(t) \/ SemAcquired(t) PROVE BudgetExact'
  <2>1. CASE UNCHANGED <<connections, owes>>
    BY <1>1, <1>3, <2>1 DEF Acquire, SemAcquired
  <2>2. CASE TakeFree(t)
    <3>1. Settles(t) /\ foreign' = foreign
      BY <1>3 DEF Acquire, SemAcquired, Settles, Shape, OwesInPlace
    <3>2. OwesNext(t)
      BY <2>2 DEF TakeFree, OwesNext, BeginClose
    <3> QED BY <1>2, <3>1, <3>2 DEF Callers
  <2> QED BY <1>3, <2>1, <2>2 DEF Acquire, SemAcquired
<1>4. ASSUME NEW t \in Tasks, ProbeHealthy(t) \/ ProbeFails(t) \/ ReleaseCloses(t)
      PROVE BudgetExact'
  <2>1. /\ UNCHANGED <<connections, owes>> \/ BeginClose(t, hand[t])
        /\ t \notin owes /\ UNCHANGED <<budgetUsed, foreign>>
    BY <1>4 DEF ProbeHealthy, ProbeFails, ReleaseCloses, Shape, OwesInPlace
  <2> QED BY <1>1, <1>2, <2>1 DEF Settles, OwesNext, BeginClose, Callers
<1>5. ASSUME NEW t \in Tasks, Discarded(t) PROVE BudgetExact'
  <2>1. Settles(t) /\ OwesNext(t) /\ foreign' = foreign
    BY <1>5 DEF Discarded, Settles, TakeFree, OwesNext, BeginClose
  <2> QED BY <1>2, <2>1 DEF Callers
<1>6. ASSUME NEW t \in Tasks, AcquireRaises(t) \/ ReleaseEnds(t) \/ ReleaseCancelled(t)
      PROVE BudgetExact'
  <2>1. Settles(t) /\ OwesNext(t) /\ foreign' = foreign
    BY <1>6 DEF AcquireRaises, ReleaseEnds, ReleaseCancelled, EndClose, Settles, OwesNext
  <2> QED BY <1>2, <2>1 DEF Callers
<1>7. ASSUME NEW t \in Tasks, BudgetAcquired(t) PROVE BudgetExact'
  <2>1. /\ t \notin owes /\ owes' = owes \cup {t} /\ budgetUsed' = budgetUsed + 1
        /\ UNCHANGED <<connections, foreign>>
    BY <1>7 DEF BudgetAcquired, Shape, OwesInPlace
  <2>2. Cardinality(owes') = Cardinality(owes) + 1
    BY <1>0, <2>1, FS_AddElement
  <2> QED BY <1>0, <2>1, <2>2 DEF BudgetExact
<1>8. ASSUME NEW t \in Tasks, Connected(t) PROVE BudgetExact'
  <2>1. CASE closed
    BY <1>1, <1>8, <2>1 DEF Connected
  <2>2. CASE ~closed
    <3>1. PICK c \in Conns \ Referenced :
            connections' = connections \cup {c} /\ owes' = owes \ {t}
      BY <1>8, <2>2 DEF Connected
    <3>2. c \notin connections /\ t \in owes /\ UNCHANGED <<budgetUsed, foreign>>
      BY <1>8 DEF Referenced, Connected, Shape, OwesInPlace
    <3>3. /\ Cardinality(connections') = Cardinality(connections) + 1
          /\ Cardinality(owes') = Cardinality(owes) - 1
      BY <1>0, <3>1, <3>2, FS_AddElement, FS_RemoveElement
    <3> QED BY <1>0, <3>2, <3>3 DEF BudgetExact
  <2> QED BY <2>1, <2>2
<1>9. CASE MonitorWakes \/ MonitorReaped
  <2>1. Settles(Monitor) /\ foreign' = foreign
    BY <1>9 DEF MonitorWakes, MonitorReaped, Settles, Scan, Shape, OwesInPlace
  <2>2. OwesNext(Monitor)
    BY <1>9 DEF MonitorWakes, MonitorReaped, Scan, OwesNext, BeginClose
  <2> QED BY <1>2, <2>1, <2>2 DEF Callers
<1>10. CASE MonitorCancelled
  <2>1. Settles(Monitor) /\ OwesNext(Monitor) /\ foreign' = foreign
    BY <1>10 DEF MonitorCancelled, EndClose, Settles, OwesNext
  <2> QED BY <1>2, <2>1 DEF Callers
<1>11. ASSUME NEW k \in Closers, CloseStep(k) PROVE BudgetExact'
  <2>1. Settles(k) /\ OwesNext(k) /\ foreign' = foreign
    BY <1>11 DEF CloseStep, CloseNext, BeginClose, Settles, OwesNext
  <2> QED BY <1>2, <2>1 DEF Callers
<1>12. ASSUME NEW k \in Closers, CloseCancelled(k) PROVE BudgetExact'
  <2>1. Settles(k) /\ OwesNext(k) /\ foreign' = foreign
    BY <1>12 DEF CloseCancelled, EndClose, Settles, OwesNext
  <2> QED BY <1>2, <2>1 DEF Callers
<1>13. CASE RecoveryStep \/ RecoveryCancelled
  <2>1. Settles(Recovery) /\ OwesNext(Recovery) /\ foreign' = foreign
    BY <1>13 DEF RecoveryStep, RecoveryCancelled, CloseNext, BeginClose, EndClose, Settles, OwesNext
  <2> QED BY <1>2, <2>1 DEF Callers
<1>14. CASE ForeignAcquire \/ ForeignRelease
  BY <1>0, <1>14 DEF ForeignAcquire, ForeignRelease, BudgetExact
<1>15. ASSUME NEW t \in Tasks,
              SemCancelled(t) \/ BudgetClosed(t) \/ CreateFails(t) \/ ReleaseKeeps(t)
       PROVE BudgetExact'
  BY <1>1, <1>15 DEF SemCancelled, BudgetClosed, CreateFails, ReleaseKeeps
<1>16. ASSUME NEW k \in Closers,
              CloseAll(k) \/ CloseAgain(k) \/ WaitOver(k) \/ ShieldOver(k)
       PROVE BudgetExact'
  BY <1>1, <1>16 DEF CloseAll, CloseAgain, WaitOver, ShieldOver
<1>17. CASE StartMonitor \/ StopMonitor \/ UNCHANGED vars
  BY <1>1, <1>17 DEF StartMonitor, StopMonitor, vars
<1> QED BY <1>3, <1>4, <1>5, <1>6, <1>7, <1>8, <1>9, <1>10, <1>11, <1>12, <1>13, <1>14,
           <1>15, <1>16, <1>17 DEF Next, AcquireStep

-----------------------------------------------------------------------------
(* The permits. *)

\* Tasks that owe the semaphore a permit.
Owing == { t \in Tasks : pc[t] \notin {"idle", "sem"} }

\* A task takes a permit, ...
LEMMA TakePermit ==
  ASSUME Types, PermitsConserved, NEW t \in Tasks, NEW p, p \notin {"idle", "sem"},
         pc[t] \in {"idle", "sem"}, pc' = [pc EXCEPT ![t] = p],
         permits' = permits - 1, lost' = lost, closed' = closed
  PROVE  PermitsConserved'
<1>1. Owing' = Owing \cup {t} /\ t \notin Owing /\ Owing \in SUBSET Tasks
  BY DEF Owing, Types, Callers
<1>2. Cardinality(Owing') = Cardinality(Owing) + 1 /\ Cardinality(Owing) \in Nat
  BY <1>1, TaskSets, FS_AddElement
<1> QED BY <1>2, AsyncPoolAssumption DEF PermitsConserved, Owing, Types

\* ... returns it (an open pool's only) or loses it, ...
LEMMA ReturnPermit ==
  ASSUME Types, PermitsConserved, NEW t \in Tasks, pc[t] \notin {"idle", "sem"},
         pc' = [pc EXCEPT ![t] = "idle"], closed' = closed,
         ~closed => \/ permits' = permits + 1 /\ lost' = lost
                    \/ permits' = permits /\ lost' = lost + 1
  PROVE  PermitsConserved'
<1>1. Owing' = Owing \ {t} /\ t \in Owing /\ Owing \in SUBSET Tasks
  BY DEF Owing, Types, Callers
<1>2. Cardinality(Owing \ {t}) = Cardinality(Owing) - 1 /\ Cardinality(Owing) \in Nat
  BY <1>1, TaskSets, FS_RemoveElement
<1>3. Cardinality(Owing') = Cardinality(Owing) - 1
  BY <1>1, <1>2
<1>4. ~closed => permits + Cardinality(Owing) + lost = MaxConnections
  BY DEF PermitsConserved, Owing
<1>5. permits \in Int /\ lost \in Int /\ MaxConnections \in Int
  BY AsyncPoolAssumption DEF Types
<1>6. ~closed => permits' + Cardinality(Owing') + lost' = MaxConnections
  BY <1>2, <1>3, <1>4, <1>5
<1> QED BY <1>6 DEF PermitsConserved, Owing

\* ... or does neither.
LEMMA SamePermits ==
  ASSUME PermitsConserved, permits' = permits, lost' = lost, closed' = closed, Owing' = Owing
  PROVE  PermitsConserved'
  BY DEF PermitsConserved, Owing

\* A permit moves between the semaphore, a waiter and a user; none is made.
LEMMA NextPermits == Shape /\ PermitsConserved /\ [Next]_vars => PermitsConserved'
<1> SUFFICES ASSUME Shape, PermitsConserved, [Next]_vars PROVE PermitsConserved'
  OBVIOUS
<1>0. Types
  BY DEF Shape
<1> USE <1>0, AsyncPoolAssumption
    DEF Goto, Drop, PickUp, workVars, semVars, leaseVars, monVars, closeVars
\* A step of a task between two places of the same kind.
<1>1. ASSUME NEW t \in Tasks, NEW p, pc' = [pc EXCEPT ![t] = p],
             pc[t] \in {"idle", "sem"} <=> p \in {"idle", "sem"},
             permits' = permits, lost' = lost, closed' = closed
      PROVE  PermitsConserved'
  <2>1. Owing' = Owing
    BY <1>1 DEF Owing, Types, Callers
  <2> QED BY <1>1, <2>1, SamePermits
\* A step of anybody else.
<1>2. ASSUME permits' = permits, lost' = lost, closed' = closed, \A t \in Tasks : pc'[t] = pc[t]
      PROVE  PermitsConserved'
  <2>1. Owing' = Owing
    BY <1>2 DEF Owing
  <2> QED BY <1>2, <2>1, SamePermits
<1> DEFINE Taken == {"budget", "holding", "probe", "discard", "reject"}
<1>3. ASSUME NEW t \in Tasks, TakeFree(t)
      PROVE  \E p \in Taken : pc' = [pc EXCEPT ![t] = p]
  BY <1>3 DEF TakeFree
<1>4. ASSUME NEW t \in Tasks, Acquire(t) PROVE PermitsConserved'
  <2>1. CASE permits > 0
    <3>1. PICK p \in Taken : pc' = [pc EXCEPT ![t] = p]
      BY <1>3, <1>4, <2>1 DEF Acquire
    <3> QED BY <1>4, <2>1, <3>1, TakePermit DEF Acquire
  <2>2. CASE ~(permits > 0)
    BY <1>1, <1>4, <2>2 DEF Acquire
  <2> QED BY <2>1, <2>2
<1>5. ASSUME NEW t \in Tasks, SemAcquired(t) PROVE PermitsConserved'
  <2>1. CASE closed
    BY <1>5, <2>1 DEF SemAcquired, PermitsConserved
  <2>2. CASE ~closed
    <3>1. PICK p \in Taken : pc' = [pc EXCEPT ![t] = p]
      BY <1>3, <1>5, <2>2 DEF SemAcquired
    <3> QED BY <1>5, <3>1, TakePermit DEF SemAcquired
  <2> QED BY <2>1, <2>2
<1>6. ASSUME NEW t \in Tasks, SemCancelled(t) PROVE PermitsConserved'
  BY <1>1, <1>6 DEF SemCancelled
<1>7. ASSUME NEW t \in Tasks, ProbeHealthy(t) \/ ProbeFails(t) PROVE PermitsConserved'
  <2>1. PICK p \in {"reject", "holding", "discard"} : pc' = [pc EXCEPT ![t] = p]
    BY <1>7 DEF ProbeHealthy, ProbeFails
  <2> QED BY <1>1, <1>7, <2>1 DEF ProbeHealthy, ProbeFails
<1>8. ASSUME NEW t \in Tasks, Discarded(t) PROVE PermitsConserved'
  <2>1. PICK p \in Taken : pc' = [pc EXCEPT ![t] = p]
    BY <1>3, <1>8 DEF Discarded
  <2> QED BY <1>1, <1>8, <2>1 DEF Discarded
<1>9. ASSUME NEW t \in Tasks, AcquireRaises(t) PROVE PermitsConserved'
  BY <1>9, ReturnPermit DEF AcquireRaises, ReturnedPermit
<1>10. ASSUME NEW t \in Tasks, BudgetAcquired(t) \/ BudgetClosed(t) \/ CreateFails(t)
       PROVE PermitsConserved'
  <2>1. PICK p \in {"undo", "connect"} : pc' = [pc EXCEPT ![t] = p]
    BY <1>10 DEF BudgetAcquired, BudgetClosed, CreateFails
  <2> QED BY <1>1, <1>10, <2>1 DEF BudgetAcquired, BudgetClosed, CreateFails
<1>11. ASSUME NEW t \in Tasks, Connected(t) PROVE PermitsConserved'
  <2>1. PICK p \in {"undo", "holding"} : pc' = [pc EXCEPT ![t] = p]
    BY <1>11 DEF Connected
  <2> QED BY <1>1, <1>11, <2>1 DEF Connected
<1>12. ASSUME NEW t \in Tasks, ReleaseKeeps(t) PROVE PermitsConserved'
  BY <1>12, ReturnPermit DEF ReleaseKeeps
<1>13. ASSUME NEW t \in Tasks, ReleaseCloses(t) PROVE PermitsConserved'
  <2>1. PICK p \in {"relClose", "relBroken", "relClosed"} : pc' = [pc EXCEPT ![t] = p]
    BY <1>13 DEF ReleaseCloses
  <2> QED BY <1>1, <1>13, <2>1 DEF ReleaseCloses
<1>14. ASSUME NEW t \in Tasks, ReleaseEnds(t) \/ ReleaseCancelled(t)
       PROVE  PermitsConserved'
  <2>1. ~closed => \/ permits' = permits + 1 /\ lost' = lost
                   \/ permits' = permits /\ lost' = lost + 1
    BY <1>14 DEF ReleaseEnds, ReleaseCancelled, Shape, Closing
  <2>2. /\ pc[t] \notin {"idle", "sem"} /\ pc' = [pc EXCEPT ![t] = "idle"]
        /\ closed' = closed
    BY <1>14 DEF ReleaseEnds, ReleaseCancelled
  <2> QED BY <2>1, <2>2, ReturnPermit
<1>15. CASE \/ StartMonitor \/ StopMonitor \/ MonitorWakes \/ MonitorReaped
            \/ MonitorCancelled
  <2>1. /\ permits' = permits /\ lost' = lost /\ closed' = closed
        /\ \A t \in Tasks : pc'[t] = pc[t]
    BY <1>15 DEF StartMonitor, StopMonitor, MonitorWakes, MonitorReaped, MonitorCancelled,
                 Scan, Types, Callers
  <2> QED BY <1>2, <2>1
<1>16. ASSUME NEW k \in Closers, CloseAll(k) PROVE PermitsConserved'
  BY <1>16 DEF CloseAll, PermitsConserved
<1>17. ASSUME NEW k \in Closers,
              \/ CloseAgain(k) \/ WaitOver(k) \/ CloseStep(k) \/ CloseCancelled(k)
              \/ ShieldOver(k)
       PROVE PermitsConserved'
  <2>1. /\ permits' = permits /\ lost' = lost /\ closed' = closed
        /\ \A t \in Tasks : pc'[t] = pc[t]
    BY <1>17 DEF CloseAgain, WaitOver, CloseStep, CloseNext, CloseCancelled, ShieldOver,
                 Types, Callers
  <2> QED BY <1>2, <2>1
<1>18. CASE \/ RecoveryStep \/ RecoveryCancelled \/ ForeignAcquire \/ ForeignRelease
            \/ UNCHANGED vars
  <2>1. /\ permits' = permits /\ lost' = lost /\ closed' = closed
        /\ \A t \in Tasks : pc'[t] = pc[t]
    BY <1>18 DEF RecoveryStep, RecoveryCancelled, CloseNext, ForeignAcquire, ForeignRelease,
                 Types, Callers, vars
  <2> QED BY <1>2, <2>1
<1> QED BY <1>4, <1>5, <1>6, <1>7, <1>8, <1>9, <1>10, <1>11, <1>12, <1>13, <1>14, <1>15,
           <1>16, <1>17, <1>18 DEF Next, AcquireStep

-----------------------------------------------------------------------------
\* The inductive invariant.
LEMMA Invariant == Spec => []IInv
<1>1. Init => IInv
  <2> SUFFICES ASSUME Init PROVE IInv
    OBVIOUS
  <2>1. connections = {} /\ owes = {} /\ Owing = {} /\ permits = MaxConnections
        /\ lost = 0 /\ budgetUsed = 0 /\ foreign = 0
    BY AsyncPoolAssumption DEF Init, Owing, Callers
  <2>2. PermitsConserved
    BY <2>1, FS_EmptySet, AsyncPoolAssumption DEF PermitsConserved, Owing
  <2>3. BudgetExact
    BY <2>1, FS_EmptySet DEF BudgetExact
  <2> QED BY <2>2, <2>3, InitShape DEF IInv
<1>2. IInv /\ [Next]_vars => IInv'
  BY NextShape, NextBudget, NextPermits DEF IInv
<1> QED BY <1>1, <1>2, PTL DEF Spec

\* At whichever await acquire() or release() is cancelled, no permit of an open
\* pool is minted, and none is lost but by a release cancelled while it closes
\* a connection whose is_connected() raised.
THEOREM PermitsCorrect == Spec => []PermitsConserved
<1>1. IInv => PermitsConserved
  BY DEF IInv
<1> QED BY <1>1, Invariant, PTL

\* Every slot of the budget belongs to one tracked connection or to one task
\* about to give it back, whoever closes what and is cancelled meanwhile.
THEOREM BudgetCorrect == Spec => []BudgetExact
<1>1. IInv => BudgetExact
  BY DEF IInv
<1> QED BY <1>1, Invariant, PTL

\* When close_all() is over nothing is tracked, idle or monitored any more.
THEOREM CloseCorrect == Spec => []CloseIsComplete
<1>1. IInv => CloseIsComplete
  <2> SUFFICES ASSUME IInv, finished \/ \E k \in Closers : pc[k] = "returned"
               PROVE  connections = {} /\ free = <<>> /\ pc[Monitor] = "off"
    BY DEF CloseIsComplete
  <2> QED BY DEF IInv, Shape, Closing
<1> QED BY <1>1, Invariant, PTL
=============================================================================

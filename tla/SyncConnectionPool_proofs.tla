---------------------- MODULE SyncConnectionPool_proofs ----------------------
(***************************************************************************)
(* The accounting of SyncConnectionPool, for any number of borrowers and   *)
(* connections and any limits.  Shape says where a connection can be:      *)
(* once only, in a queue or in a hand, and tracked as long as the pool is  *)
(* open.  Counts says what the semaphore, the waiter count and the budget  *)
(* have to do with the places the threads are at.                          *)
(***************************************************************************)
EXTENDS SyncConnectionPool, FiniteSetTheorems, SequenceTheorems, TLAPS

\* Places of a borrower with a connection in hand ("undo" may have one).
HandPlaces == {"probe", "claim", "discard", "reject", "register", "lease", "holding",
               "relCheck", "relClose", "relPut", "relClosed"}

\* The types, numbers apart.
Types ==
  /\ pc \in [Threads -> Places]
  /\ hand \in [Threads -> Conns \cup {None}]
  /\ permits \in Int /\ semWaiters \in Int
  /\ connections \subseteq Conns
  /\ free \in Seq(Conns) /\ snapshot \in Seq(Conns) /\ keep \in Seq(Conns)
  /\ leased \subseteq Conns /\ closedLeases \subseteq Conns
  /\ budgetUsed \in Int /\ foreign \in Nat
  /\ monitor \in {"off", "wait", "test", "purge"}
  /\ stop \in BOOLEAN /\ closed \in BOOLEAN
  /\ closer \in {"idle", "stop", "closing", "done"}
  /\ toClose \subseteq Conns

HandInPlace ==
  \A t \in Threads : /\ pc[t] \in HandPlaces => hand[t] \in Conns
                     /\ pc[t] \notin HandPlaces \cup {"undo"} => hand[t] = None

MonitorInPlace ==
  /\ monitor # "test" => snapshot = <<>>
  /\ monitor \in {"off", "wait"} => keep = <<>>

\* The connections in no borrower's hand.
InQueues == ToSet(free) \cup ToSet(snapshot) \cup ToSet(keep)

\* A connection is in one place at a time.
Exclusive ==
  /\ IsInjective(free) /\ IsInjective(snapshot) /\ IsInjective(keep)
  /\ ToSet(free) \cap ToSet(snapshot) = {}
  /\ ToSet(free) \cap ToSet(keep) = {} /\ ToSet(snapshot) \cap ToSet(keep) = {}
  /\ \A t \in Threads : hand[t] # None => hand[t] \notin InQueues
  /\ \A t, u \in Threads : hand[t] # None /\ hand[t] = hand[u] => t = u

\* Until the pool closes, all connections but the ones being registered are
\* tracked, and the ones leased are in their borrower's hand.
Tracked ==
  /\ \A t \in Threads : pc[t] = "register" => hand[t] \notin connections
  /\ ~closed =>
       /\ InQueues \subseteq connections
       /\ \A t \in Threads : pc[t] \in HandPlaces \ {"register", "relClosed"}
                               => hand[t] \in connections
       /\ \A c \in leased : \E t \in Threads : pc[t] = "holding" /\ hand[t] = c

\* Once it is closed, close_all's list covers what is left.
Closing ==
  /\ closed <=> closer # "idle"
  /\ closed => free = <<>> /\ leased = {} /\ connections \subseteq toClose
  /\ closer = "done" => toClose = {}

Shape == Types /\ HandInPlace /\ MonitorInPlace /\ Exclusive /\ Tracked /\ Closing

\* Threads counted in _acquire_waiters, and those of them still blocked.
Waiting == { t \in Threads : pc[t] \in {"sem", "got"} }
Blocked == { t \in Threads : pc[t] = "sem" }

Counts ==
  /\ permits \in Nat
  /\ budgetUsed <= BudgetMax
  /\ semWaiters = Cardinality(Waiting)
  /\ PermitsConserved
  /\ BudgetExact
  /\ closed => permits >= Cardinality(Blocked)

IInv == Shape /\ Counts

-----------------------------------------------------------------------------
(* Queues without repetitions. *)

\* An empty queue holds nothing.
LEMMA EmptyQueue == ToSet(<<>>) = {} /\ IsInjective(<<>>)
  BY DEF ToSet, IsInjective

\* Taking the head of a queue removes one element.
LEMMA TakeHead ==
  ASSUME NEW q \in Seq(Conns), IsInjective(q), q # <<>>
  PROVE  /\ Head(q) \in Conns /\ Head(q) \in ToSet(q)
         /\ Tail(q) \in Seq(Conns) /\ IsInjective(Tail(q))
         /\ ToSet(Tail(q)) = ToSet(q) \ {Head(q)}
<1>1. /\ Len(q) \in Nat \ {0} /\ 1 \in 1..Len(q) /\ Head(q) = q[1]
      /\ Tail(q) \in Seq(Conns) /\ Len(Tail(q)) = Len(q) - 1
      /\ \A i \in 1..Len(Tail(q)) : Tail(q)[i] = q[i + 1] /\ i + 1 \in 1..Len(q)
      /\ \A i \in 1..Len(q) : i = 1 \/ (i - 1 \in 1..Len(Tail(q)) /\ Tail(q)[i - 1] = q[i])
  OBVIOUS
<1>2. Head(q) \in Conns /\ Head(q) \in ToSet(q) /\ IsInjective(Tail(q))
  BY <1>1 DEF ToSet, IsInjective
<1>3. ToSet(Tail(q)) \subseteq ToSet(q) \ {Head(q)}
  BY <1>1 DEF ToSet, IsInjective
<1>4. ToSet(q) \ {Head(q)} \subseteq ToSet(Tail(q))
  <2> SUFFICES ASSUME NEW i \in 1..Len(q), q[i] # q[1] PROVE q[i] \in ToSet(Tail(q))
    BY <1>1 DEF ToSet
  <2>1. i - 1 \in 1..Len(Tail(q)) /\ Tail(q)[i - 1] = q[i]
    BY <1>1
  <2>2. DOMAIN Tail(q) = 1..Len(Tail(q))
    BY <1>1
  <2> HIDE <1>1
  <2> QED BY <2>1, <2>2 DEF ToSet
<1> QED BY <1>1, <1>2, <1>3, <1>4

\* Appending a new element adds it.
LEMMA AddLast ==
  ASSUME NEW q \in Seq(Conns), NEW c \in Conns, IsInjective(q), c \notin ToSet(q)
  PROVE  /\ Append(q, c) \in Seq(Conns) /\ IsInjective(Append(q, c))
         /\ ToSet(Append(q, c)) = ToSet(q) \cup {c}
<1>1. /\ Append(q, c) \in Seq(Conns) /\ Len(Append(q, c)) = Len(q) + 1 /\ Len(q) \in Nat
      /\ \A i \in 1..Len(q) : Append(q, c)[i] = q[i]
      /\ Append(q, c)[Len(q) + 1] = c
  OBVIOUS
<1>2. \A i \in 1..Len(q) : q[i] # c
  BY DEF ToSet
<1>3. IsInjective(Append(q, c))
  BY <1>1, <1>2 DEF IsInjective
<1>4. ToSet(Append(q, c)) = ToSet(q) \cup {c}
  BY <1>1 DEF ToSet
<1> QED BY <1>1, <1>3, <1>4

\* Two disjoint queues, one after the other.
LEMMA Join ==
  ASSUME NEW q \in Seq(Conns), NEW r \in Seq(Conns), IsInjective(q), IsInjective(r),
         ToSet(q) \cap ToSet(r) = {}
  PROVE  /\ q \o r \in Seq(Conns) /\ IsInjective(q \o r)
         /\ ToSet(q \o r) = ToSet(q) \cup ToSet(r)
<1>1. /\ q \o r \in Seq(Conns) /\ Len(q \o r) = Len(q) + Len(r)
      /\ Len(q) \in Nat /\ Len(r) \in Nat
      /\ \A i \in 1..(Len(q) + Len(r)) :
           (q \o r)[i] = IF i <= Len(q) THEN q[i] ELSE r[i - Len(q)]
  BY ConcatProperties
<1>2. \A i \in 1..Len(q), j \in 1..Len(r) : q[i] # r[j]
  BY DEF ToSet
<1>3. IsInjective(q \o r)
  BY <1>1, <1>2 DEF IsInjective
<1>4. ToSet(q \o r) \subseteq ToSet(q) \cup ToSet(r)
  BY <1>1 DEF ToSet
<1>5. ToSet(q) \subseteq ToSet(q \o r)
  BY <1>1 DEF ToSet
<1>6. ToSet(r) \subseteq ToSet(q \o r)
  <2> SUFFICES ASSUME NEW j \in 1..Len(r) PROVE r[j] \in ToSet(q \o r)
    BY DEF ToSet
  <2>1. Len(q) + j \in 1..(Len(q) + Len(r)) /\ (q \o r)[Len(q) + j] = r[j]
    BY <1>1
  <2> QED BY <1>1, <2>1 DEF ToSet
<1> QED BY <1>1, <1>3, <1>4, <1>5, <1>6

-----------------------------------------------------------------------------
(* Where connections are. *)

\* A new pool.
LEMMA InitShape == Init => Shape
<1> SUFFICES ASSUME Init PROVE Shape
  OBVIOUS
<1> USE PoolAssumption DEF Init
<1>1. Types
  <2>1. free \in Seq(Conns) /\ snapshot \in Seq(Conns) /\ keep \in Seq(Conns)
    OBVIOUS
  <2>2. pc \in [Threads -> Places] /\ hand \in [Threads -> Conns \cup {None}]
    BY DEF Places
  <2>3. permits \in Int /\ semWaiters \in Int /\ budgetUsed \in Int /\ foreign \in Nat
    OBVIOUS
  <2> QED BY <2>1, <2>2, <2>3 DEF Types
<1>2. HandInPlace /\ MonitorInPlace /\ Tracked /\ Closing
  BY EmptyQueue DEF HandInPlace, MonitorInPlace, HandPlaces, Tracked, Closing, InQueues
<1>3. Exclusive
  BY EmptyQueue DEF Exclusive, InQueues
<1> QED BY <1>1, <1>2, <1>3 DEF Shape

\* Every step keeps the shape: each action against each of its parts.
LEMMA NextShape == Shape /\ [Next]_vars => Shape'
<1> SUFFICES ASSUME Shape, [Next]_vars PROVE Shape'
  OBVIOUS
<1> USE PoolAssumption
    DEF Shape, Types, HandInPlace, MonitorInPlace, Exclusive, InQueues,
        Tracked, Closing, HandPlaces, Places, AcquirePlaces, ReleasePlaces,
        borrowVars, semVars, leaseVars, budgetVars, monitorVars, closeVars,
        Goto, Drop, PickUp
<1>1. ASSUME NEW t \in Threads, Acquire(t) PROVE Shape'
  BY <1>1 DEF Acquire
<1>2. ASSUME NEW t \in Threads, SemAcquire(t) PROVE Shape'
  BY <1>2 DEF SemAcquire
<1>3. ASSUME NEW t \in Threads, SemInterrupt(t) \/ Uncount(t) PROVE Shape'
  <2>1. CASE SemInterrupt(t)
    BY <2>1 DEF SemInterrupt
  <2>2. CASE Uncount(t)
    BY <2>2 DEF Uncount
  <2> QED BY <1>3, <2>1, <2>2
<1>4. ASSUME NEW t \in Threads, CheckClosed(t) PROVE Shape'
  BY <1>4 DEF CheckClosed
<1>5. ASSUME NEW t \in Threads, TakeFree(t) PROVE Shape'
  <2>1. CASE closed
    BY <1>5, <2>1 DEF TakeFree
  <2>2. CASE ~closed /\ free = <<>>
    BY <1>5, <2>2 DEF TakeFree
  <2>3. CASE ~closed /\ free # <<>>
    <3>1. /\ Head(free) \in Conns /\ Head(free) \in ToSet(free)
          /\ Tail(free) \in Seq(Conns) /\ IsInjective(Tail(free))
          /\ ToSet(Tail(free)) = ToSet(free) \ {Head(free)}
      BY <2>3, TakeHead
    <3>2. /\ pc[t] = "take" /\ hand[t] = None
          /\ pc' = [pc EXCEPT ![t] = "probe"] /\ hand' = [hand EXCEPT ![t] = Head(free)]
          /\ free' = Tail(free)
          /\ UNCHANGED <<semVars, connections, leaseVars, budgetVars, monitorVars, stop,
                         closeVars>>
      BY <1>5, <2>3 DEF TakeFree
    <3>3. Types' /\ HandInPlace' /\ MonitorInPlace' /\ Closing'
      BY <2>3, <3>1, <3>2
    <3>4. Exclusive'
      BY <3>1, <3>2
    <3>5. Tracked'
      BY <2>3, <3>1, <3>2
    <3> QED BY <3>3, <3>4, <3>5
  <2> QED BY <2>1, <2>2, <2>3
<1>6. ASSUME NEW t \in Threads, Probe(t) PROVE Shape'
  <2>1. PICK place \in {"claim", "discard", "reject"} : Goto(t, place)
    BY <1>6 DEF Probe
  <2> QED BY <1>6, <2>1 DEF Probe
<1>7. ASSUME NEW t \in Threads, Claim(t) PROVE Shape'
  BY <1>7, SMTT(30) DEF Claim
<1>8. ASSUME NEW t \in Threads, Discard(t) PROVE Shape'
  BY <1>8 DEF Discard, CloseConnection
<1>9. ASSUME NEW t \in Threads, BudgetAcquire(t) \/ BudgetRaise(t) PROVE Shape'
  <2>1. CASE BudgetAcquire(t)
    BY <2>1 DEF BudgetAcquire
  <2>2. CASE BudgetRaise(t)
    BY <2>2 DEF BudgetRaise
  <2> QED BY <1>9, <2>1, <2>2
<1>10. ASSUME NEW t \in Threads, Connect(t) PROVE Shape'
  <2>1. CASE ~closed /\ \E c \in Conns \ Referenced : PickUp(t, c, "register")
    <3>1. PICK c \in Conns \ Referenced : PickUp(t, c, "register")
      BY <2>1
    <3>2. /\ c \notin InQueues /\ c \notin connections /\ c # None
          /\ \A u \in Threads : hand[u] # c
      BY <3>1 DEF Referenced
    <3> QED BY <1>10, <2>1, <3>1, <3>2 DEF Connect
  <2>2. CASE Goto(t, "undo") /\ UNCHANGED hand
    BY <1>10, <2>2 DEF Connect
  <2> QED BY <1>10, <2>1, <2>2 DEF Connect
<1>11. ASSUME NEW t \in Threads, Register(t) PROVE Shape'
  BY <1>11 DEF Register
<1>12. ASSUME NEW t \in Threads, Undo(t) PROVE Shape'
  BY <1>12 DEF Undo
<1>13. ASSUME NEW t \in Threads, Lease(t) PROVE Shape'
  <2>1. CASE closed \/ hand[t] \notin connections
    <3>1. /\ pc[t] = "lease"
          /\ pc' = [pc EXCEPT ![t] = "fail"] /\ hand' = [hand EXCEPT ![t] = None]
          /\ UNCHANGED <<semVars, connections, free, leaseVars, budgetVars, monitorVars,
                         stop, closeVars>>
      BY <1>13, <2>1 DEF Lease
    <3>2. Types' /\ HandInPlace' /\ MonitorInPlace' /\ Closing'
      BY <3>1
    <3>3. Exclusive'
      BY <3>1
    <3>4. Tracked'
      BY <3>1
    <3> QED BY <3>2, <3>3, <3>4
  <2>2. CASE ~closed /\ hand[t] \in connections
    BY <1>13, <2>2 DEF Lease
  <2> QED BY <2>1, <2>2
<1>14. ASSUME NEW t \in Threads, Fail(t) PROVE Shape'
  BY <1>14 DEF Fail
<1>15. ASSUME NEW t \in Threads, Release(t) PROVE Shape'
  BY <1>15 DEF Release
<1>16. ASSUME NEW t \in Threads, ReleaseCheck(t) PROVE Shape'
  <2>1. PICK place \in {"relPut", "relClose"} : Goto(t, place)
    BY <1>16 DEF ReleaseCheck
  <2> QED BY <1>16, <2>1 DEF ReleaseCheck
<1>17. ASSUME NEW t \in Threads, ReleasePut(t) PROVE Shape'
  <2>1. CASE closed
    BY <1>17, <2>1 DEF ReleasePut
  <2>2. CASE ~closed
    <3>1. /\ Append(free, hand[t]) \in Seq(Conns) /\ IsInjective(Append(free, hand[t]))
          /\ ToSet(Append(free, hand[t])) = ToSet(free) \cup {hand[t]}
      BY <1>17, AddLast DEF ReleasePut
    <3>2. /\ pc[t] = "relPut" /\ hand[t] \in Conns
          /\ pc' = [pc EXCEPT ![t] = "idle"] /\ hand' = [hand EXCEPT ![t] = None]
          /\ free' = Append(free, hand[t]) /\ permits' = permits + 1
          /\ UNCHANGED <<semWaiters, connections, leaseVars, budgetVars, monitorVars,
                         stop, closeVars>>
      BY <1>17, <2>2 DEF ReleasePut
    <3>3. Types' /\ HandInPlace' /\ MonitorInPlace' /\ Closing'
      BY <2>2, <3>1, <3>2
    <3>4. Exclusive'
      BY <3>1, <3>2
    <3>5. Tracked'
      <4>1. hand[t] \in connections
        BY <2>2, <3>2
      <4>2. InQueues' \subseteq connections'
        BY <2>2, <4>1, <3>1, <3>2
      <4>3. \A c \in leased' : \E u \in Threads : pc'[u] = "holding" /\ hand'[u] = c
        BY <2>2, <3>2
      <4>4. \A u \in Threads : u # t => pc'[u] = pc[u] /\ hand'[u] = hand[u]
        BY <3>2
      <4> QED BY <2>2, <3>2, <4>2, <4>3, <4>4
    <3> QED BY <3>3, <3>4, <3>5
  <2> QED BY <2>1, <2>2
<1>18. ASSUME NEW t \in Threads, ReleaseClose(t) PROVE Shape'
  BY <1>18 DEF ReleaseClose, CloseConnection
<1>19. ASSUME NEW t \in Threads, ReleasePermit(t) PROVE Shape'
  BY <1>19 DEF ReleasePermit
<1>20. CASE StartMonitor \/ StopMonitor \/ MonitorExit
  <2>1. CASE StartMonitor
    BY <2>1 DEF StartMonitor
  <2>2. CASE StopMonitor
    BY <2>2 DEF StopMonitor
  <2>3. CASE MonitorExit
    BY <2>3 DEF MonitorExit
  <2> QED BY <1>20, <2>1, <2>2, <2>3
<1>21. CASE MonitorDrain
  BY <1>21, EmptyQueue DEF MonitorDrain
<1>22. CASE MonitorKeep
  BY <1>22, TakeHead, AddLast DEF MonitorKeep
<1>23. CASE MonitorReap
  BY <1>23, TakeHead DEF MonitorReap, CloseConnection
<1>24. CASE MonitorPutBack
  <2>1. CASE closed
    BY <1>24, <2>1 DEF MonitorPutBack
  <2>2. CASE ~closed
    <3>1. /\ free \o keep \in Seq(Conns) /\ IsInjective(free \o keep)
          /\ ToSet(free \o keep) = ToSet(free) \cup ToSet(keep)
      BY Join
    <3>2. /\ free' = free \o keep /\ keep' = <<>> /\ monitor' = "wait"
          /\ snapshot = <<>>
          /\ UNCHANGED <<borrowVars, semVars, connections, leaseVars, budgetVars, snapshot,
                         stop, closeVars>>
      BY <1>24, <2>2 DEF MonitorPutBack
    <3>3. Types' /\ HandInPlace' /\ MonitorInPlace' /\ Closing'
      BY <2>2, <3>1, <3>2
    <3>4. Exclusive' /\ Tracked'
      BY <3>1, <3>2, EmptyQueue
    <3> QED BY <3>3, <3>4
  <2> QED BY <2>1, <2>2
<1>25. CASE MonitorPurge
  <2>1. CASE keep = <<>>
    BY <1>25, <2>1 DEF MonitorPurge
  <2>2. CASE keep # <<>>
    <3>1. /\ Head(keep) \in Conns /\ Head(keep) \in ToSet(keep)
          /\ Tail(keep) \in Seq(Conns) /\ IsInjective(Tail(keep))
          /\ ToSet(Tail(keep)) = ToSet(keep) \ {Head(keep)}
      BY <2>2, TakeHead
    <3>2. /\ connections' = connections \ {Head(keep)} /\ budgetUsed' \in Int
          /\ keep' = Tail(keep) /\ monitor = "purge"
          /\ UNCHANGED <<borrowVars, semVars, free, leaseVars, foreign, monitor, snapshot,
                         stop, closeVars>>
      BY <1>25, <2>2 DEF MonitorPurge, CloseConnection
    <3>3. Types' /\ HandInPlace' /\ MonitorInPlace' /\ Closing'
      BY <3>1, <3>2
    <3>4. Exclusive'
      BY <3>1, <3>2
    <3>5. Tracked'
      BY <3>1, <3>2
    <3> QED BY <3>3, <3>4, <3>5
  <2> QED BY <2>1, <2>2
<1>26. CASE Close
  <2>1. Types' /\ HandInPlace' /\ MonitorInPlace'
    BY <1>26 DEF Close, WakePermits
  <2>2. Exclusive' /\ Tracked'
    BY <1>26, EmptyQueue DEF Close
  <2>3. Closing'
    BY <1>26 DEF Close
  <2> QED BY <2>1, <2>2, <2>3
<1>27. CASE CloseStop \/ CloseDone
  BY <1>27 DEF CloseStop, CloseDone
<1>28. CASE CloseOne
  BY <1>28 DEF CloseOne, CloseConnection
<1>29. CASE ForeignAcquire \/ ForeignRelease
  BY <1>29 DEF ForeignAcquire, ForeignRelease
<1>30. CASE UNCHANGED vars
  BY <1>30 DEF vars
<1> QED BY <1>1, <1>2, <1>3, <1>4, <1>5, <1>6, <1>7, <1>8, <1>9, <1>10, <1>11, <1>12,
           <1>13, <1>14, <1>15, <1>16, <1>17, <1>18, <1>19, <1>20, <1>21, <1>22, <1>23,
           <1>24, <1>25, <1>26, <1>27, <1>28, <1>29, <1>30
        DEF Next, AcquireStep, ReleaseStep, MonitorStep, CloseStep

-----------------------------------------------------------------------------
(* The numbers. *)

\* Places where a thread owes a permit, holds a budget slot of its own, ...
Owing == Places \ {"idle", "sem", "relClosed"}
InFlight == {"connect", "register", "undo"}
Bit(p, P) == IF p \in P THEN 1 ELSE 0

\* Threads at some places.
At(f, P) == { u \in Threads : f[u] \in P }

\* There are finitely many threads.
LEMMA ThreadSets ==
  ASSUME NEW S \in SUBSET Threads
  PROVE  IsFiniteSet(S) /\ Cardinality(S) \in Nat
  BY PoolAssumption, FS_Subset, FS_CardinalityType

\* How a thread's move changes the number of threads at some places.
LEMMA MoveOne ==
  ASSUME NEW f \in [Threads -> Places], NEW t \in Threads, NEW p \in Places, NEW P
  PROVE  Cardinality(At([f EXCEPT ![t] = p], P))
           = Cardinality(At(f, P)) + Bit(p, P) - Bit(f[t], P)
<1> DEFINE g == [f EXCEPT ![t] = p]
<1>1. At(f, P) \in SUBSET Threads /\ IsFiniteSet(At(f, P)) /\ Cardinality(At(f, P)) \in Nat
  BY ThreadSets DEF At
<1>2. CASE p \in P /\ f[t] \in P
  <2>1. At(g, P) = At(f, P)
    BY <1>2 DEF At
  <2> QED BY <1>1, <1>2, <2>1 DEF Bit
<1>3. CASE p \in P /\ f[t] \notin P
  <2>1. At(g, P) = At(f, P) \cup {t} /\ t \notin At(f, P)
    BY <1>3 DEF At
  <2>2. Cardinality(At(g, P)) = Cardinality(At(f, P)) + 1
    BY <1>1, <2>1, FS_AddElement
  <2> QED BY <1>1, <1>3, <2>2 DEF Bit
<1>4. CASE p \notin P /\ f[t] \in P
  <2>1. At(g, P) = At(f, P) \ {t} /\ t \in At(f, P)
    BY <1>4 DEF At
  <2>2. Cardinality(At(f, P) \ {t}) = Cardinality(At(f, P)) - 1
    BY <1>1, <2>1, FS_RemoveElement
  <2>3. Cardinality(At(g, P)) = Cardinality(At(f, P)) - 1
    <3> HIDE DEF g
    <3> QED BY <2>1, <2>2
  <2> QED BY <1>1, <1>4, <2>3 DEF Bit
<1>5. CASE p \notin P /\ f[t] \notin P
  <2>1. At(g, P) = At(f, P)
    BY <1>5 DEF At
  <2> QED BY <1>1, <1>5, <2>1 DEF Bit
<1> QED BY <1>2, <1>3, <1>4, <1>5

\* The sizes are natural numbers.
LEMMA Sizes ==
  ASSUME Shape
  PROVE  /\ Cardinality(PermitOwers) \in Nat /\ Cardinality(SlotInFlight) \in Nat
         /\ Cardinality(Waiting) \in Nat /\ Cardinality(Blocked) \in Nat
         /\ Cardinality(connections) \in Nat /\ IsFiniteSet(connections)
         /\ Cardinality(Blocked) <= Cardinality(Waiting)
<1>1. IsFiniteSet(connections) /\ Cardinality(connections) \in Nat
  BY PoolAssumption, FS_Subset, FS_CardinalityType DEF Shape, Types
<1>2. /\ PermitOwers \in SUBSET Threads /\ SlotInFlight \in SUBSET Threads
      /\ Waiting \in SUBSET Threads /\ Blocked \in SUBSET Waiting
  BY DEF PermitOwers, SlotInFlight, Waiting, Blocked
<1> QED BY <1>1, <1>2, ThreadSets, FS_Subset

\* The books balance when thread t moves to place p: a permit, a count as a
\* waiter or a budget slot changes hands only with the thread's place.
Books(t, p) ==
  /\ pc' = [pc EXCEPT ![t] = p] /\ closed' = closed
  /\ permits' \in Nat
  /\ ~closed => permits' + Bit(p, Owing) = permits + Bit(pc[t], Owing)
  /\ semWaiters' = semWaiters + Bit(p, {"sem", "got"}) - Bit(pc[t], {"sem", "got"})
  /\ budgetUsed' \in Int /\ budgetUsed' <= BudgetMax /\ foreign' = foreign
  /\ Cardinality(connections') \in Int
  /\ budgetUsed' - Cardinality(connections') - Bit(p, InFlight)
       = budgetUsed - Cardinality(connections) - Bit(pc[t], InFlight)
  /\ closed => permits' - Bit(p, {"sem"}) >= permits - Bit(pc[t], {"sem"})

\* A thread that moves with its books balanced keeps the sums.
LEMMA MoveCounts ==
  ASSUME Shape, Counts, NEW t \in Threads, NEW p \in Places, Books(t, p)
  PROVE  Counts'
<1>1. pc \in [Threads -> Places] /\ pc' = [pc EXCEPT ![t] = p]
  BY DEF Shape, Types, Books
<1>2. /\ PermitOwers = At(pc, Owing) /\ PermitOwers' = At(pc', Owing)
      /\ SlotInFlight = At(pc, InFlight) /\ SlotInFlight' = At(pc', InFlight)
      /\ Waiting = At(pc, {"sem", "got"}) /\ Waiting' = At(pc', {"sem", "got"})
      /\ Blocked = At(pc, {"sem"}) /\ Blocked' = At(pc', {"sem"})
  BY <1>1 DEF PermitOwers, Owing, SlotInFlight, InFlight, Waiting, Blocked, At
<1>3. Cardinality(PermitOwers')
        = Cardinality(PermitOwers) + Bit(p, Owing) - Bit(pc[t], Owing)
  BY <1>1, <1>2, MoveOne
<1>4. Cardinality(SlotInFlight')
        = Cardinality(SlotInFlight) + Bit(p, InFlight) - Bit(pc[t], InFlight)
  BY <1>1, <1>2, MoveOne
<1>5. Cardinality(Waiting')
        = Cardinality(Waiting) + Bit(p, {"sem", "got"}) - Bit(pc[t], {"sem", "got"})
  BY <1>1, <1>2, MoveOne
<1>6. Cardinality(Blocked') = Cardinality(Blocked) + Bit(p, {"sem"}) - Bit(pc[t], {"sem"})
  BY <1>1, <1>2, MoveOne
<1>7. \A P : Bit(p, P) \in Int /\ Bit(pc[t], P) \in Int
  BY DEF Bit
<1>8. /\ Cardinality(PermitOwers) \in Nat /\ Cardinality(SlotInFlight) \in Nat
      /\ Cardinality(Waiting) \in Nat /\ Cardinality(Blocked) \in Nat
      /\ Cardinality(connections) \in Nat
  BY Sizes
<1>9. /\ permits \in Int /\ semWaiters \in Int /\ budgetUsed \in Int /\ foreign \in Int
      /\ closed \in BOOLEAN /\ MaxConnections \in Int /\ BudgetMax \in Int
  BY PoolAssumption DEF Shape, Types
<1>10. PermitsConserved'
  BY <1>3, <1>7, <1>8, <1>9 DEF Books, Counts, PermitsConserved
<1>11. BudgetExact'
  BY <1>4, <1>7, <1>8, <1>9 DEF Books, Counts, BudgetExact
<1>12. /\ semWaiters' = Cardinality(Waiting')
       /\ closed' => permits' >= Cardinality(Blocked')
  BY <1>5, <1>6, <1>7, <1>8, <1>9 DEF Books, Counts
<1> QED BY <1>10, <1>11, <1>12 DEF Counts, Books

\* _close_connection gives back one slot for a tracked connection, none else.
LEMMA CloseCounts ==
  ASSUME Shape, NEW c, CloseConnection(c)
  PROVE  /\ budgetUsed' - Cardinality(connections') = budgetUsed - Cardinality(connections)
         /\ budgetUsed' <= budgetUsed /\ budgetUsed' \in Int
         /\ Cardinality(connections') \in Nat /\ Cardinality(connections) \in Nat
<1>1. IsFiniteSet(connections) /\ IsFiniteSet(connections')
  BY PoolAssumption, FS_Subset DEF Shape, Types, CloseConnection
<1> QED BY <1>1, FS_RemoveElement, FS_CardinalityType DEF CloseConnection, Shape, Types

\* A new pool owes nothing.
LEMMA InitCounts == Init => Counts
<1> SUFFICES ASSUME Init PROVE Counts
  OBVIOUS
<1> USE PoolAssumption DEF Init
<1>1. PermitOwers = {} /\ SlotInFlight = {} /\ Waiting = {} /\ connections = {}
  BY DEF PermitOwers, SlotInFlight, Waiting
<1> QED BY <1>1, FS_EmptySet DEF Counts, PermitsConserved, BudgetExact

\* The books also balance in every step of a borrower ...
LEMMA BorrowerCounts ==
  ASSUME Shape, Counts, NEW t \in Threads,
         \/ Acquire(t) \/ SemInterrupt(t) \/ AcquireStep(t)
         \/ BudgetRaise(t) \/ Release(t) \/ ReleaseStep(t)
  PROVE  Counts'
<1>0. /\ pc \in [Threads -> Places] /\ permits \in Nat /\ semWaiters \in Int
      /\ budgetUsed \in Int /\ budgetUsed <= BudgetMax /\ foreign \in Nat
      /\ closed \in BOOLEAN /\ BudgetMax \in Nat
      /\ Cardinality(connections) \in Nat /\ IsFiniteSet(connections)
  BY PoolAssumption, Sizes DEF Shape, Types, Counts
<1> SUFFICES \E p \in Places : Books(t, p)
  BY MoveCounts
<1> USE <1>0 DEF Books, Bit, Owing, InFlight, Places, AcquirePlaces, ReleasePlaces,
        Goto, Drop, PickUp, semVars, leaseVars, budgetVars, monitorVars, closeVars
<1>1. ASSUME Acquire(t) PROVE Books(t, "sem")
  BY <1>1 DEF Acquire
<1>2. ASSUME SemAcquire(t) PROVE Books(t, "got")
  BY <1>2 DEF SemAcquire
<1>3. ASSUME SemInterrupt(t) PROVE Books(t, "idle")
  BY <1>3 DEF SemInterrupt
<1>4. ASSUME Uncount(t) PROVE Books(t, "check")
  BY <1>4 DEF Uncount
<1>5. ASSUME CheckClosed(t) PROVE Books(t, IF closed THEN "idle" ELSE "take")
  BY <1>5 DEF CheckClosed
<1>6. ASSUME TakeFree(t)
      PROVE Books(t, IF closed THEN "fail" ELSE IF free = <<>> THEN "create" ELSE "probe")
  BY <1>6 DEF TakeFree
<1>7. ASSUME Probe(t) PROVE Books(t, "claim") \/ Books(t, "discard") \/ Books(t, "reject")
  BY <1>7 DEF Probe
<1>8. ASSUME Claim(t) PROVE Books(t, IF closed THEN "reject" ELSE "holding")
  BY <1>8 DEF Claim
<1>9. ASSUME Discard(t) PROVE Books(t, IF pc[t] = "discard" THEN "take" ELSE "fail")
  BY <1>9, CloseCounts DEF Discard
<1>10. ASSUME BudgetAcquire(t) PROVE Books(t, "connect")
  BY <1>10 DEF BudgetAcquire
<1>11. ASSUME BudgetRaise(t) PROVE Books(t, "fail")
  BY <1>11 DEF BudgetRaise
<1>12. ASSUME Connect(t) PROVE Books(t, "register") \/ Books(t, "undo")
  BY <1>12 DEF Connect
<1>13. ASSUME Register(t) PROVE Books(t, IF closed THEN "undo" ELSE "lease")
  <2>1. CASE closed
    BY <1>13, <2>1 DEF Register
  <2>2. CASE ~closed
    <3>1. Cardinality(connections') = Cardinality(connections) + 1
      BY <1>13, <2>2, FS_AddElement DEF Register, Shape, Tracked
    <3> QED BY <1>13, <2>2, <3>1 DEF Register
  <2> QED BY <2>1, <2>2
<1>14. ASSUME Undo(t) PROVE Books(t, "fail")
  BY <1>14 DEF Undo
<1>15. ASSUME Lease(t)
       PROVE Books(t, IF closed \/ hand[t] \notin connections THEN "fail" ELSE "holding")
  BY <1>15 DEF Lease
<1>16. ASSUME Fail(t) PROVE Books(t, "idle")
  BY <1>16 DEF Fail
<1>17. ASSUME Release(t) PROVE Books(t, IF closed THEN "relClosed" ELSE "relCheck")
  BY <1>17 DEF Release
<1>18. ASSUME ReleaseCheck(t) PROVE Books(t, "relPut") \/ Books(t, "relClose")
  BY <1>18 DEF ReleaseCheck
<1>19. ASSUME ReleasePut(t) PROVE Books(t, IF closed THEN "relClosed" ELSE "idle")
  BY <1>19 DEF ReleasePut
<1>20. ASSUME ReleaseClose(t) PROVE Books(t, IF pc[t] = "relClose" THEN "relPermit" ELSE "idle")
  BY <1>20, CloseCounts DEF ReleaseClose
<1>21. ASSUME ReleasePermit(t) PROVE Books(t, "idle")
  BY <1>21 DEF ReleasePermit
<1> HIDE DEF Books
<1> QED BY <1>1, <1>2, <1>3, <1>4, <1>5, <1>6, <1>7, <1>8, <1>9, <1>10, <1>11, <1>12,
           <1>13, <1>14, <1>15, <1>16, <1>17, <1>18, <1>19, <1>20, <1>21
        DEF AcquireStep, ReleaseStep

\* ... and in every other step, which leaves all borrowers where they are.
LEMMA OtherCounts ==
  ASSUME Shape, Counts, UNCHANGED pc,
         \/ StartMonitor \/ StopMonitor \/ MonitorStep \/ Close \/ CloseStep
         \/ ForeignAcquire \/ ForeignRelease \/ UNCHANGED vars
  PROVE  Counts'
<1>0. /\ permits \in Nat /\ semWaiters \in Int /\ budgetUsed \in Int /\ foreign \in Nat
      /\ closed \in BOOLEAN /\ MaxConnections \in Nat /\ BudgetMax \in Nat
      /\ Cardinality(connections) \in Nat /\ Cardinality(SlotInFlight) \in Nat
      /\ Cardinality(Waiting) \in Nat /\ Cardinality(Blocked) \in Nat
      /\ Cardinality(Blocked) <= Cardinality(Waiting)
  BY PoolAssumption, Sizes DEF Shape, Types, Counts
<1>1. PermitOwers' = PermitOwers /\ SlotInFlight' = SlotInFlight /\ Waiting' = Waiting
      /\ Blocked' = Blocked
  BY DEF PermitOwers, SlotInFlight, Waiting, Blocked
<1> USE <1>0, <1>1 DEF Counts, PermitsConserved, BudgetExact, semVars, leaseVars,
        budgetVars, monitorVars, closeVars
<1>2. CASE \/ StartMonitor \/ StopMonitor \/ MonitorExit \/ MonitorDrain \/ MonitorKeep
           \/ MonitorPutBack \/ CloseStop \/ CloseDone \/ UNCHANGED vars
  <2>1. UNCHANGED <<permits, semWaiters, connections, budgetUsed, foreign, closed>>
    BY <1>2 DEF StartMonitor, StopMonitor, MonitorExit, MonitorDrain, MonitorKeep,
                MonitorPutBack, CloseStop, CloseDone, vars
  <2> QED BY <2>1
<1>3. ASSUME NEW c, CloseConnection(c), UNCHANGED <<semVars, foreign, closed>>
      PROVE Counts'
  <2>1. /\ budgetUsed' - Cardinality(connections') = budgetUsed - Cardinality(connections)
        /\ budgetUsed' <= budgetUsed /\ budgetUsed' \in Int
        /\ Cardinality(connections') \in Nat
    BY <1>3, CloseCounts
  <2> QED BY <1>3, <2>1
<1>4. CASE MonitorReap \/ CloseOne
  BY <1>3, <1>4 DEF MonitorReap, CloseOne
<1>5. CASE MonitorPurge
  <2>1. CASE keep = <<>>
    BY <1>5, <2>1 DEF MonitorPurge
  <2>2. CASE keep # <<>>
    BY <1>3, <1>5, <2>2 DEF MonitorPurge
  <2> QED BY <2>1, <2>2
<1>6. CASE Close
  BY <1>6 DEF Close, WakePermits
<1>7. CASE ForeignAcquire \/ ForeignRelease
  BY <1>7 DEF ForeignAcquire, ForeignRelease
<1> QED BY <1>2, <1>4, <1>5, <1>6, <1>7 DEF MonitorStep, CloseStep

\* Places, hands and counters always agree.
LEMMA Invariant == Spec => []IInv
<1>1. Init => IInv
  BY InitShape, InitCounts DEF IInv
<1>2. ASSUME IInv, [Next]_vars PROVE IInv'
  <2>1. Shape /\ Counts
    BY <1>2 DEF IInv
  <2>2. CASE \E t \in Threads : \/ Acquire(t) \/ SemInterrupt(t) \/ AcquireStep(t)
                                \/ BudgetRaise(t) \/ Release(t) \/ ReleaseStep(t)
    BY <2>1, <2>2, BorrowerCounts, <1>2, NextShape DEF IInv
  <2>3. CASE \/ StartMonitor \/ StopMonitor \/ MonitorStep \/ Close \/ CloseStep
             \/ ForeignAcquire \/ ForeignRelease \/ UNCHANGED vars
    <3>1. UNCHANGED pc
      BY <2>3 DEF StartMonitor, StopMonitor, MonitorStep, MonitorExit, MonitorDrain,
                  MonitorKeep, MonitorReap, MonitorPutBack, MonitorPurge, Close, CloseStep,
                  CloseStop, CloseOne, CloseDone, ForeignAcquire, ForeignRelease,
                  borrowVars, vars
    <3> QED BY <2>1, <2>3, <3>1, OtherCounts, <1>2, NextShape DEF IInv
  <2> QED BY <1>2, <2>2, <2>3 DEF Next
<1> QED BY <1>1, <1>2, PTL DEF Spec

-----------------------------------------------------------------------------
\* Every value the pool computes has its type; in particular the budget never
\* goes below zero nor above its limit, and the waiter count not below zero.
THEOREM TypeCorrect == Spec => []TypeOK
<1>1. IInv => TypeOK
  <2> SUFFICES ASSUME IInv PROVE TypeOK
    OBVIOUS
  <2>1. /\ Cardinality(Waiting) \in Nat /\ Cardinality(connections) \in Nat
        /\ Cardinality(SlotInFlight) \in Nat
    BY Sizes DEF IInv
  <2>2. budgetUsed \in 0..BudgetMax /\ semWaiters \in Nat /\ permits \in Nat
    BY <2>1, PoolAssumption DEF IInv, Counts, BudgetExact, Shape, Types
  <2> QED BY <2>2 DEF IInv, Shape, Types, TypeOK
<1> QED BY <1>1, Invariant, PTL

\* No permit of an open pool is lost or minted, on whichever path acquire()
\* or release() ends.
THEOREM PermitsCorrect == Spec => []PermitsConserved
<1>1. IInv => PermitsConserved
  BY DEF IInv, Counts
<1> QED BY <1>1, Invariant, PTL

\* A budget slot for every tracked or nascent connection, and no other,
\* though release(), the monitor and close_all() may close the same one.
THEOREM BudgetCorrect == Spec => []BudgetExact
<1>1. IInv => BudgetExact
  BY DEF IInv, Counts
<1> QED BY <1>1, Invariant, PTL

\* A connection is never in two places, nor lent to two borrowers.
THEOREM OneOwner == Spec => []OnePlace
<1>1. IInv => OnePlace
  <2> SUFFICES ASSUME IInv PROVE OnePlace
    OBVIOUS
  <2> USE DEF IInv, Shape
  <2>1. free \in Seq(Conns) /\ snapshot \in Seq(Conns) /\ keep \in Seq(Conns)
    BY DEF Types
  <2>2. /\ free \o snapshot \in Seq(Conns) /\ IsInjective(free \o snapshot)
        /\ ToSet(free \o snapshot) = ToSet(free) \cup ToSet(snapshot)
    BY <2>1, Join DEF Exclusive
  <2>3. /\ IsInjective((free \o snapshot) \o keep)
        /\ ToSet((free \o snapshot) \o keep) = ToSet(free \o snapshot) \cup ToSet(keep)
    <3>1. ToSet(free \o snapshot) \cap ToSet(keep) = {} /\ IsInjective(keep)
      BY <2>2 DEF Exclusive
    <3> QED BY <2>1, <2>2, <3>1, Join
  <2>4. ToSet((free \o snapshot) \o keep) = InQueues
    BY <2>2, <2>3 DEF InQueues
  <2>5. ~closed => leased \subseteq connections
    BY DEF Tracked, HandPlaces
  <2> QED BY <2>3, <2>4, <2>5 DEF OnePlace, Exclusive
<1> QED BY <1>1, Invariant, PTL

\* Nothing enters a closed pool, and nothing of it is left when all have gone.
THEOREM ClosedCorrect == Spec => []ClosedIsEmpty
<1>1. IInv => ClosedIsEmpty
  <2> SUFFICES ASSUME IInv, closed PROVE ClosedIsEmpty
    BY DEF ClosedIsEmpty
  <2>1. free = <<>> /\ leased = {} /\ connections \subseteq toClose
    BY DEF IInv, Shape, Closing
  <2>2. ASSUME closer = "done", \A t \in Threads : pc[t] = "idle"
        PROVE  connections = {} /\ budgetUsed = foreign
    <3>1. connections = {} /\ SlotInFlight = {}
      BY <2>1, <2>2 DEF IInv, Shape, Closing, SlotInFlight
    <3> QED BY <3>1, FS_EmptySet DEF IInv, Counts, BudgetExact, Shape, Types
  <2> QED BY <2>1, <2>2 DEF ClosedIsEmpty
<1> QED BY <1>1, Invariant, PTL

\* close_all() issues enough permits to get every blocked thread out.
THEOREM WakeupsCorrect == Spec => []WakeupsSuffice
<1>1. IInv => WakeupsSuffice
  BY DEF IInv, Counts, Blocked, WakeupsSuffice
<1> QED BY <1>1, Invariant, PTL
=============================================================================

------------------------- MODULE SyncConnectionPool -------------------------
(***************************************************************************)
(* core/sync_connection_pool.py: threads borrow and return connections, a  *)
(* monitor thread reaps idle ones, one thread closes the pool.  Every      *)
(* block under _lock is one action; connecting, probing, disconnecting and *)
(* waiting happen between actions.                                         *)
(*                                                                         *)
(* The shared connection budget appears through what ConnectionBudget is   *)
(* shown to promise: acquire waits until a slot is free or the pool closes *)
(* or (if configured) a timeout strikes.  `foreign` is what other pools    *)
(* hold of it.  _close_connection's block and the budget release that      *)
(* follows it form one action: the slot is visible to nobody in between.   *)
(* Times and the metric counters are left out: whether a connection is     *)
(* alive and young enough (pool_policy.should_close, _check_connection) is *)
(* a choice made anew at every test.                                       *)
(***************************************************************************)
EXTENDS Integers, FiniteSets, Sequences, SequencesExt

CONSTANTS Threads,          \* borrowers
          Conns,            \* SSHClient objects; one nobody refers to is new again
          MaxConnections,   \* max_connections of this pool
          BudgetMax,        \* slots of the connection budget
          BudgetTimeout,    \* the budget has an acquire_timeout
          ForeignMax,       \* most slots other pools ever take (bound)
          HasMonitor,       \* start_monitor is called
          MayClose,         \* close_all is called
          None              \* no connection

ASSUME PoolAssumption ==
  /\ MaxConnections \in Nat \ {0} /\ BudgetMax \in Nat \ {0} /\ ForeignMax \in Nat
  /\ BudgetTimeout \in BOOLEAN /\ HasMonitor \in BOOLEAN /\ MayClose \in BOOLEAN
  /\ IsFiniteSet(Threads) /\ IsFiniteSet(Conns) /\ None \notin Conns

VARIABLES pc,            \* where each borrower is
          hand,          \* the connection it has in hand
          permits,       \* value of _semaphore
          semWaiters,    \* _acquire_waiters
          connections,   \* _connections, the connections tracked (and in _meta)
          free,          \* _free
          leased,        \* _leased
          closedLeases,  \* _closed_leases
          budgetUsed,    \* slots of the budget in use
          foreign,       \* ... of which other pools hold
          monitor,       \* where the monitor thread is
          snapshot,      \* connections _cleanup_expired drained, still to test
          keep,          \* ... tested and to be put back
          stop,          \* _stop_event
          closed,        \* _closed and _closed_event
          closer,        \* where close_all is
          toClose        \* connections close_all has still to close

borrowVars  == <<pc, hand>>
semVars     == <<permits, semWaiters>>
leaseVars   == <<leased, closedLeases>>
budgetVars  == <<budgetUsed, foreign>>
monitorVars == <<monitor, snapshot, keep>>
closeVars   == <<closed, closer, toClose>>
vars == <<borrowVars, semVars, connections, free, leaseVars, budgetVars,
          monitorVars, stop, closeVars>>

(***************************************************************************)
(* Places of a borrower.  acquire: "sem" blocked on the semaphore, "got"   *)
(* permit in hand but still counted as a waiter, "check" before the closed *)
(* test, "take" at the free queue, "probe", "claim", "discard" (close and  *)
(* look again), "reject" (close and raise), "create" in budget.acquire,    *)
(* "connect", "register", "lease", "undo" (give the budget slot back and   *)
(* raise), "fail" in the except block.  release: "relCheck", "relClose"    *)
(* (close, then return the permit), "relPermit", "relPut", "relClosed".    *)
(***************************************************************************)
AcquirePlaces == {"sem", "got", "check", "take", "probe", "claim", "discard", "reject",
                  "create", "connect", "register", "lease", "undo", "fail"}
ReleasePlaces == {"relCheck", "relClose", "relPermit", "relPut", "relClosed"}
Places == {"idle", "holding"} \cup AcquirePlaces \cup ReleasePlaces

Goto(t, place) == pc' = [pc EXCEPT ![t] = place]
Drop(t, place) == Goto(t, place) /\ hand' = [hand EXCEPT ![t] = None]
PickUp(t, c, place) == Goto(t, place) /\ hand' = [hand EXCEPT ![t] = c]

\* Objects somebody refers to.
Referenced == connections \cup ToSet(free) \cup leased \cup closedLeases
              \cup { hand[t] : t \in Threads } \cup ToSet(snapshot) \cup ToSet(keep)
              \cup toClose

\* Mutant: the budget slot is released whether or not the connection is tracked.
CloseConnection_Twice(c) ==
  /\ connections' = connections \ {c}
  /\ budgetUsed' = budgetUsed - 1

\* _close_connection: untrack; release the budget slot iff it was tracked.
CloseConnection(c) ==
  /\ connections' = connections \ {c}
  /\ budgetUsed' = IF c \in connections THEN budgetUsed - 1 ELSE budgetUsed

Init ==
  /\ pc = [t \in Threads |-> "idle"]
  /\ hand = [t \in Threads |-> None]
  /\ permits = MaxConnections /\ semWaiters = 0
  /\ connections = {} /\ free = <<>>
  /\ leased = {} /\ closedLeases = {}
  /\ budgetUsed = 0 /\ foreign = 0
  /\ monitor = "off" /\ snapshot = <<>> /\ keep = <<>>
  /\ stop = FALSE
  /\ closed = FALSE /\ closer = "idle" /\ toClose = {}

-----------------------------------------------------------------------------
(* acquire() *)

\* First block; a closed pool raises and nothing changes.
Acquire(t) ==
  /\ pc[t] = "idle"
  /\ ~closed
  /\ semWaiters' = semWaiters + 1
  /\ Goto(t, "sem")
  /\ UNCHANGED <<hand, permits, connections, free, leaseVars, budgetVars,
                 monitorVars, stop, closeVars>>

SemAcquire(t) ==
  /\ pc[t] = "sem"
  /\ permits > 0
  /\ permits' = permits - 1
  /\ Goto(t, "got")
  /\ UNCHANGED <<hand, semWaiters, connections, free, leaseVars, budgetVars,
                 monitorVars, stop, closeVars>>

\* KeyboardInterrupt out of _semaphore.acquire(): only the finally block runs.
SemInterrupt(t) ==
  /\ pc[t] = "sem"
  /\ semWaiters' = semWaiters - 1
  /\ Goto(t, "idle")
  /\ UNCHANGED <<hand, permits, connections, free, leaseVars, budgetVars,
                 monitorVars, stop, closeVars>>

\* The finally block after a successful acquire.
Uncount(t) ==
  /\ pc[t] = "got"
  /\ semWaiters' = semWaiters - 1
  /\ Goto(t, "check")
  /\ UNCHANGED <<hand, permits, connections, free, leaseVars, budgetVars,
                 monitorVars, stop, closeVars>>

\* A closed pool raises here without returning the permit.
CheckClosed(t) ==
  /\ pc[t] = "check"
  /\ Goto(t, IF closed THEN "idle" ELSE "take")
  /\ UNCHANGED <<hand, semVars, connections, free, leaseVars, budgetVars,
                 monitorVars, stop, closeVars>>

\* _free.get_nowait() under the lock.
TakeFree(t) ==
  /\ pc[t] = "take"
  /\ IF closed
     THEN Goto(t, "fail") /\ UNCHANGED <<hand, free>>
     ELSE IF free = <<>>
          THEN Goto(t, "create") /\ UNCHANGED <<hand, free>>
          ELSE PickUp(t, Head(free), "probe") /\ free' = Tail(free)
  /\ UNCHANGED <<semVars, connections, leaseVars, budgetVars, monitorVars, stop, closeVars>>

\* _check_connection: healthy, not healthy, or an exception.
Probe(t) ==
  /\ pc[t] = "probe"
  /\ \/ Goto(t, "claim") \/ Goto(t, "discard") \/ Goto(t, "reject")
  /\ UNCHANGED <<hand, semVars, connections, free, leaseVars, budgetVars,
                 monitorVars, stop, closeVars>>

\* A healthy connection is leased, unless the pool closed meanwhile.
Claim(t) ==
  /\ pc[t] = "claim"
  /\ IF closed
     THEN Goto(t, "reject") /\ UNCHANGED leased
     ELSE Goto(t, "holding") /\ leased' = leased \cup {hand[t]}
  /\ UNCHANGED <<hand, semVars, connections, free, closedLeases, budgetVars,
                 monitorVars, stop, closeVars>>

\* Close the connection in hand, then look at the queue again or raise.
Discard(t) ==
  /\ pc[t] \in {"discard", "reject"}
  /\ CloseConnection(hand[t])
  /\ Drop(t, IF pc[t] = "discard" THEN "take" ELSE "fail")
  /\ UNCHANGED <<semVars, free, leaseVars, foreign, monitorVars, stop, closeVars>>

\* _create_connection: budget.acquire(cancel_event) reserves a slot ...
BudgetAcquire(t) ==
  /\ pc[t] = "create"
  /\ ~closed
  /\ budgetUsed < BudgetMax
  /\ budgetUsed' = budgetUsed + 1
  /\ Goto(t, "connect")
  /\ UNCHANGED <<hand, semVars, connections, free, leaseVars, foreign,
                 monitorVars, stop, closeVars>>

\* ... or raises PoolClosedError or BudgetTimeoutError.
BudgetRaise(t) ==
  /\ pc[t] = "create"
  /\ closed \/ BudgetTimeout
  /\ Goto(t, "fail")
  /\ UNCHANGED <<hand, semVars, connections, free, leaseVars, budgetVars,
                 monitorVars, stop, closeVars>>

\* The close event is tested, then connect() succeeds on a new object or fails.
Connect(t) ==
  /\ pc[t] = "connect"
  /\ \/ ~closed /\ \E c \in Conns \ Referenced : PickUp(t, c, "register")
     \/ Goto(t, "undo") /\ UNCHANGED hand
  /\ UNCHANGED <<semVars, connections, free, leaseVars, budgetVars, monitorVars,
                 stop, closeVars>>

\* Mutant: a connection is registered although the pool closed during connect().
Register_NoRecheck(t) ==
  /\ pc[t] = "register"
  /\ Goto(t, "lease")
  /\ connections' = connections \cup {hand[t]}
  /\ UNCHANGED <<hand, semVars, free, leaseVars, budgetVars, monitorVars, stop, closeVars>>

\* Track the connection (it now owns the budget slot), unless the pool closed.
Register(t) ==
  /\ pc[t] = "register"
  /\ IF closed
     THEN Goto(t, "undo") /\ UNCHANGED connections
     ELSE Goto(t, "lease") /\ connections' = connections \cup {hand[t]}
  /\ UNCHANGED <<hand, semVars, free, leaseVars, budgetVars, monitorVars, stop, closeVars>>

\* The error path of _create_connection: disconnect, return the slot.
Undo(t) ==
  /\ pc[t] = "undo"
  /\ budgetUsed' = budgetUsed - 1
  /\ Drop(t, "fail")
  /\ UNCHANGED <<semVars, connections, free, leaseVars, foreign, monitorVars,
                 stop, closeVars>>

\* Back in acquire(): lease the new connection, if the pool is still open and
\* still tracks it (close_all closes it otherwise).
Lease(t) ==
  /\ pc[t] = "lease"
  /\ IF closed \/ hand[t] \notin connections
     THEN Drop(t, "fail") /\ UNCHANGED leased
     ELSE /\ Goto(t, "holding")
          /\ leased' = leased \cup {hand[t]}
          /\ UNCHANGED hand
  /\ UNCHANGED <<semVars, connections, free, closedLeases, budgetVars,
                 monitorVars, stop, closeVars>>

\* Mutant: the permit is lost when acquire() fails.
Fail_LosePermit(t) ==
  /\ pc[t] = "fail"
  /\ Goto(t, "idle")
  /\ UNCHANGED <<hand, permits, semWaiters, connections, free, leaseVars, budgetVars,
                 monitorVars, stop, closeVars>>

\* The except block of acquire(): return the permit of an open pool.
Fail(t) ==
  /\ pc[t] = "fail"
  /\ permits' = IF closed THEN permits ELSE permits + 1
  /\ Goto(t, "idle")
  /\ UNCHANGED <<hand, semWaiters, connections, free, leaseVars, budgetVars,
                 monitorVars, stop, closeVars>>

-----------------------------------------------------------------------------
(* release() *)

\* First block: end the lease, note whether the pool is closed.
Release(t) ==
  /\ pc[t] = "holding"
  /\ hand[t] \in leased \cup closedLeases
  /\ leased' = leased \ {hand[t]}
  /\ closedLeases' = IF hand[t] \in leased THEN closedLeases
                     ELSE closedLeases \ {hand[t]}
  /\ Goto(t, IF closed THEN "relClosed" ELSE "relCheck")
  /\ UNCHANGED <<hand, semVars, connections, free, budgetVars, monitorVars,
                 stop, closeVars>>

\* is_connected() and should_close: keep it, or close it (is_connected may
\* also raise, with the same effect).
ReleaseCheck(t) ==
  /\ pc[t] = "relCheck"
  /\ \/ Goto(t, "relPut") \/ Goto(t, "relClose")
  /\ UNCHANGED <<hand, semVars, connections, free, leaseVars, budgetVars,
                 monitorVars, stop, closeVars>>

\* Last block: back into the queue with its permit, unless the pool closed.
ReleasePut(t) ==
  /\ pc[t] = "relPut"
  /\ IF closed
     THEN Goto(t, "relClosed") /\ UNCHANGED <<hand, free, permits>>
     ELSE /\ free' = Append(free, hand[t])
          /\ permits' = permits + 1
          /\ Drop(t, "idle")
  /\ UNCHANGED <<semWaiters, connections, leaseVars, budgetVars, monitorVars,
                 stop, closeVars>>

\* _close_connection in release().
ReleaseClose(t) ==
  /\ pc[t] \in {"relClose", "relClosed"}
  /\ CloseConnection(hand[t])
  /\ Drop(t, IF pc[t] = "relClose" THEN "relPermit" ELSE "idle")
  /\ UNCHANGED <<semVars, free, leaseVars, foreign, monitorVars, stop, closeVars>>

\* The permit of a connection that was closed instead of kept.
ReleasePermit(t) ==
  /\ pc[t] = "relPermit"
  /\ permits' = IF closed THEN permits ELSE permits + 1
  /\ Goto(t, "idle")
  /\ UNCHANGED <<hand, semWaiters, connections, free, leaseVars, budgetVars,
                 monitorVars, stop, closeVars>>

-----------------------------------------------------------------------------
(* The monitor thread *)

StartMonitor ==
  /\ HasMonitor
  /\ ~closed
  /\ monitor = "off"
  /\ stop' = FALSE
  /\ monitor' = "wait"
  /\ UNCHANGED <<borrowVars, semVars, connections, free, leaseVars, budgetVars,
                 snapshot, keep, closeVars>>

\* stop_monitor() called by the pool's user; join() waits at most two seconds.
StopMonitor ==
  /\ monitor # "off"
  /\ ~stop
  /\ stop' = TRUE
  /\ UNCHANGED <<borrowVars, semVars, connections, free, leaseVars, budgetVars,
                 monitorVars, closeVars>>

MonitorExit ==
  /\ monitor = "wait"
  /\ stop
  /\ monitor' = "off"
  /\ UNCHANGED <<borrowVars, semVars, connections, free, leaseVars, budgetVars,
                 snapshot, keep, stop, closeVars>>

\* Mutant: the queue is copied instead of drained.
MonitorDrain_Copy ==
  /\ monitor = "wait"
  /\ ~stop
  /\ snapshot' = free
  /\ monitor' = "test"
  /\ UNCHANGED <<borrowVars, semVars, connections, free, leaseVars, budgetVars, keep,
                 stop, closeVars>>

\* _cleanup_expired: drain the free queue under the lock ...
MonitorDrain ==
  /\ monitor = "wait"
  /\ ~stop
  /\ snapshot' = free
  /\ free' = <<>>
  /\ monitor' = "test"
  /\ UNCHANGED <<borrowVars, semVars, connections, leaseVars, budgetVars, keep,
                 stop, closeVars>>

\* ... test each drained connection: keep it ...
MonitorKeep ==
  /\ monitor = "test"
  /\ snapshot # <<>>
  /\ snapshot' = Tail(snapshot)
  /\ keep' = Append(keep, Head(snapshot))
  /\ UNCHANGED <<borrowVars, semVars, connections, free, leaseVars, budgetVars,
                 monitor, stop, closeVars>>

\* ... or close it, if it is dead, too old or idle for too long ...
MonitorReap ==
  /\ monitor = "test"
  /\ snapshot # <<>>
  /\ snapshot' = Tail(snapshot)
  /\ CloseConnection(Head(snapshot))
  /\ UNCHANGED <<borrowVars, semVars, free, leaseVars, foreign, keep, monitor, stop,
                 closeVars>>

\* ... and put the survivors back, or close them too if the pool closed.
MonitorPutBack ==
  /\ monitor = "test"
  /\ snapshot = <<>>
  /\ IF closed
     THEN monitor' = "purge" /\ UNCHANGED <<free, keep>>
     ELSE free' = free \o keep /\ keep' = <<>> /\ monitor' = "wait"
  /\ UNCHANGED <<borrowVars, semVars, connections, leaseVars, budgetVars, snapshot,
                 stop, closeVars>>

MonitorPurge ==
  /\ monitor = "purge"
  /\ IF keep = <<>>
     THEN monitor' = "wait" /\ UNCHANGED <<keep, connections, budgetUsed>>
     ELSE CloseConnection(Head(keep)) /\ keep' = Tail(keep) /\ UNCHANGED monitor
  /\ UNCHANGED <<borrowVars, semVars, free, leaseVars, foreign, snapshot, stop, closeVars>>

-----------------------------------------------------------------------------
(* close_all() and the other users of the budget *)

\* Mutant: no permits are issued to wake the registered waiters.
WakePermits_None == permits

\* One permit per registered semaphore waiter, so that each can wake and leave.
WakePermits == permits + semWaiters

\* The block of close_all.
Close ==
  /\ MayClose
  /\ closer = "idle"
  /\ closed' = TRUE
  /\ permits' = WakePermits
  /\ closedLeases' = closedLeases \cup leased
  /\ leased' = {}
  /\ free' = <<>>
  /\ toClose' = connections
  /\ closer' = "stop"
  /\ UNCHANGED <<borrowVars, semWaiters, connections, budgetVars, monitorVars, stop>>

\* budget._notify_waiters(), then stop_monitor() with its bounded join.
CloseStop ==
  /\ closer = "stop"
  /\ stop' = TRUE
  /\ closer' = "closing"
  /\ UNCHANGED <<borrowVars, semVars, connections, free, leaseVars, budgetVars,
                 monitorVars, closed, toClose>>

CloseOne ==
  /\ closer = "closing"
  /\ \E c \in toClose : CloseConnection(c) /\ toClose' = toClose \ {c}
  /\ UNCHANGED <<borrowVars, semVars, free, leaseVars, foreign, monitorVars, stop,
                 closed, closer>>

CloseDone ==
  /\ closer = "closing"
  /\ toClose = {}
  /\ closer' = "done"
  /\ UNCHANGED <<borrowVars, semVars, connections, free, leaseVars, budgetVars,
                 monitorVars, stop, closed, toClose>>

ForeignAcquire ==
  /\ foreign < ForeignMax
  /\ budgetUsed < BudgetMax
  /\ budgetUsed' = budgetUsed + 1 /\ foreign' = foreign + 1
  /\ UNCHANGED <<borrowVars, semVars, connections, free, leaseVars, monitorVars,
                 stop, closeVars>>

ForeignRelease ==
  /\ foreign > 0
  /\ budgetUsed' = budgetUsed - 1 /\ foreign' = foreign - 1
  /\ UNCHANGED <<borrowVars, semVars, connections, free, leaseVars, monitorVars,
                 stop, closeVars>>

-----------------------------------------------------------------------------
\* What a borrower does inside acquire() and release() once it has called.
AcquireStep(t) ==
  \/ SemAcquire(t) \/ Uncount(t) \/ CheckClosed(t) \/ TakeFree(t) \/ Probe(t)
  \/ Claim(t) \/ Discard(t) \/ BudgetAcquire(t) \/ Connect(t) \/ Register(t)
  \/ Undo(t) \/ Lease(t) \/ Fail(t)

ReleaseStep(t) ==
  \/ ReleaseCheck(t) \/ ReleasePut(t) \/ ReleaseClose(t) \/ ReleasePermit(t)

MonitorStep ==
  \/ MonitorExit \/ MonitorDrain \/ MonitorKeep \/ MonitorReap \/ MonitorPutBack \/ MonitorPurge

CloseStep == CloseStop \/ CloseOne \/ CloseDone

Next ==
  \/ \E t \in Threads : \/ Acquire(t) \/ SemInterrupt(t) \/ AcquireStep(t)
                        \/ BudgetRaise(t) \/ Release(t) \/ ReleaseStep(t)
  \/ StartMonitor \/ StopMonitor \/ MonitorStep
  \/ Close \/ CloseStep
  \/ ForeignAcquire \/ ForeignRelease

Spec == Init /\ [][Next]_vars

-----------------------------------------------------------------------------
(* Properties *)

\* The types of the variables, from which the proofs about the pool start.
TypeOK ==
  /\ pc \in [Threads -> Places]
  /\ hand \in [Threads -> Conns \cup {None}]
  /\ permits \in Nat /\ semWaiters \in Nat
  /\ connections \subseteq Conns
  /\ free \in Seq(Conns) /\ snapshot \in Seq(Conns) /\ keep \in Seq(Conns)
  /\ leased \subseteq Conns /\ closedLeases \subseteq Conns
  /\ budgetUsed \in 0..BudgetMax /\ foreign \in Nat
  /\ monitor \in {"off", "wait", "test", "purge"}
  /\ stop \in BOOLEAN /\ closed \in BOOLEAN
  /\ closer \in {"idle", "stop", "closing", "done"}
  /\ toClose \subseteq Conns

\* Threads that owe the semaphore a permit.
PermitOwers == { t \in Threads : pc[t] \notin {"idle", "sem", "relClosed"} }

\* No permit is lost or minted while the pool is open, whatever fails on the
\* way: the semaphore value and the permits in use add up to max_connections.
PermitsConserved ==
  ~closed => permits + Cardinality(PermitOwers) = MaxConnections

\* Threads whose budget slot is not yet, or no longer to be, a connection's.
SlotInFlight == { t \in Threads : pc[t] \in {"connect", "register", "undo"} }

\* Exactly-once budget: every tracked connection and every connection being
\* built holds one slot, and nothing else does, although release, the monitor
\* and close_all may close the same connection.
BudgetExact ==
  budgetUsed = Cardinality(connections) + Cardinality(SlotInFlight) + foreign

\* A connection is in one place only: in the queue, in one borrower's hand, or
\* with the monitor, and at most once, so two borrowers never share one; and
\* while the pool is open nobody closes a connection that is lent.
OnePlace ==
  LET held == { t \in Threads : hand[t] # None }
  IN /\ IsInjective(free \o snapshot \o keep)
     /\ \A t \in held : hand[t] \notin ToSet(free \o snapshot \o keep)
     /\ \A t, u \in held : hand[t] = hand[u] => t = u
     /\ ~closed => leased \subseteq connections

\* Nothing enters a closed pool's queue, and when everybody has left, no
\* connection and no budget slot of the pool is left behind.
ClosedIsEmpty ==
  closed => /\ free = <<>> /\ leased = {}
            /\ (closer = "done" /\ monitor \in {"off", "wait"}
                /\ \A t \in Threads : pc[t] = "idle")
                 => connections = {} /\ budgetUsed = foreign

\* "The total of connections strictly never exceeds max_connections": a
\* connection is opened only with a permit and when the queue, which should
\* hold every connection not lent, is empty.
NoOvershoot == Cardinality(connections) <= MaxConnections

\* Closing gets every thread out of acquire() though nobody returns a
\* connection ("without requiring an active release"): the permits close_all
\* issues cover every thread still blocked on the semaphore, since nobody who
\* is no longer counted as a waiter takes one.
WakeupsSuffice ==
  closed => permits >= Cardinality({ t \in Threads : pc[t] = "sem" })
=============================================================================

-------------------------- MODULE ConnectionBudget --------------------------
(***************************************************************************)
(* core/budget.py: the connection budget shared by synchronous threads and *)
(* asyncio tasks.  A client is a thread or a task that takes one slot at a *)
(* time; it stands for its _BudgetWaiter record while it waits.  Every     *)
(* `with self._cond` block is one action; everything a client does outside *)
(* the lock (sleeping in cond.wait, awaiting its future, the event loop    *)
(* running a callback, a pool setting its close event) interleaves.        *)
(* The metric counters (total_acquired, total_released, total_timeouts)    *)
(* never influence control and are left out.                               *)
(***************************************************************************)
EXTENDS Integers, FiniteSets, Sequences, SequencesExt

CONSTANTS Sync,         \* threads calling acquire()
          Async,        \* tasks calling acquire_async()
          Pools,        \* pools whose close event may be passed as cancel_event
          NoPool,       \* cancel_event=None
          PoolOf,       \* the pool a client acquires for
          MaxConnections, \* max_connections
          HasTimeout,   \* acquire_timeout is not None
          AbruptLoops   \* tasks whose event loop may be closed under them

Clients == Sync \cup Async

ASSUME ClientsAssumption ==
  /\ Sync \cap Async = {}
  /\ IsFiniteSet(Sync) /\ IsFiniteSet(Async)
  /\ AbruptLoops \subseteq Async

ASSUME PoolAssumption ==
  /\ NoPool \notin Pools
  /\ PoolOf \in [Clients -> Pools \cup {NoPool}]

ASSUME MaxAssumption == MaxConnections \in Nat \ {0}

ASSUME TimeoutAssumption == HasTimeout \in BOOLEAN

VARIABLES pc,        \* where each client is
          inUse,     \* _in_use
          waiters,   \* _waiters, the FIFO deque
          granted,   \* clients whose waiter record has granted = True
          future,    \* state of each task's asyncio.Future
          asleep,    \* threads in the wait set of _cond
          closed,    \* pools whose close event is set
          notified   \* pools that have called _notify_waiters

vars == <<pc, inUse, waiters, granted, future, asleep, closed, notified>>

(***************************************************************************)
(* pc: "waiting" is a thread inside the wait loop or a task at its await,  *)
(* "resuming" a task granted at once and between its two locked blocks,    *)
(* "aborting" a task whose await raised TimeoutError or CancelledError and *)
(* whose handler has not run, "dead" a task whose loop was closed.         *)
(* future: "scheduled" is _resolve_waiter queued with call_soon_threadsafe.*)
(***************************************************************************)
PcStates == {"idle", "waiting", "resuming", "aborting", "holding", "dead"}
FutureStates == {"none", "pending", "scheduled", "done"}

Holding == { c \in Clients : pc[c] = "holding" }

\* The clients a unit of _in_use stands for.
Owners == granted \cup Holding

\* cancel_event is not None and cancel_event.is_set()
Cancelled(c) == PoolOf[c] \in closed

\* A thread has no future to set.
SetFuture(c, state) == [a \in Async |-> IF a = c THEN state ELSE future[a]]

\* _schedule_async_waiter_locked would return True.
Schedulable(c, fut) == fut[c] \in {"pending", "scheduled"} /\ pc[c] # "dead"

\* The dispatcher reserves a slot for this waiter instead of dropping it.
Grantable(c, fut) == ~Cancelled(c) /\ (c \in Async => Schedulable(c, fut))

GrantableIn(q, n, fut) == { c \in { q[i] : i \in 1..n } : Grantable(c, fut) }

\* `while self._in_use < self._max and self._waiters` ends after n pops.
LoopExits(u, q, n, fut) ==
  n = Len(q) \/ u + Cardinality(GrantableIn(q, n, fut)) >= MaxConnections

\* Mutant: the grant is not announced.
NotifyAll_Missing(popped, sleepers) == sleepers

\* cond.notify_all(), called for each popped thread: it was granted, or it must
\* see its cancel event.
NotifyAll(popped, sleepers) == IF popped \cap Sync # {} THEN {} ELSE sleepers

(***************************************************************************)
(* _dispatch_waiters_locked, started with the values its caller's earlier  *)
(* statements left: it pops the shortest prefix after which the loop ends, *)
(* and schedules the future of every popped task it can.                   *)
(***************************************************************************)
Dispatch(u, q, gr, fut, sleepers) ==
  \E n \in 0..Len(q) :
    LET popped == { q[i] : i \in 1..n }
        given  == GrantableIn(q, n, fut)
    IN /\ LoopExits(u, q, n, fut)
       /\ \A m \in 0..(n - 1) : ~LoopExits(u, q, m, fut)
       /\ inUse' = u + Cardinality(given)
       /\ waiters' = SubSeq(q, n + 1, Len(q))
       /\ granted' = gr \cup given
       /\ future' = [c \in Async |-> IF c \in popped /\ Schedulable(c, fut)
                                     THEN "scheduled" ELSE fut[c]]
       /\ asleep' = NotifyAll(popped, sleepers)

\* Mutant: a reserved slot is not given back.
CancelledCount_Leak(c) == inUse

\* _in_use after _cancel_waiter_locked.
CancelledCount(c) == IF c \in granted THEN inUse - 1 ELSE inUse

\* Mutant: the record stays in the deque.
CancelledQueue_Keep(c) == waiters

\* _waiters after _cancel_waiter_locked.
CancelledQueue(c) == RemoveFirst(waiters, c)

\* Mutant: a withdrawn reservation is not handed on.
Withdraw_NoDispatch(c) ==
  /\ pc' = [pc EXCEPT ![c] = "idle"]
  /\ inUse' = CancelledCount(c)
  /\ waiters' = CancelledQueue(c)
  /\ granted' = granted \ {c}
  /\ future' = SetFuture(c, "none")
  /\ asleep' = asleep \ {c}
  /\ UNCHANGED <<closed, notified>>

\* _cancel_waiter_locked followed by _dispatch_waiters_locked: every way out
\* of acquire / acquire_async that raises.
Withdraw(c) ==
  /\ pc' = [pc EXCEPT ![c] = "idle"]
  /\ Dispatch(CancelledCount(c), CancelledQueue(c), granted \ {c},
              SetFuture(c, "none"), asleep \ {c})
  /\ UNCHANGED <<closed, notified>>

-----------------------------------------------------------------------------
Init ==
  /\ pc = [c \in Clients |-> "idle"]
  /\ inUse = 0
  /\ waiters = <<>>
  /\ granted = {}
  /\ future = [c \in Async |-> "none"]
  /\ asleep = {}
  /\ closed = {}
  /\ notified = {}

\* Mutant: the budget is one slot too large for newcomers.
AcquireFast_OffByOne(c) ==
  /\ pc[c] = "idle"
  /\ ~Cancelled(c)
  /\ inUse <= MaxConnections /\ waiters = <<>>
  /\ inUse' = inUse + 1
  /\ pc' = [pc EXCEPT ![c] = "holding"]
  /\ UNCHANGED <<waiters, granted, future, asleep, closed, notified>>

\* First locked block with capacity and nobody in line: _reserve_slot_locked.
AcquireFast(c) ==
  /\ pc[c] = "idle"
  /\ ~Cancelled(c)
  /\ inUse < MaxConnections /\ waiters = <<>>
  /\ inUse' = inUse + 1
  /\ pc' = [pc EXCEPT ![c] = "holding"]
  /\ UNCHANGED <<waiters, granted, future, asleep, closed, notified>>

\* Mutant: appendleft instead of append.
AcquireSlow_AtHead(c) ==
  /\ pc[c] = "idle"
  /\ ~Cancelled(c)
  /\ ~(inUse < MaxConnections /\ waiters = <<>>)
  /\ Dispatch(inUse, <<c>> \o waiters, granted,
              SetFuture(c, "pending"), asleep \cup ({c} \cap Sync))
  /\ pc' = [pc EXCEPT ![c] = IF c \in Async /\ c \in granted'
                             THEN "resuming" ELSE "waiting"]
  /\ UNCHANGED <<closed, notified>>

\* First locked block otherwise: append a waiter and dispatch.
AcquireSlow(c) ==
  /\ pc[c] = "idle"
  /\ ~Cancelled(c)
  /\ ~(inUse < MaxConnections /\ waiters = <<>>)
  /\ Dispatch(inUse, Append(waiters, c), granted,
              SetFuture(c, "pending"), asleep \cup ({c} \cap Sync))
  /\ pc' = [pc EXCEPT ![c] = IF c \in Async /\ c \in granted'
                             THEN "resuming" ELSE "waiting"]
  /\ UNCHANGED <<closed, notified>>

\* acquire() returns: the loop saw granted, the cancel event is not set.
SyncReturn(t) ==
  /\ pc[t] = "waiting"
  /\ t \notin asleep \/ HasTimeout
  /\ t \in granted /\ ~Cancelled(t)
  /\ pc' = [pc EXCEPT ![t] = "holding"]
  /\ granted' = granted \ {t}
  /\ asleep' = asleep \ {t}
  /\ UNCHANGED <<inUse, waiters, future, closed, notified>>

\* acquire() raises PoolClosedError, inside the loop or after the grant.
SyncClosed(t) ==
  /\ pc[t] = "waiting"
  /\ t \notin asleep \/ HasTimeout
  /\ Cancelled(t)
  /\ Withdraw(t)

\* acquire() raises BudgetTimeoutError: the deadline passed and the waiter
\* is neither granted nor cancelled when the loop looks again.
SyncTimeout(t) ==
  /\ pc[t] = "waiting"
  /\ HasTimeout
  /\ t \notin granted /\ ~Cancelled(t)
  /\ Withdraw(t)

\* KeyboardInterrupt (any BaseException) out of cond.wait.
SyncInterrupt(t) ==
  /\ pc[t] = "waiting"
  /\ Withdraw(t)

\* A notified thread finds nothing changed for it and waits again.
SyncWaitAgain(t) ==
  /\ pc[t] = "waiting"
  /\ t \notin asleep
  /\ t \notin granted /\ ~Cancelled(t)
  /\ asleep' = asleep \cup {t}
  /\ UNCHANGED <<pc, inUse, waiters, granted, future, closed, notified>>

\* The event loop runs _resolve_waiter.
ResolveWaiter(c) ==
  /\ future[c] = "scheduled"
  /\ pc[c] # "dead"
  /\ future' = SetFuture(c, "done")
  /\ UNCHANGED <<pc, inUse, waiters, granted, asleep, closed, notified>>

\* The task has passed its await and is about to run the last locked block.
PastAwait(c) == pc[c] = "resuming" \/ (pc[c] = "waiting" /\ future[c] = "done")

\* acquire_async() returns with a reserved slot.
AsyncReturn(c) ==
  /\ PastAwait(c)
  /\ c \in granted /\ ~Cancelled(c)
  /\ pc' = [pc EXCEPT ![c] = "holding"]
  /\ granted' = granted \ {c}
  /\ future' = SetFuture(c, "none")
  /\ UNCHANGED <<inUse, waiters, asleep, closed, notified>>

\* acquire_async() raises in its last block: PoolClosedError, or the
\* RuntimeError for a wake-up without a reserved slot.
AsyncRaise(c) ==
  /\ PastAwait(c)
  /\ Cancelled(c) \/ c \notin granted
  /\ Withdraw(c)

\* The await raises: wait_for's timer or task.cancel().  The future is done
\* from here on; the handler runs in a later step of the loop.
AsyncAbort(c) ==
  /\ pc[c] = "waiting"
  /\ pc' = [pc EXCEPT ![c] = "aborting"]
  /\ future' = SetFuture(c, "done")
  /\ UNCHANGED <<inUse, waiters, granted, asleep, closed, notified>>

\* The handler of TimeoutError / CancelledError.
AsyncAbortHandler(c) ==
  /\ pc[c] = "aborting"
  /\ Withdraw(c)

\* The task's event loop is closed without cancelling the task first.
LoopClose(c) ==
  /\ c \in AbruptLoops
  /\ pc[c] \in {"waiting", "aborting"}
  /\ pc' = [pc EXCEPT ![c] = "dead"]
  /\ UNCHANGED <<inUse, waiters, granted, future, asleep, closed, notified>>

\* release(): in_use was positive, hand the slot on.
Release(c) ==
  /\ pc[c] = "holding"
  /\ inUse > 0
  /\ pc' = [pc EXCEPT ![c] = "idle"]
  /\ Dispatch(inUse - 1, waiters, granted, future, asleep)
  /\ UNCHANGED <<closed, notified>>

\* close_all() of a pool sets its close event, under the pool's own lock.
ClosePool(p) ==
  /\ p \notin closed
  /\ closed' = closed \cup {p}
  /\ UNCHANGED <<pc, inUse, waiters, granted, future, asleep, notified>>

\* The queued tasks _notify_waiters selects by their cancel event.
ClosedTasks == { c \in ToSet(waiters) \cap Async : Cancelled(c) }

\* Mutant: threads are not notified.
NotifyWaiters_TasksOnly(p) ==
  /\ p \in closed \ notified
  /\ notified' = notified \cup {p}
  /\ future' = [c \in Async |-> IF c \in ClosedTasks /\ Schedulable(c, future)
                                THEN "scheduled" ELSE future[c]]
  /\ UNCHANGED <<pc, inUse, waiters, granted, closed, asleep>>

\* ... and then calls _notify_waiters(): wake everybody, leave the queue.
NotifyWaiters(p) ==
  /\ p \in closed \ notified
  /\ notified' = notified \cup {p}
  /\ asleep' = {}
  /\ future' = [c \in Async |-> IF c \in ClosedTasks /\ Schedulable(c, future)
                                THEN "scheduled" ELSE future[c]]
  /\ UNCHANGED <<pc, inUse, waiters, granted, closed>>

SyncStep(t) == \/ SyncReturn(t) \/ SyncClosed(t) \/ SyncTimeout(t)
               \/ SyncInterrupt(t) \/ SyncWaitAgain(t)

AsyncStep(c) == \/ ResolveWaiter(c) \/ AsyncReturn(c) \/ AsyncRaise(c)
                \/ AsyncAbort(c) \/ AsyncAbortHandler(c) \/ LoopClose(c)

Next == \/ \E c \in Clients : AcquireFast(c) \/ AcquireSlow(c) \/ Release(c)
        \/ \E t \in Sync : SyncStep(t)
        \/ \E c \in Async : AsyncStep(c)
        \/ \E p \in Pools : ClosePool(p) \/ NotifyWaiters(p)

Spec == Init /\ [][Next]_vars

(***************************************************************************)
(* Fairness: runnable threads and loop callbacks are scheduled, and        *)
(* close_all reaches its next statement.  Nothing is assumed about         *)
(* releases, new arrivals, timeouts, interrupts, cancellations or closing: *)
(* a sleeping thread goes on only if it is notified.                       *)
(***************************************************************************)
Fairness ==
  /\ \A t \in Sync : /\ WF_vars(t \notin asleep /\ SyncReturn(t))
                     /\ WF_vars(t \notin asleep /\ SyncClosed(t))
                     /\ WF_vars(SyncWaitAgain(t))
  /\ \A c \in Async : WF_vars(ResolveWaiter(c)) /\ WF_vars(AsyncReturn(c))
                      /\ WF_vars(AsyncRaise(c)) /\ WF_vars(AsyncAbortHandler(c))
  /\ \A p \in Pools : WF_vars(NotifyWaiters(p))

FairSpec == Spec /\ Fairness

\* A caller of acquire releases in the end (acquire_context, _close_connection).
OwnersRelease == \A c \in Clients : WF_vars(Release(c))

-----------------------------------------------------------------------------
(* Properties *)

\* The types of the eight variables.
TypeOK ==
  /\ pc \in [Clients -> PcStates]
  /\ inUse \in 0..MaxConnections
  /\ waiters \in Seq(Clients)
  /\ granted \subseteq Clients
  /\ future \in [Async -> FutureStates]
  /\ asleep \subseteq Sync
  /\ closed \subseteq Pools
  /\ notified \subseteq closed

\* The slot count is exact and bounded: _in_use is the number of clients that
\* hold a slot or have one reserved, whatever mix of timeouts, cancellations,
\* interrupts and pool closings got there; so no slot leaks, none is handed
\* out twice, and release() never raises its ValueError at a holder.
ExactAccounting ==
  /\ granted \cap Holding = {}
  /\ inUse = Cardinality(Owners)
  /\ inUse <= MaxConnections

\* Work conservation: nobody stands in the deque while a slot is free, since
\* every block that frees capacity or leaves the line dispatches before it
\* unlocks.
NoIdleCapacity == waiters # <<>> => inUse = MaxConnections

\* The deque holds each waiting client once and only clients still inside
\* acquire / acquire_async that own nothing: a grant, a timeout, a cancel or
\* a close never leaves a stale record behind for the dispatcher.
QueueIsClean ==
  /\ IsInjective(waiters)
  /\ \A c \in ToSet(waiters) : /\ pc[c] \in {"waiting", "aborting", "dead"}
                               /\ c \notin granted

\* No lost and no idle wake-up: a waiter with a reserved slot, one whose pool
\* has closed and notified, and one the dispatcher dropped from the line is
\* awake or has its future on the way; and past its await a task has a slot or
\* a closed pool, so the RuntimeError at the end of acquire_async ("woke
\* without a reserved slot") is unreachable.
NoLostWakeup ==
  /\ \A c \in Clients :
       (/\ pc[c] = "waiting"
        /\ \/ c \in granted
           \/ PoolOf[c] \in notified
           \/ c \notin ToSet(waiters))
         => IF c \in Sync THEN c \notin asleep ELSE future[c] \in {"scheduled", "done"}
  /\ \A c \in Async : PastAwait(c) => c \in granted \/ Cancelled(c)

\* Seen through its live waiters (those the dispatcher would serve), the budget
\* is a fair semaphore: each locked block is one handoff in arrival order.
LiveWaiters == { c \in ToSet(waiters) : Grantable(c, future) }
Precedes(q, c, d) == \E i, j \in 1..Len(q) : i < j /\ q[i] = c /\ q[j] = d
Ahead == [c \in LiveWaiters |-> { d \in LiveWaiters : Precedes(waiters, d, c) }]
Semaphore == INSTANCE FairSemaphore WITH owners <- Owners, ahead <- Ahead
IsFairSemaphore == Semaphore!SemSpec

\* Nobody waits for ever.  If owners release and no event loop is closed under a
\* waiting task, every waiter leaves acquire in the end, although new clients
\* keep arriving; and closing a pool gets its waiters out even if nobody
\* releases a slot.
EveryWaiterIsServed ==
  /\ OwnersRelease /\ [](\A c \in Async : pc[c] # "dead")
       => \A c \in Clients : pc[c] = "waiting" ~> pc[c] # "waiting"
  /\ \A c \in Clients : Cancelled(c) /\ pc[c] = "waiting" ~> pc[c] # "waiting"
=============================================================================

------------------------ MODULE AsyncConnectionPool ------------------------
(***************************************************************************)
(* core/async_connection_pool.py: tasks of one event loop borrow and       *)
(* return connections, a monitor task reaps idle ones, tasks close the     *)
(* pool.  A step is the stretch of one task between two suspension points, *)
(* so no lock is modelled; instead every await may raise CancelledError,   *)
(* those of the recovery task included, and is_connected() may raise.      *)
(*                                                                         *)
(* The connection budget appears through what ConnectionBudget promises,   *)
(* and `foreign` is what other pools hold of it.  _close_connection is two *)
(* stretches: BeginClose untracks the connection, and when disconnect()    *)
(* returns or is cancelled EndClose gives the slot back.  `owes` holds the *)
(* tasks that have a slot which is not, or no longer, a tracked            *)
(* connection's.  Times and metrics are left out: whether a connection is  *)
(* dead, too old or in need of a probe is a choice made at every test.     *)
(* asyncio.Semaphore is a counter from which any waiter may take.          *)
(***************************************************************************)
EXTENDS Integers, FiniteSets, Sequences, SequencesExt

CONSTANTS Tasks,            \* borrowers
          Closers,          \* tasks that call close_all
          Monitor,          \* the task _monitor_task
          Recovery,         \* the task _close_task, running _finish_close_all
          Conns,            \* AsyncSSHClient objects; one nobody refers to is new again
          MaxConnections,   \* max_connections of this pool
          BudgetMax,        \* slots of the connection budget
          ForeignMax,       \* most slots other pools ever take (bound)
          None              \* no connection

Callers == Tasks \cup Closers \cup {Monitor, Recovery}

ASSUME AsyncPoolAssumption ==
  /\ MaxConnections \in Nat \ {0} /\ BudgetMax \in Nat \ {0} /\ ForeignMax \in Nat
  /\ IsFiniteSet(Tasks) /\ IsFiniteSet(Closers) /\ IsFiniteSet(Conns) /\ None \notin Conns
  /\ Tasks \cap Closers = {} /\ {Monitor, Recovery} \cap (Tasks \cup Closers) = {}
  /\ Monitor # Recovery

VARIABLES pc,            \* where each caller is suspended
          hand,          \* the connection it works on
          owes,          \* the callers that have to give a budget slot back
          permits,       \* value of _semaphore
          lost,          \* history: permits release() never returned
          connections,   \* _connections, the connections tracked (and in _meta)
          free,          \* _free
          leased,        \* _leased
          closedLeases,  \* _closed_leases
          budgetUsed,    \* slots of the budget in use
          foreign,       \* ... of which other pools hold
          snapshot,      \* connections _cleanup_expired drained, still to test
          keep,          \* ... tested and to be put back
          cancelled,     \* the monitor task has a cancellation pending
          closed,        \* _closed and _closed_event
          finished,      \* _close_finished
          toClose        \* connections close_all has still to close

workVars  == <<pc, hand, owes>>
semVars   == <<permits, lost>>
leaseVars == <<leased, closedLeases>>
monVars   == <<snapshot, keep, cancelled>>
closeVars == <<closed, finished, toClose>>
vars == <<workVars, semVars, connections, free, leaseVars, budgetUsed, foreign,
          monVars, closeVars>>

(***************************************************************************)
(* Suspension points.  acquire: "sem", "probe", "discard" (disconnecting,  *)
(* then look again), "reject" (disconnecting, then raise), "budget",       *)
(* "connect", "undo" (shielded disconnect, then raise).  release:          *)
(* "relClose" (disconnecting, the permit returned by a finally),           *)
(* "relBroken" (the same after is_connected() raised, without a finally),  *)
(* "relClosed".  Monitor: "off" (no task, or done), "sleep", "reap".       *)
(* close_all: "join" (awaiting the monitor), "closing", "shield" (awaiting *)
(* the recovery task), "wait" (a later caller), "returned", "raised"       *)
(* (CancelledError).  The recovery task ends "done" or cancelled, "dead".  *)
(***************************************************************************)
AcquirePlaces == {"sem", "probe", "discard", "reject", "budget", "connect", "undo"}

Goto(a, place) == pc' = [pc EXCEPT ![a] = place]
Drop(a, place) == Goto(a, place) /\ hand' = [hand EXCEPT ![a] = None]
PickUp(a, c, place) == Goto(a, place) /\ hand' = [hand EXCEPT ![a] = c]

\* Objects somebody refers to.
Referenced == connections \cup ToSet(free \o snapshot \o keep) \cup leased \cup closedLeases
              \cup { hand[a] : a \in Callers } \cup toClose

\* The tasks _acquire_waiters counts.
AcquireWaiters == { t \in Tasks : pc[t] = "sem" }

\* Mutant: the slot is owed whether or not the connection is tracked.
BeginClose_Twice(a, c) ==
  /\ connections' = connections \ {c}
  /\ leased' = leased \ {c}
  /\ owes' = owes \cup {a}

\* _close_connection up to its await: untrack, and note whether it was tracked.
BeginClose(a, c) ==
  /\ connections' = connections \ {c}
  /\ leased' = leased \ {c}
  /\ owes' = IF c \in connections THEN owes \cup {a} ELSE owes \ {a}

\* ... and after it, whether disconnect() returned, raised or was cancelled.
SlotsAfterClose(a) == IF a \in owes THEN budgetUsed - 1 ELSE budgetUsed

EndClose(a) == budgetUsed' = SlotsAfterClose(a) /\ owes' = owes \ {a}

Init ==
  /\ pc = [a \in Callers |-> CASE a = Monitor -> "off" [] a = Recovery -> "none"
                               [] OTHER -> "idle"]
  /\ hand = [a \in Callers |-> None] /\ owes = {}
  /\ permits = MaxConnections /\ lost = 0
  /\ connections = {} /\ free = <<>> /\ leased = {} /\ closedLeases = {}
  /\ budgetUsed = 0 /\ foreign = 0
  /\ snapshot = <<>> /\ keep = <<>> /\ cancelled = FALSE
  /\ closed = FALSE /\ finished = FALSE /\ toClose = {}

-----------------------------------------------------------------------------
(* acquire() *)

\* The loop of acquire() in an open pool: nothing idle, go and create one; or
\* take the oldest idle connection, which is trusted and leased at once, to be
\* probed, or closed because it is dead or too old or is_connected() raises.
TakeFree(t) ==
  IF free = <<>>
  THEN Drop(t, "budget") /\ owes' = owes \ {t} /\ UNCHANGED <<free, connections, leased>>
  ELSE LET c == Head(free)
       IN /\ free' = Tail(free)
          /\ \/ /\ PickUp(t, c, "holding")
                /\ leased' = leased \cup {c}
                /\ owes' = owes \ {t} /\ UNCHANGED connections
             \/ /\ PickUp(t, c, "probe")
                /\ owes' = owes \ {t} /\ UNCHANGED <<leased, connections>>
             \/ /\ PickUp(t, c, "discard") \/ PickUp(t, c, "reject")
                /\ BeginClose(t, c)

\* Mutant: the permit is lost when acquire() raises.
ReturnedPermit_Lost == permits

\* The except block of acquire() returns the permit of an open pool.
ReturnedPermit == IF closed THEN permits ELSE permits + 1

\* A closed pool raises at once; otherwise take a permit or queue for one.
Acquire(t) ==
  /\ pc[t] = "idle"
  /\ ~closed
  /\ IF permits > 0
     THEN permits' = permits - 1 /\ TakeFree(t)
     ELSE Goto(t, "sem") /\ UNCHANGED <<permits, hand, owes, free, connections, leased>>
  /\ UNCHANGED <<lost, closedLeases, budgetUsed, foreign, monVars, closeVars>>

\* The semaphore lets the task through; a pool closed meanwhile keeps the permit.
SemAcquired(t) ==
  /\ pc[t] = "sem"
  /\ permits > 0
  /\ permits' = permits - 1
  /\ IF closed
     THEN Goto(t, "idle") /\ UNCHANGED <<hand, owes, free, connections, leased>>
     ELSE TakeFree(t)
  /\ UNCHANGED <<lost, closedLeases, budgetUsed, foreign, monVars, closeVars>>

SemCancelled(t) ==
  /\ pc[t] = "sem"
  /\ Goto(t, "idle")
  /\ UNCHANGED <<hand, owes, semVars, connections, free, leaseVars, budgetUsed, foreign,
                 monVars, closeVars>>

\* The probe succeeds: lease the connection, unless the pool closed meanwhile.
ProbeHealthy(t) ==
  /\ pc[t] = "probe"
  /\ IF closed
     THEN Goto(t, "reject") /\ BeginClose(t, hand[t])
     ELSE /\ Goto(t, "holding")
          /\ leased' = leased \cup {hand[t]}
          /\ UNCHANGED <<owes, connections>>
  /\ UNCHANGED <<hand, semVars, free, closedLeases, budgetUsed, foreign, monVars, closeVars>>

\* It fails (look for another connection) or is cancelled (raise).
ProbeFails(t) ==
  /\ pc[t] = "probe"
  /\ \/ Goto(t, "discard") \/ Goto(t, "reject")
  /\ BeginClose(t, hand[t])
  /\ UNCHANGED <<hand, semVars, free, closedLeases, budgetUsed, foreign, monVars, closeVars>>

\* The connection is closed: once more round the loop, if the pool is open.
Discarded(t) ==
  /\ pc[t] = "discard"
  /\ ~closed
  /\ budgetUsed' = SlotsAfterClose(t)
  /\ TakeFree(t)
  /\ UNCHANGED <<semVars, closedLeases, foreign, monVars, closeVars>>

\* acquire() raises after a disconnect: the caller was cancelled, the pool
\* closed, or _create_connection failed and has disconnected its client.
AcquireRaises(t) ==
  /\ pc[t] \in {"discard", "reject", "undo"}
  /\ EndClose(t)
  /\ permits' = ReturnedPermit
  /\ Drop(t, "idle")
  /\ UNCHANGED <<lost, connections, free, leaseVars, foreign, monVars, closeVars>>

\* _create_connection: budget.acquire_async reserves a slot; the pool is
\* tested again ...
BudgetAcquired(t) ==
  /\ pc[t] = "budget"
  /\ budgetUsed < BudgetMax
  /\ budgetUsed' = budgetUsed + 1
  /\ owes' = owes \cup {t}
  /\ Goto(t, IF closed THEN "undo" ELSE "connect")
  /\ UNCHANGED <<hand, semVars, connections, free, leaseVars, foreign, monVars, closeVars>>

\* ... or raises because the pool closed, ...
BudgetClosed(t) ==
  /\ pc[t] = "budget"
  /\ closed
  /\ Goto(t, "undo")
  /\ UNCHANGED <<hand, owes, semVars, connections, free, leaseVars, budgetUsed, foreign,
                 monVars, closeVars>>

\* ... or it, or connect(), times out, fails or is cancelled.
CreateFails(t) ==
  /\ pc[t] \in {"budget", "connect"}
  /\ Goto(t, "undo")
  /\ UNCHANGED <<hand, owes, semVars, connections, free, leaseVars, budgetUsed, foreign,
                 monVars, closeVars>>

\* Mutant: the connection is tracked although the pool closed during connect().
Connected_NoRecheck(t) ==
  /\ pc[t] = "connect"
  /\ \E c \in Conns \ Referenced :
       /\ PickUp(t, c, "holding")
       /\ connections' = connections \cup {c}
       /\ leased' = leased \cup {c}
       /\ owes' = owes \ {t}
  /\ UNCHANGED <<semVars, free, closedLeases, budgetUsed, foreign, monVars, closeVars>>

\* connect() returns: the connection takes the slot over, is tracked and
\* leased in one stretch, unless the pool closed meanwhile.
Connected(t) ==
  /\ pc[t] = "connect"
  /\ \E c \in Conns \ Referenced :
       IF closed
       THEN PickUp(t, c, "undo") /\ UNCHANGED <<owes, connections, leased>>
       ELSE /\ PickUp(t, c, "holding")
            /\ connections' = connections \cup {c}
            /\ leased' = leased \cup {c}
            /\ owes' = owes \ {t}
  /\ UNCHANGED <<semVars, free, closedLeases, budgetUsed, foreign, monVars, closeVars>>

-----------------------------------------------------------------------------
(* release() *)

\* Into the queue, together with the permit.
ReleaseKeeps(t) ==
  /\ pc[t] = "holding"
  /\ ~closed
  /\ hand[t] \in leased
  /\ leased' = leased \ {hand[t]}
  /\ free' = Append(free, hand[t])
  /\ permits' = permits + 1
  /\ Drop(t, "idle")
  /\ UNCHANGED <<lost, owes, connections, closedLeases, budgetUsed, foreign, monVars, closeVars>>

\* Dead, too old or broken (is_connected() raises), or the pool is closed:
\* close it.
ReleaseCloses(t) ==
  /\ pc[t] = "holding"
  /\ hand[t] \in leased \cup closedLeases
  /\ BeginClose(t, hand[t])
  /\ closedLeases' = closedLeases \ {hand[t]}
  /\ IF closed THEN Goto(t, "relClosed") ELSE Goto(t, "relClose") \/ Goto(t, "relBroken")
  /\ UNCHANGED <<hand, semVars, free, budgetUsed, foreign, monVars, closeVars>>

\* disconnect() is over; the permit of a pool that is still open is returned.
\* At "relClose" a finally does it, whether or not disconnect() was cancelled.
ReleaseEnds(t) ==
  /\ pc[t] \in {"relClose", "relBroken", "relClosed"}
  /\ EndClose(t)
  /\ permits' = IF pc[t] # "relClosed" /\ ~closed THEN permits + 1 ELSE permits
  /\ Drop(t, "idle")
  /\ UNCHANGED <<lost, connections, free, leaseVars, foreign, monVars, closeVars>>

\* The except block of release() has no finally: cancelled at its await, it
\* does not return the permit.
ReleaseCancelled(t) ==
  /\ pc[t] = "relBroken"
  /\ EndClose(t)
  /\ lost' = IF closed THEN lost ELSE lost + 1
  /\ Drop(t, "idle")
  /\ UNCHANGED <<permits, connections, free, leaseVars, foreign, monVars, closeVars>>

-----------------------------------------------------------------------------
(* The monitor task *)

\* _start_monitor: nothing happens while the last task is not done.
StartMonitor ==
  /\ ~closed
  /\ pc[Monitor] = "off"
  /\ Goto(Monitor, "sleep")
  /\ UNCHANGED <<hand, owes, semVars, connections, free, leaseVars, budgetUsed, foreign,
                 monVars, closeVars>>

StopMonitor ==
  /\ pc[Monitor] # "off"
  /\ ~cancelled
  /\ cancelled' = TRUE
  /\ UNCHANGED <<workVars, semVars, connections, free, leaseVars, budgetUsed, foreign,
                 snapshot, keep, closeVars>>

\* The loop of _cleanup_expired over `rest`, until it has a connection to close
\* or puts the survivors behind `queue`.  (close_all cancels the task in the
\* stretch that sets _closed, so the survivors never meet a closed pool.)  If
\* is_connected() raises, nothing is put back and the monitor sleeps again.
Scan(queue, rest, kept) ==
  \/ \E n \in 0 .. Len(rest) :
       LET survivors == kept \o SubSeq(rest, 1, n)
       IN IF n = Len(rest)
          THEN /\ free' = queue \o survivors
               /\ snapshot' = <<>> /\ keep' = <<>>
               /\ Drop(Monitor, "sleep")
               /\ owes' = owes \ {Monitor} /\ UNCHANGED <<connections, leased>>
          ELSE /\ free' = queue
               /\ snapshot' = SubSeq(rest, n + 2, Len(rest)) /\ keep' = survivors
               /\ PickUp(Monitor, rest[n + 1], "reap")
               /\ BeginClose(Monitor, rest[n + 1])
  \/ /\ rest # <<>>
     /\ free' = queue /\ snapshot' = <<>> /\ keep' = <<>>
     /\ Drop(Monitor, "sleep")
     /\ owes' = owes \ {Monitor} /\ UNCHANGED <<connections, leased>>

\* The sleep is over: drain the queue and go through it.
MonitorWakes ==
  /\ pc[Monitor] = "sleep"
  /\ ~cancelled
  /\ Scan(<<>>, free, <<>>)
  /\ UNCHANGED <<semVars, closedLeases, budgetUsed, foreign, cancelled, closeVars>>

MonitorReaped ==
  /\ pc[Monitor] = "reap"
  /\ ~cancelled
  /\ budgetUsed' = SlotsAfterClose(Monitor)
  /\ Scan(free, snapshot, keep)
  /\ UNCHANGED <<semVars, closedLeases, foreign, cancelled, closeVars>>

\* CancelledError at whichever await: the connections drained are not put back.
MonitorCancelled ==
  /\ cancelled
  /\ EndClose(Monitor)
  /\ Drop(Monitor, "off")
  /\ snapshot' = <<>> /\ keep' = <<>> /\ cancelled' = FALSE
  /\ UNCHANGED <<semVars, connections, free, leaseVars, foreign, closeVars>>

-----------------------------------------------------------------------------
(* close_all() *)

\* Mutant: no permits are issued to the waiters.
WakePermits_None == permits

\* One permit per registered waiter, so that each can wake and leave.
WakePermits == permits + Cardinality(AcquireWaiters)

\* The first caller, up to its first await.
CloseAll(k) ==
  /\ pc[k] = "idle"
  /\ ~closed
  /\ closed' = TRUE
  /\ permits' = WakePermits
  /\ closedLeases' = closedLeases \cup leased
  /\ leased' = {}
  /\ free' = <<>>
  /\ toClose' = connections
  /\ cancelled' = (pc[Monitor] # "off")
  /\ Goto(k, "join")
  /\ UNCHANGED <<hand, owes, lost, connections, budgetUsed, foreign, snapshot, keep,
                 finished>>

\* A later caller waits for the recovery task, if there is one, or the event.
CloseAgain(k) ==
  /\ pc[k] = "idle"
  /\ closed
  /\ Goto(k, "wait")
  /\ UNCHANGED <<hand, owes, semVars, connections, free, leaseVars, budgetUsed, foreign,
                 monVars, closeVars>>

Settled == finished \/ pc[Recovery] = "done"

WaitOver(k) ==
  /\ pc[k] = "wait"
  /\ \/ Settled /\ Goto(k, "returned")
     \/ Goto(k, "raised")
  /\ UNCHANGED <<hand, owes, semVars, connections, free, leaseVars, budgetUsed, foreign,
                 monVars, closeVars>>

\* Close the next connection on the list, or end at `place`.
CloseNext(a, place) ==
  IF toClose = {}
  THEN /\ Drop(a, place)
       /\ owes' = owes \ {a} /\ UNCHANGED <<connections, leased, toClose>>
  ELSE \E c \in toClose : /\ PickUp(a, c, "closing")
                          /\ BeginClose(a, c)
                          /\ toClose' = toClose \ {c}

\* The monitor is gone, or a connection is closed: on with the list.
CloseStep(k) ==
  /\ \/ pc[k] = "join" /\ pc[Monitor] = "off"
     \/ pc[k] = "closing"
  /\ budgetUsed' = SlotsAfterClose(k)
  /\ CloseNext(k, "returned")
  /\ finished' = (toClose = {})
  /\ UNCHANGED <<semVars, free, closedLeases, foreign, monVars, closed>>

\* The closing caller is cancelled: a task of its own goes through the list
\* again (what is closed already is disconnected once more, to no effect).
CloseCancelled(k) ==
  /\ pc[k] \in {"join", "closing"}
  /\ EndClose(k)
  /\ pc' = [pc EXCEPT ![k] = "shield", ![Recovery] = "join"]
  /\ hand' = [hand EXCEPT ![k] = None]
  /\ UNCHANGED <<semVars, connections, free, leaseVars, foreign, monVars, closeVars>>

RecoveryStep ==
  /\ \/ pc[Recovery] = "join" /\ pc[Monitor] = "off"
     \/ pc[Recovery] = "closing"
  /\ budgetUsed' = SlotsAfterClose(Recovery)
  /\ CloseNext(Recovery, "done")
  /\ UNCHANGED <<semVars, free, closedLeases, foreign, monVars, closed, finished>>

\* Only the loop itself, shutting down, cancels the recovery task: what it has
\* not closed yet stays open.
RecoveryCancelled ==
  /\ pc[Recovery] \in {"join", "closing"}
  /\ EndClose(Recovery)
  /\ Drop(Recovery, "dead")
  /\ UNCHANGED <<semVars, connections, free, leaseVars, foreign, monVars, closeVars>>

\* The cancellation is passed on when the recovery is over.  That of the
\* recovery task itself comes out of cleanup.result(), before _close_finished
\* is set.
ShieldOver(k) ==
  /\ pc[k] = "shield"
  /\ pc[Recovery] \in {"done", "dead"}
  /\ finished' = (pc[Recovery] = "done")
  /\ Goto(k, "raised")
  /\ UNCHANGED <<hand, owes, semVars, connections, free, leaseVars, budgetUsed, foreign,
                 monVars, closed, toClose>>

ForeignAcquire ==
  /\ foreign < ForeignMax
  /\ budgetUsed < BudgetMax
  /\ budgetUsed' = budgetUsed + 1 /\ foreign' = foreign + 1
  /\ UNCHANGED <<workVars, semVars, connections, free, leaseVars, monVars, closeVars>>

ForeignRelease ==
  /\ foreign > 0
  /\ budgetUsed' = budgetUsed - 1 /\ foreign' = foreign - 1
  /\ UNCHANGED <<workVars, semVars, connections, free, leaseVars, monVars, closeVars>>

-----------------------------------------------------------------------------
AcquireStep(t) == \/ SemAcquired(t) \/ ProbeHealthy(t) \/ ProbeFails(t) \/ Discarded(t)
                  \/ AcquireRaises(t) \/ BudgetAcquired(t) \/ BudgetClosed(t)
                  \/ Connected(t)

Next ==
  \/ \E t \in Tasks : \/ Acquire(t) \/ SemCancelled(t) \/ AcquireStep(t) \/ CreateFails(t)
                      \/ ReleaseKeeps(t) \/ ReleaseCloses(t) \/ ReleaseEnds(t)
                      \/ ReleaseCancelled(t)
  \/ StartMonitor \/ StopMonitor \/ MonitorWakes \/ MonitorReaped \/ MonitorCancelled
  \/ \E k \in Closers : \/ CloseAll(k) \/ CloseAgain(k) \/ WaitOver(k) \/ CloseStep(k)
                        \/ CloseCancelled(k) \/ ShieldOver(k)
  \/ RecoveryStep \/ RecoveryCancelled
  \/ ForeignAcquire \/ ForeignRelease

Spec == Init /\ [][Next]_vars

(***************************************************************************)
(* Fairness: the loop resumes every task whose await is over, and what a   *)
(* task awaits of the network (probe, connect, disconnect) ends.           *)
(* Nothing is assumed of the borrowers, of stop_monitor or cancellations.  *)
(***************************************************************************)
Fairness ==
  /\ \A t \in Tasks : /\ WF_vars(AcquireStep(t)) /\ WF_vars(ReleaseEnds(t))
                      /\ WF_vars(pc[t] = "connect" /\ CreateFails(t))
  /\ WF_vars(MonitorCancelled) /\ WF_vars(RecoveryStep)
  /\ \A k \in Closers : WF_vars(CloseStep(k)) /\ WF_vars(ShieldOver(k))

FairSpec == Spec /\ Fairness

-----------------------------------------------------------------------------
(* Properties *)

\* The permits of an open pool are conserved at whichever await of acquire()
\* or release() the caller is cancelled: none is minted, and the only ones lost
\* are those of releases cancelled while they close a connection whose
\* is_connected() raised.
PermitsConserved ==
  ~closed => permits + Cardinality({ t \in Tasks : pc[t] \notin {"idle", "sem"} }) + lost
               = MaxConnections

\* Exactly-once budget: although release, the monitor, close_all and its
\* recovery task may close the same connection and be cancelled while it
\* disconnects, every slot belongs to one tracked connection or to one task
\* that is about to give it back.
BudgetExact == budgetUsed = Cardinality(connections) + Cardinality(owes) + foreign

\* When close_all is over, for its first caller even if it was cancelled on the
\* way and for every later caller that was not, no connection is tracked any
\* more, the queue stays empty and the monitor is gone.
CloseIsComplete ==
  finished \/ (\E k \in Closers : pc[k] = "returned")
    => connections = {} /\ free = <<>> /\ pc[Monitor] = "off"

\* Once the pool is closed, everybody leaves acquire() without waiting for a
\* release, and all slots go back to the budget, those of connections that
\* are lent out, half built or lost to an interrupted cleanup included; unless
\* the event loop shuts down and cancels the recovery task itself.
CloseDrains ==
  closed ~> \/ pc[Recovery] = "dead"
            \/ /\ \A t \in Tasks : pc[t] \notin AcquirePlaces
               /\ connections = {} /\ budgetUsed = foreign
=============================================================================

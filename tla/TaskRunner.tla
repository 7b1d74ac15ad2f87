----------------------------- MODULE TaskRunner -----------------------------
(***************************************************************************)
(* service/task_runner.py: background tasks, a counting semaphore as       *)
(* submission backpressure, a bounded work queue and worker threads that   *)
(* retire when idle.  Each task is submitted once by a thread of its own;  *)
(* callers wait_for tasks; one thread may close(wait=True) the runner from *)
(* outside its workers.  Every block under _lock is one action.            *)
(* Task results, names, metadata and clock times are left out; the age     *)
(* test of cleanup_old may go either way for each finished task.           *)
(***************************************************************************)
EXTENDS Integers, FiniteSets, Sequences, SequencesExt

CONSTANTS Tasks,        \* task ids
          Threads,      \* worker threads; one that retired may be started anew
          Callers,      \* threads calling wait_for
          MaxWorkers,   \* max_workers
          MayClose,     \* the runner may be closed
          None          \* no task

ASSUME MaxWorkersAssumption == MaxWorkers \in Nat \ {0}
ASSUME FiniteAssumption ==
  /\ IsFiniteSet(Tasks) /\ IsFiniteSet(Threads) /\ IsFiniteSet(Callers)
  /\ None \notin Tasks
  /\ MayClose \in BOOLEAN
\* max_workers threads exist to be started.
ASSUME ThreadsAssumption == Cardinality(Threads) >= MaxWorkers

VARIABLES status,      \* Task.status, meaningful for a submitted task
          known,       \* keys of _tasks, _events and _cancel_flags
          event,       \* tasks whose completion event is set
          flag,        \* tasks whose cancel flag is set
          submitter,   \* where each task's submitting thread is
          submitters,  \* _submitter_count
          permits,     \* value of _semaphore
          active,      \* _active_count
          slots,       \* _slot_tasks
          queue,       \* _work_queue
          worker,      \* where each worker thread is; "none": not in _workers
          job,         \* the item a worker is processing
          caller,      \* where each wait_for call is
          target,      \* the task it waits for
          closed,      \* _closed
          closer       \* where close(wait=True) is

taskVars   == <<status, known, event, flag>>
slotVars   == <<submitters, permits, active, slots, queue>>
workerVars == <<worker, job>>
callVars   == <<caller, target>>
vars == <<taskVars, submitter, slotVars, workerVars, callVars, closed, closer>>

Terminal == {"success", "failed", "cancelled"}

Registered == { w \in Threads : worker[w] # "none" }   \* _workers
Pending == { t \in known : status[t] = "pending" }

\* A registered wait_for call counts in _waiters until its finally block.
WaitedFor(t) == \E c \in Callers : caller[c] # "idle" /\ target[c] = t

\* _idle_condition.notify_all()
Wake(c) == IF c = "asleep" THEN "awake" ELSE c

-----------------------------------------------------------------------------
Init ==
  /\ status = [t \in Tasks |-> "new"]
  /\ known = {} /\ event = {} /\ flag = {}
  /\ submitter = [t \in Tasks |-> "idle"]
  /\ submitters = 0
  /\ permits = MaxWorkers
  /\ active = 0 /\ slots = {}
  /\ queue = <<>>
  /\ worker = [w \in Threads |-> "none"]
  /\ job = [w \in Threads |-> None]
  /\ caller = [c \in Callers |-> "idle"]
  /\ target = [c \in Callers |-> None]
  /\ closed = FALSE
  /\ closer = "idle"

-----------------------------------------------------------------------------
(* submit() *)

\* First block: refuse if closed, else register the task.
Submit(t) ==
  /\ submitter[t] = "idle"
  /\ ~closed
  /\ status' = [status EXCEPT ![t] = "pending"]
  /\ known' = known \cup {t}
  /\ submitters' = submitters + 1
  /\ submitter' = [submitter EXCEPT ![t] = "blocked"]
  /\ UNCHANGED <<event, flag, permits, active, slots, queue, workerVars,
                 callVars, closed, closer>>

\* _semaphore.acquire() succeeds.
SemAcquire(t) ==
  /\ submitter[t] = "blocked"
  /\ permits > 0
  /\ permits' = permits - 1
  /\ submitter' = [submitter EXCEPT ![t] = "acquired"]
  /\ UNCHANGED <<taskVars, submitters, active, slots, queue, workerVars,
                 callVars, closed, closer>>

\* _semaphore.acquire() is interrupted (KeyboardInterrupt).
SemInterrupt(t) ==
  /\ submitter[t] = "blocked"
  /\ IF t \in Pending
     THEN /\ status' = [status EXCEPT ![t] = "cancelled"]
          /\ event' = event \cup {t}
     ELSE UNCHANGED <<status, event>>
  /\ submitters' = submitters - 1
  /\ submitter' = [submitter EXCEPT ![t] = "gone"]
  /\ closer' = Wake(closer)
  /\ UNCHANGED <<known, flag, permits, active, slots, queue, workerVars,
                 callVars, closed>>

\* The task was cancelled, cleaned up or overtaken by close while its
\* submitter waited for the semaphore.
WasCancelled(t) ==
  t \notin known \/ status[t] = "cancelled" \/ t \in flag \/ closed

\* Workers _ensure_workers_locked(min(max_workers, active)) may start: the
\* loop stops early if a thread cannot be started and another one exists.
StartableSets(n) ==
  { S \in SUBSET (Threads \ Registered) :
      /\ Cardinality(Registered \cup S) >= 1
      /\ S # {} => Cardinality(Registered \cup S) <= n }

MinOf(a, b) == IF a < b THEN a ELSE b

\* Mutant: the count of active tasks is not raised.
Enqueue_NoCount(t) ==
  /\ submitter[t] = "acquired"
  /\ ~WasCancelled(t)
  /\ slots' = slots \cup {t}
  /\ \E S \in StartableSets(MinOf(MaxWorkers, active + 1)) :
       worker' = [w \in Threads |-> IF w \in S THEN "idle" ELSE worker[w]]
  /\ queue' = Append(queue, t)
  /\ submitter' = [submitter EXCEPT ![t] = "leaving"]
  /\ UNCHANGED <<active, taskVars, submitters, permits, job, callVars, closed, closer>>

\* Second block, the task is still wanted: take the slot, make sure there are
\* workers, queue the item.
Enqueue(t) ==
  /\ submitter[t] = "acquired"
  /\ ~WasCancelled(t)
  /\ active' = active + 1
  /\ slots' = slots \cup {t}
  /\ \E S \in StartableSets(MinOf(MaxWorkers, active + 1)) :
       worker' = [w \in Threads |-> IF w \in S THEN "idle" ELSE worker[w]]
  /\ queue' = Append(queue, t)
  /\ submitter' = [submitter EXCEPT ![t] = "leaving"]
  /\ UNCHANGED <<taskVars, submitters, permits, job, callVars, closed, closer>>

\* Second block, not a single worker could be started: the task fails.
StartError(t) ==
  /\ submitter[t] = "acquired"
  /\ ~WasCancelled(t)
  /\ Registered = {}
  /\ active' = active + 1
  /\ slots' = slots \cup {t}
  /\ status' = [status EXCEPT ![t] = "failed"]
  /\ event' = event \cup {t}
  /\ submitter' = [submitter EXCEPT ![t] = "abandon"]
  /\ UNCHANGED <<known, flag, submitters, permits, queue, workerVars, callVars,
                 closed, closer>>

\* Second block, the task is no longer wanted.
Abandon(t) ==
  /\ submitter[t] = "acquired"
  /\ WasCancelled(t)
  /\ active' = active + 1
  /\ slots' = slots \cup {t}
  /\ submitter' = [submitter EXCEPT ![t] = "abandon"]
  /\ UNCHANGED <<taskVars, submitters, permits, queue, workerVars, callVars,
                 closed, closer>>

\* _release_slot: once per task id, then notify close().
ReleaseSlot(t) ==
  IF t \in slots
  THEN /\ slots' = slots \ {t}
       /\ active' = active - 1
       /\ permits' = permits + 1
       /\ closer' = Wake(closer)
  ELSE UNCHANGED <<slots, active, permits, closer>>

ReleaseAbandoned(t) ==
  /\ submitter[t] = "abandon"
  /\ ReleaseSlot(t)
  /\ submitter' = [submitter EXCEPT ![t] = "leaving"]
  /\ UNCHANGED <<taskVars, submitters, queue, workerVars, callVars, closed>>

\* The finally block of submit().
Leave(t) ==
  /\ submitter[t] = "leaving"
  /\ submitters' = submitters - 1
  /\ submitter' = [submitter EXCEPT ![t] = "gone"]
  /\ closer' = Wake(closer)
  /\ UNCHANGED <<taskVars, permits, active, slots, queue, workerVars, callVars, closed>>

-----------------------------------------------------------------------------
(* _worker_loop and _execute_wrapper *)

\* _work_queue.get() returns an item.
Get(w) ==
  /\ worker[w] = "idle"
  /\ queue # <<>>
  /\ job' = [job EXCEPT ![w] = Head(queue)]
  /\ queue' = Tail(queue)
  /\ worker' = [worker EXCEPT ![w] = "mark"]
  /\ UNCHANGED <<taskVars, submitter, submitters, permits, active, slots,
                 callVars, closed, closer>>

\* _work_queue.get() raises Empty after _WORKER_IDLE_TIMEOUT.
IdleExpire(w) ==
  /\ worker[w] = "idle"
  /\ queue = <<>>
  /\ worker' = [worker EXCEPT ![w] = "expired"]
  /\ UNCHANGED <<taskVars, submitter, slotVars, job, callVars, closed, closer>>

\* Mutant: the queue is not looked at again.
Retire_Blind(w) ==
  /\ worker[w] = "expired"
  /\ worker' = [worker EXCEPT ![w] = "none"]
  /\ UNCHANGED <<taskVars, submitter, slotVars, job, callVars, closed, closer>>

\* The block after Empty: deregister if the queue is empty or the runner is
\* closed, else go on.
Retire(w) ==
  /\ worker[w] = "expired"
  /\ worker' = [worker EXCEPT ![w] = IF queue = <<>> \/ closed THEN "none" ELSE "idle"]
  /\ UNCHANGED <<taskVars, submitter, slotVars, job, callVars, closed, closer>>

\* Mutant: a cancelled task is run all the same.
TryMarkRunning_Always(w) ==
  LET t == job[w] IN
  /\ worker[w] = "mark"
  /\ t \in known
  /\ status' = [status EXCEPT ![t] = "running"]
  /\ worker' = [worker EXCEPT ![w] = "run"]
  /\ UNCHANGED <<known, event, flag, submitter, slotVars, job, callVars, closed, closer>>

\* _try_mark_running
TryMarkRunning(w) ==
  LET t == job[w]
      cancelled == t \in known /\ (status[t] = "cancelled" \/ t \in flag)
      runs == t \in Pending /\ t \notin flag
  IN /\ worker[w] = "mark"
     /\ status' = IF cancelled THEN [status EXCEPT ![t] = "cancelled"]
                  ELSE IF runs THEN [status EXCEPT ![t] = "running"] ELSE status
     /\ event' = IF cancelled THEN event \cup {t} ELSE event
     /\ worker' = [worker EXCEPT ![w] = IF runs THEN "run" ELSE "drop"]
     /\ UNCHANGED <<known, flag, submitter, slotVars, job, callVars, closed, closer>>

\* The item is dropped: only its slot is released.
DropItem(w) ==
  /\ worker[w] = "drop"
  /\ ReleaseSlot(job[w])
  /\ worker' = [worker EXCEPT ![w] = "idle"]
  /\ job' = [job EXCEPT ![w] = None]
  /\ UNCHANGED <<taskVars, submitter, submitters, queue, callVars, closed>>

\* The task function returned (result = "success", _handle_completion) or
\* raised ("failed", _handle_exception).
Finish(w, result) ==
  LET t == job[w] IN
  /\ worker[w] = "run"
  /\ status' = IF t \in known
               THEN [status EXCEPT ![t] = IF t \in flag THEN "cancelled" ELSE result]
               ELSE status
  /\ worker' = [worker EXCEPT ![w] = "release"]
  /\ UNCHANGED <<known, event, flag, submitter, slotVars, job, callVars, closed, closer>>

\* _cleanup_resources: release the slot ...
WorkerRelease(w) ==
  /\ worker[w] = "release"
  /\ ReleaseSlot(job[w])
  /\ worker' = [worker EXCEPT ![w] = "signal"]
  /\ UNCHANGED <<taskVars, submitter, submitters, queue, job, callVars, closed>>

\* Mutant: nobody is told.
WorkerSignal_Missing(w) ==
  /\ worker[w] = "signal"
  /\ worker' = [worker EXCEPT ![w] = "idle"]
  /\ job' = [job EXCEPT ![w] = None]
  /\ UNCHANGED <<taskVars, submitter, slotVars, callVars, closed, closer>>

\* ... and set the event, if the task has not been cleaned up meanwhile.
WorkerSignal(w) ==
  /\ worker[w] = "signal"
  /\ event' = IF job[w] \in known THEN event \cup {job[w]} ELSE event
  /\ worker' = [worker EXCEPT ![w] = "idle"]
  /\ job' = [job EXCEPT ![w] = None]
  /\ UNCHANGED <<status, known, flag, submitter, slotVars, callVars, closed, closer>>

-----------------------------------------------------------------------------
(* cancel(), cancel_all(), cleanup_old(), close() *)

\* PENDING tasks become CANCELLED, with flag and event.
CancelPending(S) ==
  /\ status' = [t \in Tasks |-> IF t \in S THEN "cancelled" ELSE status[t]]
  /\ flag' = flag \cup S
  /\ event' = event \cup S

Cancel(t) ==
  /\ t \in known
  /\ \/ status[t] = "pending" /\ CancelPending({t})
     \/ status[t] = "running" /\ flag' = flag \cup {t} /\ UNCHANGED <<status, event>>
  /\ UNCHANGED <<known, submitter, slotVars, workerVars, callVars, closed, closer>>

CancelAll ==
  /\ Pending # {}
  /\ CancelPending(Pending)
  /\ UNCHANGED <<known, submitter, slotVars, workerVars, callVars, closed, closer>>

\* Mutant: tasks somebody waits for are removed too.
Removable_Waited(t) == status[t] \in Terminal

\* Finished, old enough is up to the clock, and nobody waits for it.
Removable(t) == status[t] \in Terminal /\ ~WaitedFor(t)

CleanupOld ==
  \E S \in SUBSET { t \in known : Removable(t) } :
    /\ S # {}
    /\ known' = known \ S
    /\ event' = event \ S
    /\ flag' = flag \ S
    /\ UNCHANGED <<status, submitter, slotVars, workerVars, callVars, closed, closer>>

\* close(wait=True), first part of its block: no more work, PENDING cancelled.
Close ==
  /\ MayClose
  /\ closer = "idle"
  /\ closed' = TRUE
  /\ CancelPending(Pending)
  /\ closer' = "awake"
  /\ UNCHANGED <<known, submitter, slotVars, workerVars, callVars>>

\* close(wait=False); close(wait=True) may follow, and finds nothing PENDING.
CloseNoWait ==
  /\ MayClose
  /\ ~closed
  /\ closed' = TRUE
  /\ CancelPending(Pending)
  /\ UNCHANGED <<known, submitter, slotVars, workerVars, callVars, closer>>

\* `while self._active_count or self._submitter_count: wait()`
CloseCheck ==
  /\ closer = "awake"
  /\ closer' = IF active = 0 /\ submitters = 0 THEN "joining" ELSE "asleep"
  /\ UNCHANGED <<taskVars, submitter, slotVars, workerVars, callVars, closed>>

\* worker.join() for every worker still registered.
CloseJoin ==
  /\ closer = "joining"
  /\ Registered = {}
  /\ closer' = "done"
  /\ UNCHANGED <<taskVars, submitter, slotVars, workerVars, callVars, closed>>

-----------------------------------------------------------------------------
(* wait_for() *)

WaitFor(c, t) ==
  /\ caller[c] = "idle"
  /\ t \in known
  /\ caller' = [caller EXCEPT ![c] = "waiting"]
  /\ target' = [target EXCEPT ![c] = t]
  /\ UNCHANGED <<taskVars, submitter, slotVars, workerVars, closed, closer>>

\* event.wait() returns True or False.
WaitWake(c) ==
  /\ caller[c] = "waiting"
  /\ target[c] \in event
  /\ caller' = [caller EXCEPT ![c] = "woken"]
  /\ UNCHANGED <<taskVars, submitter, slotVars, workerVars, target, closed, closer>>

WaitTimeout(c) ==
  /\ caller[c] = "waiting"
  /\ target[c] \notin event
  /\ caller' = [caller EXCEPT ![c] = "timedOut"]
  /\ UNCHANGED <<taskVars, submitter, slotVars, workerVars, target, closed, closer>>

\* The finally block (after the snapshot, for a woken call): deregister.
WaitLeave(c) ==
  /\ caller[c] \in {"woken", "timedOut"}
  /\ caller' = [caller EXCEPT ![c] = "idle"]
  /\ target' = [target EXCEPT ![c] = None]
  /\ UNCHANGED <<taskVars, submitter, slotVars, workerVars, closed, closer>>

-----------------------------------------------------------------------------
SubmitStep(t) == \/ SemAcquire(t) \/ Enqueue(t) \/ Abandon(t)
                 \/ ReleaseAbandoned(t) \/ Leave(t)

WorkerStep(w) == \/ Get(w) \/ IdleExpire(w) \/ Retire(w) \/ TryMarkRunning(w)
                 \/ DropItem(w) \/ Finish(w, "success") \/ Finish(w, "failed")
                 \/ WorkerRelease(w) \/ WorkerSignal(w)

Next == \/ \E t \in Tasks : Submit(t) \/ SubmitStep(t) \/ SemInterrupt(t)
                            \/ StartError(t) \/ Cancel(t)
        \/ \E w \in Threads : WorkerStep(w)
        \/ \E c \in Callers : WaitWake(c) \/ WaitTimeout(c) \/ WaitLeave(c)
        \/ \E c \in Callers, t \in Tasks : WaitFor(c, t)
        \/ CancelAll \/ CleanupOld \/ Close \/ CloseNoWait \/ CloseCheck \/ CloseJoin

Spec == Init /\ [][Next]_vars

(***************************************************************************)
(* Fairness: threads that can run do run, a task function returns in the   *)
(* end, an idle get() times out, and close() goes on once notified.        *)
(* Submissions, cancellations, interrupts, thread start failures, cleanups *)
(* and wait_for calls and timeouts are not promised.                       *)
(***************************************************************************)
Fairness ==
  /\ \A t \in Tasks : WF_vars(SubmitStep(t))
  /\ \A w \in Threads : WF_vars(WorkerStep(w))
  /\ \A c \in Callers : WF_vars(WaitWake(c) \/ WaitLeave(c))
  /\ WF_vars(CloseCheck) /\ WF_vars(CloseJoin)

FairSpec == Spec /\ Fairness

-----------------------------------------------------------------------------
(* Properties *)

\* Tasks whose submitter holds a semaphore permit but no slot yet.
Acquired == { t \in Tasks : submitter[t] = "acquired" }
\* Tasks in some worker's hands that still have their slot to give back.
InHand == { job[w] : w \in { x \in Threads : worker[x] \in {"mark", "drop", "run", "release"} } }
Queued == ToSet(queue)
Abandoned == { t \in Tasks : submitter[t] = "abandon" }

\* Slots are conserved: permits, reserved permits and slots add up to
\* max_workers, _active_count counts the slots, and every slot has exactly one
\* owner (queue, worker or giving-up submitter) that will release it.  So the
\* queue, as large as the semaphore, is never full when put_nowait is called.
SlotsConserved ==
  /\ active = Cardinality(slots)
  /\ permits + Cardinality(Acquired) + active = MaxWorkers
  /\ slots = Queued \cup InHand \cup Abandoned
  /\ Cardinality(slots) = Len(queue) + Cardinality(InHand) + Cardinality(Abandoned)

\* cleanup_old never pulls a task from under a registered wait_for: the call
\* cannot end in KeyError.
WaitedTaskIsKept ==
  \A c \in Callers : caller[c] # "idle" => target[c] \in known

\* A final status is final: no late worker, cancel, close or failed start
\* overwrites it.
FinalStatusSticks ==
  [][\A t \in Tasks : status[t] \in Terminal => status'[t] = status[t]]_vars

\* An accepted task always ends: its event is set or it has been cleaned up,
\* also when close() or a cancel races with its start.
EveryTaskEnds ==
  \A t \in Tasks : t \in known ~> t \in event \/ t \notin known

\* As long as the runner is open every slot comes back: worker threads do not
\* retire in front of a queued item.
SlotsComeBack ==
  \A t \in Tasks : t \in slots ~> (t \notin slots \/ closed)

\* close(wait=True) "waits for them before returning": once running functions
\* have finished, close() returns.
CloseReturns == closer # "idle" ~> closer = "done"
=============================================================================

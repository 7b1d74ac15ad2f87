------------------------- MODULE TaskRunner_proofs --------------------------
(***************************************************************************)
(* The slot accounting and the task statuses of TaskRunner, for any number *)
(* of tasks, worker threads and callers.  All rests on who owns a task:    *)
(* its submitter until it is queued or given up, then the queue, then one  *)
(* worker; and on the status a task can have in each of these places.      *)
(***************************************************************************)
EXTENDS TaskRunner, FiniteSetTheorems, TLAPS

SubmitPlaces == {"idle", "blocked", "acquired", "abandon", "leaving", "gone"}
JobPlaces == {"mark", "drop", "run", "release", "signal"}
WorkerPlaces == {"none", "idle", "expired"} \cup JobPlaces
\* Places of a worker whose job still has its slot.
SlotPlaces == JobPlaces \ {"signal"}

TypeOK ==
  /\ status \in [Tasks -> {"new", "pending", "running"} \cup Terminal]
  /\ known \subseteq Tasks /\ event \subseteq Tasks /\ flag \subseteq Tasks
  /\ slots \subseteq Tasks
  /\ submitter \in [Tasks -> SubmitPlaces]
  /\ submitters \in Int /\ permits \in Int /\ active \in Int
  /\ queue \in Seq(Tasks)
  /\ worker \in [Threads -> WorkerPlaces]
  /\ job \in [Threads -> Tasks \cup {None}]
  /\ caller \in [Callers -> {"idle", "waiting", "woken", "timedOut"}]
  /\ target \in [Callers -> Tasks \cup {None}]
  /\ closed \in BOOLEAN
  /\ closer \in {"idle", "awake", "asleep", "joining", "done"}

\* A task is in the queue, or some worker's job, only once its submitter let
\* go of it, and then in one place only.
OneOwner ==
  /\ \A i \in 1..Len(queue) : submitter[queue[i]] \in {"leaving", "gone"}
  /\ \A i, j \in 1..Len(queue) : queue[i] = queue[j] => i = j
  /\ \A w \in Threads : job[w] # None <=> worker[w] \in JobPlaces
  /\ \A w \in Threads : job[w] # None => submitter[job[w]] \in {"leaving", "gone"}
  /\ \A w \in Threads, i \in 1..Len(queue) : job[w] # queue[i]
  /\ \A w, x \in Threads : job[w] # None /\ job[w] = job[x] => w = x

\* Who has a slot.
HasSlot(t) == \/ \E i \in 1..Len(queue) : queue[i] = t
              \/ \E w \in Threads : worker[w] \in SlotPlaces /\ job[w] = t
              \/ submitter[t] = "abandon"
SlotOwners == \A t \in Tasks : t \in slots <=> HasSlot(t)

\* The status of a task nobody has run yet, and of one being run.
StatusInPlace ==
  /\ \A t \in Tasks : submitter[t] = "idle" => status[t] = "new" /\ t \notin known
  /\ \A t \in Tasks : status[t] \in {"pending", "running"} => t \in known
  /\ \A t \in Tasks : submitter[t] \in {"blocked", "acquired"}
                        => status[t] \in {"pending", "cancelled"}
  /\ \A i \in 1..Len(queue) : status[queue[i]] \in {"pending", "cancelled"}
  /\ \A w \in Threads : worker[w] = "mark" => status[job[w]] \in {"pending", "cancelled"}
  /\ \A w \in Threads : worker[w] = "run" => status[job[w]] = "running"

\* The numbers: what the sets above have to do with the two counters.
Counts == /\ active = Cardinality(slots)
          /\ permits + Cardinality(Acquired) + active = MaxWorkers

Shape == TypeOK /\ OneOwner /\ SlotOwners /\ StatusInPlace /\ WaitedTaskIsKept

IInv == Shape /\ Counts

-----------------------------------------------------------------------------
\* A runner without tasks.
LEMMA InitShape == Init => Shape
<1> SUFFICES ASSUME Init PROVE Shape
  OBVIOUS
<1> USE FiniteAssumption, MaxWorkersAssumption
    DEF Init, SubmitPlaces, WorkerPlaces, JobPlaces, SlotPlaces, Terminal
<1>1. TypeOK
  <2>1. queue \in Seq(Tasks) /\ permits \in Int /\ active \in Int /\ submitters \in Int
    OBVIOUS
  <2>2. caller \in [Callers -> {"idle", "waiting", "woken", "timedOut"}]
    OBVIOUS
  <2> QED BY <2>1, <2>2 DEF TypeOK
<1>2. OneOwner /\ SlotOwners
  BY DEF OneOwner, SlotOwners, HasSlot
<1>3. StatusInPlace /\ WaitedTaskIsKept
  BY DEF StatusInPlace, WaitedTaskIsKept
<1> QED BY <1>1, <1>2, <1>3 DEF Shape

\* Ownership and statuses, one step per action.
LEMMA NextShape == Shape /\ [Next]_vars => Shape'
<1> SUFFICES ASSUME Shape, [Next]_vars PROVE Shape'
  OBVIOUS
<1> USE FiniteAssumption
    DEF Shape, TypeOK, OneOwner, SlotOwners, HasSlot, StatusInPlace,
        WaitedTaskIsKept, SubmitPlaces, WorkerPlaces, JobPlaces, SlotPlaces, Terminal,
        taskVars, slotVars, workerVars, callVars, Pending, Wake
<1>1. ASSUME NEW t \in Tasks, Submit(t) PROVE Shape'
  BY <1>1 DEF Submit
<1>2. ASSUME NEW t \in Tasks, SemAcquire(t) PROVE Shape'
  BY <1>2 DEF SemAcquire
<1>3. ASSUME NEW t \in Tasks, SemInterrupt(t) PROVE Shape'
  BY <1>3 DEF SemInterrupt
<1>4. ASSUME NEW t \in Tasks, Enqueue(t) PROVE Shape'
  <2>1. PICK S \in SUBSET (Threads \ Registered) :
          worker' = [w \in Threads |-> IF w \in S THEN "idle" ELSE worker[w]]
    BY <1>4 DEF Enqueue, StartableSets
  <2>2. \A w \in Threads : w \in S => worker[w] = "none" /\ job[w] = None
    BY <2>1 DEF Registered
  <2>3. /\ submitter[t] = "acquired" /\ t \in known /\ status[t] = "pending"
        /\ slots' = slots \cup {t}
        /\ queue' = Append(queue, t)
        /\ submitter' = [submitter EXCEPT ![t] = "leaving"]
        /\ active' \in Int
        /\ UNCHANGED <<taskVars, submitters, permits, job, callVars, closed, closer>>
    BY <1>4 DEF Enqueue, WasCancelled
  <2>4. /\ Len(queue') = Len(queue) + 1 /\ queue'[Len(queue) + 1] = t
        /\ \A i \in 1..Len(queue) : queue'[i] = queue[i]
    BY <2>3
  <2>5. TypeOK' /\ WaitedTaskIsKept' /\ StatusInPlace'
    BY <2>1, <2>2, <2>3, <2>4
  <2>6. OneOwner'
    BY <2>1, <2>2, <2>3, <2>4
  <2>7. SlotOwners'
    BY <2>1, <2>2, <2>3, <2>4
  <2> QED BY <2>5, <2>6, <2>7
<1>5. ASSUME NEW t \in Tasks, StartError(t) PROVE Shape'
  BY <1>5, SMTT(30) DEF StartError, WasCancelled
<1>6. ASSUME NEW t \in Tasks, Abandon(t) PROVE Shape'
  BY <1>6 DEF Abandon
<1>7. ASSUME NEW t \in Tasks, ReleaseAbandoned(t) PROVE Shape'
  BY <1>7 DEF ReleaseAbandoned, ReleaseSlot
<1>8. ASSUME NEW t \in Tasks, Leave(t) PROVE Shape'
  BY <1>8 DEF Leave
<1>9. ASSUME NEW t \in Tasks, Cancel(t) PROVE Shape'
  BY <1>9 DEF Cancel, CancelPending
<1>10. ASSUME NEW w \in Threads, Get(w) PROVE Shape'
  <2>1. /\ worker[w] = "idle" /\ queue # <<>>
        /\ job' = [job EXCEPT ![w] = queue[1]]
        /\ worker' = [worker EXCEPT ![w] = "mark"]
        /\ UNCHANGED <<taskVars, submitter, submitters, permits, active, slots,
                       callVars, closed, closer>>
    BY <1>10 DEF Get
  <2>2. /\ Len(queue) > 0 /\ queue' \in Seq(Tasks) /\ Len(queue') = Len(queue) - 1
        /\ \A i \in 1..Len(queue') : queue'[i] = queue[i + 1]
    BY <1>10 DEF Get
  <2>3. /\ \A i \in 1..Len(queue) : queue[i] \in Tasks
        /\ 1 \in 1..Len(queue) /\ queue[1] # None
        /\ \A i \in 1..Len(queue') : i + 1 \in 1..Len(queue)
        /\ \A i \in 1..Len(queue) : i = 1 \/ i - 1 \in 1..Len(queue')
        /\ \A i \in 1..Len(queue) : i = 1 \/ queue'[i - 1] = queue[i]
    BY <2>2
  <2>4. TypeOK' /\ WaitedTaskIsKept'
    BY <2>1, <2>2, <2>3
  <2>5. StatusInPlace'
    BY <2>1, <2>2, <2>3
  <2>6. OneOwner'
    BY <2>1, <2>2, <2>3
  <2>7. SlotOwners'
    <3> SUFFICES ASSUME NEW t \in Tasks PROVE HasSlot(t)' <=> HasSlot(t)
      BY <2>1
    <3>1. HasSlot(t)' => HasSlot(t)
      BY <2>1, <2>2, <2>3
    <3>2. HasSlot(t) => HasSlot(t)'
      <4>1. CASE \E i \in 1..Len(queue) : queue[i] = t
        <5>1. PICK i \in 1..Len(queue) : queue[i] = t
          BY <4>1
        <5>2. CASE i = 1
          BY <5>1, <5>2, <2>1
        <5>3. CASE i # 1
          BY <5>1, <5>3, <2>3
        <5> QED BY <5>2, <5>3
      <4>2. CASE \E x \in Threads : worker[x] \in SlotPlaces /\ job[x] = t
        BY <4>2, <2>1
      <4> QED BY <4>1, <4>2, <2>1
    <3> QED BY <3>1, <3>2
  <2> QED BY <2>4, <2>5, <2>6, <2>7
<1>11. ASSUME NEW w \in Threads, IdleExpire(w) PROVE Shape'
  BY <1>11 DEF IdleExpire
<1>12. ASSUME NEW w \in Threads, Retire(w) PROVE Shape'
  BY <1>12 DEF Retire
<1>13. ASSUME NEW w \in Threads, TryMarkRunning(w) PROVE Shape'
  BY <1>13 DEF TryMarkRunning
<1>14. ASSUME NEW w \in Threads, DropItem(w) PROVE Shape'
  BY <1>14 DEF DropItem, ReleaseSlot
<1>15. ASSUME NEW w \in Threads, NEW r \in {"success", "failed"}, Finish(w, r)
       PROVE Shape'
  BY <1>15 DEF Finish
<1>16. ASSUME NEW w \in Threads, WorkerRelease(w) PROVE Shape'
  BY <1>16 DEF WorkerRelease, ReleaseSlot
<1>17. ASSUME NEW w \in Threads, WorkerSignal(w) PROVE Shape'
  BY <1>17 DEF WorkerSignal
<1>18. ASSUME NEW c \in Callers, WaitWake(c) \/ WaitTimeout(c) \/ WaitLeave(c)
       PROVE Shape'
  BY <1>18 DEF WaitWake, WaitTimeout, WaitLeave
<1>19. ASSUME NEW c \in Callers, NEW t \in Tasks, WaitFor(c, t) PROVE Shape'
  BY <1>19 DEF WaitFor
<1>20. CASE CancelAll
  BY <1>20 DEF CancelAll, CancelPending
<1>21. CASE CleanupOld
  BY <1>21 DEF CleanupOld, Removable, WaitedFor
<1>22. CASE Close \/ CloseNoWait
  <2>1. CASE Close
    BY <2>1 DEF Close, CancelPending
  <2>2. CASE CloseNoWait
    BY <2>2 DEF CloseNoWait, CancelPending
  <2> QED BY <1>22, <2>1, <2>2
<1>23. CASE CloseCheck \/ CloseJoin
  BY <1>23 DEF CloseCheck, CloseJoin
<1>24. CASE UNCHANGED vars
  BY <1>24 DEF vars
<1> QED BY <1>1, <1>2, <1>3, <1>4, <1>5, <1>6, <1>7, <1>8, <1>9, <1>10, <1>11, <1>12,
           <1>13, <1>14, <1>15, <1>16, <1>17, <1>18, <1>19, <1>20, <1>21, <1>22, <1>23,
           <1>24 DEF Next, SubmitStep, WorkerStep

-----------------------------------------------------------------------------
(* The counters. *)

\* There are finitely many tasks, so every set of tasks has a size.
LEMMA TaskSets ==
  ASSUME NEW S \in SUBSET Tasks
  PROVE  IsFiniteSet(S) /\ Cardinality(S) \in Nat
  BY FiniteAssumption, FS_Subset, FS_CardinalityType

\* The sizes of disjoint sets add up.
LEMMA DisjointUnion ==
  ASSUME NEW S, NEW T, IsFiniteSet(S), IsFiniteSet(T), S \cap T = {}
  PROVE  /\ IsFiniteSet(S \cup T)
         /\ Cardinality(S \cup T) = Cardinality(S) + Cardinality(T)
<1>1. /\ IsFiniteSet(S \cup T)
      /\ Cardinality(S \cup T) = Cardinality(S) + Cardinality(T) - Cardinality(S \cap T)
  BY FS_Union
<1>2. Cardinality(S \cap T) = 0 /\ Cardinality(S) \in Nat /\ Cardinality(T) \in Nat
  BY FS_EmptySet, FS_CardinalityType
<1> QED BY <1>1, <1>2

\* A queue without repetitions is as long as it has elements.
LEMMA DistinctQueue ==
  ASSUME NEW q \in Seq(Tasks), \A i, j \in 1..Len(q) : q[i] = q[j] => i = j
  PROVE  Cardinality(ToSet(q)) = Len(q)
<1>1. q \in Bijection(1..Len(q), ToSet(q))
  BY DEF Bijection, Injection, Surjection, ToSet, IsInjective
<1>2. ExistsBijection(1..Len(q), ToSet(q))
  BY <1>1 DEF ExistsBijection
<1> QED BY <1>2, FS_CountingElements, FS_Interval, FS_Bijection

\* All slots of a new runner are free.
LEMMA InitCounts == Init => Counts
<1> SUFFICES ASSUME Init PROVE Counts
  OBVIOUS
<1>1. slots = {} /\ Acquired = {} /\ permits = MaxWorkers /\ active = 0
  BY DEF Init, Acquired
<1> QED BY <1>1, FS_EmptySet, MaxWorkersAssumption DEF Counts

\* Nobody takes or returns a permit, nobody enters or leaves slots.
LEMMA SameCounts ==
  ASSUME Counts, UNCHANGED <<permits, active, slots>>, Acquired' = Acquired
  PROVE  Counts'
  BY DEF Counts

\* A task in second block of submit() turns its permit into a slot.
LEMMA TakeSlot ==
  ASSUME Shape, Counts, NEW t \in Tasks, submitter[t] = "acquired",
         NEW place \in SubmitPlaces \ {"acquired"},
         submitter' = [submitter EXCEPT ![t] = place],
         active' = active + 1, slots' = slots \cup {t}, permits' = permits
  PROVE  Counts'
<1>1. t \notin slots
  BY FiniteAssumption DEF Shape, SlotOwners, HasSlot, OneOwner, TypeOK, JobPlaces, SlotPlaces
<1>2. t \in Acquired /\ Acquired' = Acquired \ {t} /\ Acquired \in SUBSET Tasks
  BY DEF Acquired, Shape, TypeOK, SubmitPlaces
<1>3. /\ Cardinality(slots') = Cardinality(slots) + 1
      /\ Cardinality(Acquired') = Cardinality(Acquired) - 1
      /\ Cardinality(slots) \in Nat /\ Cardinality(Acquired) \in Nat
  BY <1>1, <1>2, TaskSets, FS_AddElement, FS_RemoveElement DEF Shape, TypeOK
<1> QED BY <1>3, MaxWorkersAssumption DEF Counts, Shape, TypeOK

\* _release_slot gives back exactly what its task holds.
LEMMA GiveSlotBack ==
  ASSUME Shape, Counts, NEW t, ReleaseSlot(t), Acquired' = Acquired
  PROVE  Counts'
<1>1. CASE t \in slots
  <2>1. Cardinality(slots') = Cardinality(slots) - 1
        /\ Cardinality(slots) \in Nat /\ Cardinality(Acquired) \in Nat
    BY <1>1, TaskSets, FS_RemoveElement DEF ReleaseSlot, Shape, TypeOK, Acquired
  <2> QED BY <1>1, <2>1, MaxWorkersAssumption DEF Counts, ReleaseSlot, Shape, TypeOK
<1>2. CASE t \notin slots
  BY <1>2, SameCounts DEF ReleaseSlot
<1> QED BY <1>1, <1>2

\* Every step keeps the sum of free and held slots.
LEMMA NextCounts == IInv /\ [Next]_vars => Counts'
<1> SUFFICES ASSUME IInv, [Next]_vars PROVE Counts'
  OBVIOUS
<1>0. Shape /\ Counts /\ submitter \in [Tasks -> SubmitPlaces]
  BY DEF IInv, Shape, TypeOK
<1> USE DEF taskVars, slotVars, workerVars, callVars
<1>1. ASSUME NEW t \in Tasks, Submit(t) \/ SemInterrupt(t) \/ Leave(t) \/ Cancel(t)
      PROVE Counts'
  <2>1. Acquired' = Acquired
    BY <1>0, <1>1 DEF Acquired, Submit, SemInterrupt, Leave, Cancel
  <2> QED BY <1>0, <1>1, <2>1, SameCounts DEF Submit, SemInterrupt, Leave, Cancel
<1>2. ASSUME NEW t \in Tasks, SemAcquire(t) PROVE Counts'
  <2>1. t \notin Acquired /\ Acquired' = Acquired \cup {t} /\ Acquired \in SUBSET Tasks
    BY <1>0, <1>2 DEF Acquired, SemAcquire
  <2>2. Cardinality(Acquired') = Cardinality(Acquired) + 1 /\ Cardinality(Acquired) \in Nat
    BY <2>1, TaskSets, FS_AddElement
  <2> QED BY <1>0, <1>2, <2>2, MaxWorkersAssumption DEF Counts, SemAcquire, Shape, TypeOK
<1>3. ASSUME NEW t \in Tasks, Enqueue(t) \/ StartError(t) \/ Abandon(t) PROVE Counts'
  <2>1. \E place \in SubmitPlaces \ {"acquired"} :
           /\ submitter[t] = "acquired"
           /\ submitter' = [submitter EXCEPT ![t] = place]
           /\ active' = active + 1 /\ slots' = slots \cup {t} /\ permits' = permits
    BY <1>3 DEF Enqueue, StartError, Abandon, SubmitPlaces
  <2> QED BY <1>0, <2>1, TakeSlot
<1>4. ASSUME NEW t \in Tasks, ReleaseAbandoned(t) PROVE Counts'
  <2>1. Acquired' = Acquired
    BY <1>0, <1>4 DEF Acquired, ReleaseAbandoned
  <2> QED BY <1>0, <1>4, <2>1, GiveSlotBack DEF ReleaseAbandoned
<1>5. ASSUME NEW w \in Threads, DropItem(w) \/ WorkerRelease(w) PROVE Counts'
  <2>1. ReleaseSlot(job[w]) /\ Acquired' = Acquired
    BY <1>5 DEF DropItem, WorkerRelease, Acquired
  <2> QED BY <1>0, <2>1, GiveSlotBack
<1>6. CASE UNCHANGED <<permits, active, slots, submitter>>
  BY <1>0, <1>6, SameCounts DEF Acquired
<1>7. ASSUME NEW w \in Threads, WorkerStep(w), ~DropItem(w), ~WorkerRelease(w)
      PROVE UNCHANGED <<permits, active, slots, submitter>>
  BY <1>7 DEF WorkerStep, Get, IdleExpire, Retire, TryMarkRunning, Finish, WorkerSignal
<1>8. ASSUME \/ \E c \in Callers : WaitWake(c) \/ WaitTimeout(c) \/ WaitLeave(c)
             \/ \E c \in Callers, t \in Tasks : WaitFor(c, t)
             \/ CancelAll \/ CleanupOld \/ Close \/ CloseNoWait \/ CloseCheck \/ CloseJoin
             \/ UNCHANGED vars
      PROVE UNCHANGED <<permits, active, slots, submitter>>
  BY <1>8 DEF WaitWake, WaitTimeout, WaitLeave, WaitFor, CancelAll, CleanupOld, Close,
              CloseNoWait, CloseCheck, CloseJoin, vars
<1> QED BY <1>1, <1>2, <1>3, <1>4, <1>5, <1>6, <1>7, <1>8 DEF Next, SubmitStep

\* The ownership of tasks and the two counters always agree.
LEMMA Invariant == Spec => []IInv
<1>1. Init => IInv
  BY InitShape, InitCounts DEF IInv
<1>2. IInv /\ [Next]_vars => IInv'
  BY NextShape, NextCounts DEF IInv
<1> QED BY <1>1, <1>2, PTL DEF Spec

-----------------------------------------------------------------------------
\* Submission backpressure: permits, reserved permits and slots always add up
\* to max_workers, and every slot has exactly one owner who will release it.
THEOREM SlotsCorrect == Spec => []SlotsConserved
<1>1. IInv => SlotsConserved
  <2> SUFFICES ASSUME IInv PROVE SlotsConserved
    OBVIOUS
  <2> USE FiniteAssumption DEF IInv, Shape
  <2>1. \A t \in Tasks : t \in Queued <=> \E i \in 1..Len(queue) : queue[i] = t
    BY DEF Queued, ToSet, TypeOK
  <2>2. /\ Queued \in SUBSET Tasks /\ InHand \in SUBSET Tasks
        /\ Abandoned \in SUBSET Tasks /\ slots \in SUBSET Tasks
    BY DEF Queued, ToSet, InHand, Abandoned, TypeOK, OneOwner, JobPlaces
  <2>3. slots = Queued \cup InHand \cup Abandoned
    BY <2>1, <2>2 DEF SlotOwners, HasSlot, InHand, Abandoned, SlotPlaces, JobPlaces
  <2>4. /\ Queued \cap InHand = {}
        /\ (Queued \cup InHand) \cap Abandoned = {}
    BY <2>1, <2>2 DEF InHand, Abandoned, OneOwner, JobPlaces, TypeOK
  <2>5. Cardinality(Queued) = Len(queue) /\ Len(queue) \in Nat
    <3>1. queue \in Seq(Tasks) /\ \A i, j \in 1..Len(queue) : queue[i] = queue[j] => i = j
      BY DEF OneOwner, TypeOK
    <3>2. Cardinality(ToSet(queue)) = Len(queue)
      BY <3>1, DistinctQueue
    <3> QED BY <3>1, <3>2 DEF Queued
  <2>6. Cardinality(slots) = Cardinality(Queued) + Cardinality(InHand) + Cardinality(Abandoned)
    <3>1. /\ IsFiniteSet(Queued) /\ IsFiniteSet(InHand) /\ IsFiniteSet(Abandoned)
          /\ Cardinality(Queued) \in Nat /\ Cardinality(InHand) \in Nat
          /\ Cardinality(Abandoned) \in Nat
      BY <2>2, TaskSets
    <3>2. /\ IsFiniteSet(Queued \cup InHand)
          /\ Cardinality(Queued \cup InHand) = Cardinality(Queued) + Cardinality(InHand)
      BY <3>1, <2>4, DisjointUnion
    <3>3. Cardinality((Queued \cup InHand) \cup Abandoned)
            = Cardinality(Queued \cup InHand) + Cardinality(Abandoned)
      BY <3>1, <3>2, <2>4, DisjointUnion
    <3> QED BY <2>3, <3>1, <3>2, <3>3
  <2> QED BY <2>3, <2>5, <2>6 DEF SlotsConserved, Counts
<1> QED BY <1>1, Invariant, PTL

\* cleanup_old never removes a task that a wait_for call is registered for.
THEOREM WaitedTaskStays == Spec => []WaitedTaskIsKept
<1>1. IInv => WaitedTaskIsKept
  BY DEF IInv, Shape
<1> QED BY <1>1, Invariant, PTL

\* A final status is final: a worker that picks up or finishes a task, a
\* cancel, a failed start and close() each find a status they may change.
THEOREM FinalIsFinal == Spec => FinalStatusSticks
<1> DEFINE Sticks == \A t \in Tasks : status[t] \in Terminal => status'[t] = status[t]
<1>1. ASSUME IInv, [Next]_vars PROVE [Sticks]_vars
  <2> USE <1>1 DEF IInv, Shape, TypeOK, StatusInPlace, Terminal, Pending
  <2>1. ASSUME NEW t \in Tasks, Submit(t) \/ SemInterrupt(t) \/ StartError(t) \/ Cancel(t)
        PROVE Sticks
    BY <2>1 DEF Submit, SemInterrupt, StartError, WasCancelled, Cancel, CancelPending
  <2>2. ASSUME NEW t \in Tasks, SubmitStep(t) PROVE Sticks
    BY <2>2 DEF SubmitStep, SemAcquire, Enqueue, Abandon, ReleaseAbandoned, Leave, taskVars
  <2>3. ASSUME NEW w \in Threads, TryMarkRunning(w) PROVE Sticks
    BY <2>3, FiniteAssumption DEF TryMarkRunning, OneOwner, JobPlaces
  <2>4. ASSUME NEW w \in Threads, NEW r \in {"success", "failed"}, Finish(w, r) PROVE Sticks
    BY <2>4, FiniteAssumption DEF Finish, OneOwner, JobPlaces
  <2>5. ASSUME NEW w \in Threads, \/ Get(w) \/ IdleExpire(w) \/ Retire(w) \/ DropItem(w)
                                  \/ WorkerRelease(w) \/ WorkerSignal(w)
        PROVE Sticks
    BY <2>5 DEF Get, IdleExpire, Retire, DropItem, WorkerRelease, WorkerSignal, taskVars
  <2>6. CASE CancelAll \/ Close \/ CloseNoWait
    BY <2>6 DEF CancelAll, Close, CloseNoWait, CancelPending
  <2>7. ASSUME \/ \E c \in Callers : WaitWake(c) \/ WaitTimeout(c) \/ WaitLeave(c)
               \/ \E c \in Callers, t \in Tasks : WaitFor(c, t)
               \/ CleanupOld \/ CloseCheck \/ CloseJoin
        PROVE Sticks
    BY <2>7 DEF WaitWake, WaitTimeout, WaitLeave, WaitFor, CleanupOld, CloseCheck,
                CloseJoin, taskVars
  <2> QED BY <2>1, <2>2, <2>3, <2>4, <2>5, <2>6, <2>7 DEF Next, WorkerStep
<1> QED BY Invariant, <1>1, PTL DEF Spec, FinalStatusSticks
=============================================================================

------------------------ MODULE BatchExecutor_proofs ------------------------
(***************************************************************************)
(* What one execute() call promises, for every list of hosts, every        *)
(* max_concurrency and every retry_count: bounded connections, nothing     *)
(* left behind, a complete result and no run repeated without a retryable  *)
(* error.  All rests on who has a host: the iterator, then one worker,     *)
(* then the queue or main; and on what a worker may know at each place.    *)
(***************************************************************************)
EXTENDS BatchExecutor, FiniteSetTheorems, TLAPS

MainPlaces == {"prepare", "submit", "ready", "get", "collect", "futures", "interrupted",
               "failed", "handling", "cancelling", "join", "joinRaise", "returned", "raised",
               "abandoned"}
\* Places of a worker whose host may have a connection, and of one with a host.
ConnPlaces == {"connect", "run", "after", "close"}
HostPlaces == ConnPlaces \cup {"publish", "put"}
WorkerPlaces == {"none", "pending", "loop", "next", "dead"} \cup HostPlaces
Outcomes == {"done", "failed", None} \cup Errors \cup Fatal

\* The types of the variables (prepared and external matter only as sets).
Types ==
  /\ main \in MainPlaces
  /\ submitted \in Nat
  /\ todo \in Seq(Hosts)
  /\ stop \in BOOLEAN
  /\ queue \in Seq(Hosts \X Outcomes)
  /\ DOMAIN results \subseteq Hosts
  /\ worker \in [Workers -> WorkerPlaces]
  /\ host \in [Workers -> Hosts \cup {None}]
  /\ attempt \in [Workers -> Nat]
  /\ outcome \in [Workers -> Outcomes]

\* Workers exist only once they are submitted, one after the other, and have
\* all ended when execute() returns or raises, unless it is abandoned.
WorkersInPlace ==
  /\ main = "prepare" => submitted = 0
  /\ main \in {"prepare", "submit"} =>
       /\ submitted + 1 \in Workers
       /\ \A w \in Workers : w > submitted => worker[w] = "none"
  /\ main \in {"returned", "raised"} => \A w \in Workers : worker[w] \in {"none", "dead"}

\* A host that is not in todo any more has one worker at most, and no attempt
\* is made on one that still is.
OneWorker ==
  /\ \A i, j \in 1..Len(todo) : todo[i] = todo[j] => i = j
  /\ \A w \in Workers : worker[w] \in HostPlaces => host[w] \in Hosts
  /\ \A w \in Workers, i \in 1..Len(todo) : worker[w] \in HostPlaces => host[w] # todo[i]
  /\ \A w, v \in Workers :
       worker[w] \in HostPlaces /\ worker[v] \in HostPlaces /\ host[w] = host[v] => w = v
  /\ \A i \in 1..Len(todo) : todo[i] \notin tried

\* A worker comes to an attempt with a fresh host or after a retryable error.
Attempts ==
  \A w \in Workers :
    /\ worker[w] = "connect" /\ host[w] \in tried
         => outcome[w] = "transient" /\ attempt[w] <= RetryCount
    /\ worker[w] \in {"run", "after", "close"} => host[w] \in tried

\* "done" is reported, on its way through worker, queue and main, only for a
\* host the command was tried on.
DoneIsTried ==
  /\ \A w \in Workers : worker[w] \in {"publish", "put"} /\ outcome[w] = "done" => host[w] \in tried
  /\ \A i \in 1..Len(queue) : queue[i][2] = "done" => queue[i][1] \in tried
  /\ main = "collect" => item \in Hosts \X Outcomes /\ (item[2] = "done" => item[1] \in tried)
  /\ \A h \in DOMAIN results : results[h] = "done" => h \in tried

\* Past the collecting loop, and after _handle_interrupt, no host is missing.
Complete == main \in {"futures", "join", "returned"} => DOMAIN results = Hosts

\* A connection of the batch's own belongs to a worker at its host, and never
\* to a host with a pool of the caller's.
Connections ==
  /\ conns \cap external = {}
  /\ \A h \in conns : \E w \in Workers : worker[w] \in ConnPlaces /\ host[w] = h

IInv == /\ Types /\ WorkersInPlace /\ OneWorker /\ Attempts /\ DoneIsTried
        /\ Complete /\ Connections

-----------------------------------------------------------------------------
\* There is a worker thread, and no more than max_concurrency of them.
LEMMA WorkerCount ==
  /\ IsFiniteSet(Workers) /\ Cardinality(Workers) \in Nat
  /\ Cardinality(Workers) <= MaxConcurrency
  /\ Workers = 1..Cardinality(Workers)
  /\ 1 \in Workers
<1> DEFINE n == IF MaxConcurrency < Len(HostList) THEN MaxConcurrency ELSE Len(HostList)
<1>1. Len(HostList) \in Nat \ {0}
  BY BatchAssumption
<1>2. n \in Nat /\ 1 <= n /\ n <= MaxConcurrency
  BY <1>1, BatchAssumption
<1>3. Workers = 1..n
  BY WorkersAssumption
<1> HIDE DEF n
<1>4. IsFiniteSet(1..n) /\ Cardinality(1..n) = n
  BY <1>2, FS_Interval
<1> QED BY <1>2, <1>3, <1>4

\* The list has a place for every host.
LEMMA HostCount ==
  /\ IsFiniteSet(Hosts) /\ Cardinality(Hosts) \in Nat
  /\ Total \in Nat /\ Cardinality(Hosts) <= Total
  /\ HostList \in Seq(Hosts)
<1>1. HostList \in Seq(Hosts) /\ Len(HostList) \in Nat /\ DOMAIN HostList = 1..Len(HostList)
  BY BatchAssumption DEF Hosts
<1>2. HostList \in Surjection(1..Len(HostList), Hosts)
  <2>1. HostList \in [1..Len(HostList) -> Hosts]
    BY <1>1
  <2>2. \A h \in Hosts : \E i \in 1..Len(HostList) : HostList[i] = h
    BY <1>1 DEF Hosts, ToSet
  <2> QED BY <2>1, <2>2 DEF Surjection
<1>3. IsFiniteSet(1..Len(HostList)) /\ Cardinality(1..Len(HostList)) = Len(HostList)
  BY <1>1, FS_Interval
<1>4. IsFiniteSet(Hosts) /\ Cardinality(Hosts) <= Len(HostList)
  BY <1>2, <1>3, FS_Surjection
<1> QED BY <1>1, <1>4, FS_CardinalityType DEF Total

\* A set of results that is as large as the list leaves no host out.
LEMMA AllCollected ==
  ASSUME NEW R \in SUBSET Hosts, ~(Cardinality(R) < Total)
  PROVE  R = Hosts
<1>1. IsFiniteSet(R) /\ Cardinality(R) \in Nat /\ Cardinality(R) <= Cardinality(Hosts)
  BY HostCount, FS_Subset, FS_CardinalityType
<1>2. Cardinality(R) = Cardinality(Hosts)
  BY <1>1, HostCount
<1> QED BY <1>2, HostCount, FS_Subset

\* Nothing has happened yet.
LEMMA InitInv == Init => IInv
<1> SUFFICES ASSUME Init PROVE IInv
  OBVIOUS
<1> USE DEF Init
<1>1. Types
  <2>1. DOMAIN results \subseteq Hosts
    OBVIOUS
  <2>2. main \in MainPlaces /\ stop \in BOOLEAN
    BY DEF MainPlaces
  <2>3. todo \in Seq(Hosts) /\ queue \in Seq(Hosts \X Outcomes)
    BY HostCount
  <2>4. worker \in [Workers -> WorkerPlaces] /\ outcome \in [Workers -> Outcomes]
    BY DEF WorkerPlaces, Outcomes
  <2>5. host \in [Workers -> Hosts \cup {None}] /\ attempt \in [Workers -> Nat]
    OBVIOUS
  <2> QED BY <2>1, <2>2, <2>3, <2>4, <2>5 DEF Types
<1>2. WorkersInPlace
  BY WorkerCount DEF WorkersInPlace
<1>3. OneWorker
  BY BatchAssumption, HostCount DEF OneWorker, HostPlaces, ConnPlaces, IsInjective
<1>4. Attempts /\ DoneIsTried /\ Complete /\ Connections
  BY DEF Attempts, DoneIsTried, Complete, Connections
<1> QED BY <1>1, <1>2, <1>3, <1>4 DEF IInv

\* The calling thread.
LEMMA MainKeeps ==
  ASSUME IInv, MainStep \/ SubmitError \/ Interrupt \/ InterruptHandler \/ InterruptJoin
  PROVE  IInv'
<1> USE DEF IInv, MainPlaces
\* A step that only moves main.
<1>0. ASSUME NEW place \in MainPlaces \ {"prepare", "submit", "collect"}, MainTo(place),
             place \in {"futures", "join", "returned"} => DOMAIN results = Hosts,
             place \in {"returned", "raised"} => \A w \in Workers : worker[w] \in {"none", "dead"}
      PROVE  IInv'
  BY <1>0 DEF MainTo, Types, WorkersInPlace, OneWorker, Attempts, DoneIsTried, Complete,
              Connections
<1>1. ASSUME Prepare PROVE IInv'
  <2>1. \A w \in Workers : worker[w] = "none"
    BY <1>1, WorkerCount DEF Prepare, WorkersInPlace
  <2>2. conns = {}
    BY <2>1 DEF Connections, ConnPlaces
  <2>3. /\ main = "prepare" /\ main' \in {"submit", "prepare"}
        /\ UNCHANGED <<submitted, todo, stop, queue, item, results, worker, host, attempt,
                       outcome, conns, tried>>
    BY <1>1 DEF Prepare
  <2>4. Connections'
    BY <2>2, <2>3 DEF Connections
  <2> QED BY <2>3, <2>4 DEF Types, WorkersInPlace, OneWorker, Attempts, DoneIsTried, Complete
<1>2. ASSUME SubmitWorker PROVE IInv'
  <2> DEFINE n == submitted + 1
  <2>1. /\ main = "submit" /\ main' \in {"ready", "submit"} /\ submitted' = n
        /\ main' = "submit" => n # Cardinality(Workers)
        /\ worker' = [worker EXCEPT ![n] = "pending"]
        /\ UNCHANGED <<external, prepared, todo, stop, queue, item, results, host, attempt,
                       outcome, conns, tried>>
    BY <1>2 DEF SubmitWorker
  <2>2. n \in Workers /\ worker[n] = "none" /\ n \in Nat
    BY <2>1, WorkerCount DEF WorkersInPlace, Types
  <2>3. n # Cardinality(Workers) => n + 1 \in Workers
    BY <2>2, WorkerCount
  <2>4. /\ worker'[n] = "pending"
        /\ \A w \in Workers : w # n => worker'[w] = worker[w]
    BY <2>1, <2>2 DEF Types
  <2>5. Types'
    BY <2>1, <2>2 DEF Types, WorkerPlaces
  <2>6. WorkersInPlace'
    <3>1. \A w \in Workers : w > n => w # n /\ w > submitted
      BY <2>2, WorkerCount DEF Types
    <3> QED BY <2>1, <2>3, <2>4, <3>1 DEF WorkersInPlace
  <2>7. OneWorker' /\ Attempts' /\ DoneIsTried'
    BY <2>1, <2>4 DEF OneWorker, Attempts, DoneIsTried, HostPlaces, ConnPlaces
  <2>8. Complete' /\ Connections'
    BY <2>1, <2>2, <2>4 DEF Complete, Connections, ConnPlaces
  <2> QED BY <2>5, <2>6, <2>7, <2>8
<1>3. ASSUME SubmitError PROVE IInv'
  BY <1>0, <1>3 DEF SubmitError
<1>4. ASSUME GetCompletion PROVE IInv'
  <2>1. /\ main = "get" /\ main' = "collect" /\ queue # <<>>
        /\ item' = Head(queue) /\ queue' = Tail(queue)
        /\ UNCHANGED <<external, prepared, submitted, todo, stop, results, worker, host,
                       attempt, outcome, conns, tried>>
    BY <1>4 DEF GetCompletion
  <2>2. /\ queue \in Seq(Hosts \X Outcomes) /\ 1 \in 1..Len(queue)
        /\ item' = queue[1] /\ item' \in Hosts \X Outcomes
        /\ queue' \in Seq(Hosts \X Outcomes) /\ Len(queue') = Len(queue) - 1
        /\ \A i \in 1..Len(queue') : queue'[i] = queue[i + 1] /\ i + 1 \in 1..Len(queue)
    BY <2>1 DEF Types
  <2>3. DoneIsTried'
    BY <2>1, <2>2 DEF DoneIsTried
  <2> QED BY <2>1, <2>2, <2>3 DEF Types, WorkersInPlace, OneWorker, Attempts, Complete,
                                  Connections
<1>5. ASSUME Collect PROVE IInv'
  <2>1. /\ main = "collect" /\ main' \in {"get", "futures"}
        /\ main' = "futures" => ~(Cardinality(DOMAIN results') < Total)
        /\ results' = [h \in DOMAIN results \cup {item[1]} |->
                         IF h = item[1] THEN item[2] ELSE results[h]]
        /\ UNCHANGED <<external, prepared, submitted, todo, stop, queue, worker, host,
                       attempt, outcome, conns, tried>>
    BY <1>5 DEF Collect
  <2>2. item \in Hosts \X Outcomes /\ (item[2] = "done" => item[1] \in tried)
    BY <2>1 DEF DoneIsTried
  <2>3. DOMAIN results' \subseteq Hosts
    BY <2>1, <2>2 DEF Types
  <2>4. Complete'
    BY <2>1, <2>3, AllCollected DEF Complete
  <2>5. \A h \in DOMAIN results' : results'[h] = "done" => h \in tried
    BY <2>1, <2>2 DEF DoneIsTried
  <2>6. DoneIsTried'
    BY <2>1, <2>5 DEF DoneIsTried
  <2>7. Types' /\ WorkersInPlace'
    BY <2>1, <2>3 DEF Types, WorkersInPlace
  <2>8. OneWorker' /\ Attempts' /\ Connections'
    BY <2>1 DEF OneWorker, Attempts, Connections
  <2> QED BY <2>4, <2>6, <2>7, <2>8
<1>6. ASSUME RaiseOutcome PROVE IInv'
  <2>1. /\ main = "collect" /\ main' \in {"interrupted", "failed"}
        /\ UNCHANGED <<external, prepared, submitted, todo, stop, queue, results, worker, host,
                       attempt, outcome, conns, tried>>
    BY <1>6 DEF RaiseOutcome
  <2> QED BY <2>1 DEF Types, WorkersInPlace, OneWorker, Attempts, DoneIsTried,
                      Complete, Connections
<1>7. ASSUME Interrupt PROVE IInv'
  BY <1>7 DEF Interrupt, Types, WorkersInPlace, OneWorker, Attempts, DoneIsTried,
              Complete, Connections
<1>8. ASSUME FuturesDone PROVE IInv'
  BY <1>0, <1>8 DEF FuturesDone, Complete
<1>9. ASSUME NEW some \in SUBSET Workers, CancelFutures(some),
             worker' \in [Workers -> WorkerPlaces],
             main \in {"handling", "cancelling"},
             main' \in {"join", "joinRaise"},
             main' = "join" => DOMAIN results' = Hosts,
             DOMAIN results' \subseteq Hosts,
             \A h \in DOMAIN results' : results'[h] = "done" => h \in tried,
             UNCHANGED <<external, prepared, submitted, todo, stop, queue, item, host, attempt,
                         outcome, conns, tried>>
      PROVE  IInv'
  <2>1. \A w \in Workers : \/ worker'[w] = worker[w]
                           \/ worker[w] = "pending" /\ worker'[w] = "dead"
    BY <1>9 DEF CancelFutures
  <2>2. Types' /\ WorkersInPlace' /\ Complete'
    BY <1>9 DEF Types, WorkersInPlace, Complete
  <2>3. OneWorker' /\ Attempts' /\ DoneIsTried'
    BY <1>9, <2>1 DEF OneWorker, Attempts, DoneIsTried, HostPlaces, ConnPlaces
  <2>4. Connections'
    BY <1>9, <2>1 DEF Connections, ConnPlaces
  <2> QED BY <2>2, <2>3, <2>4
<1>10. \A some \in SUBSET Workers : CancelFutures(some) => worker' \in [Workers -> WorkerPlaces]
  BY DEF CancelFutures, Types, WorkerPlaces
<1>11. ASSUME HandleInterrupt PROVE IInv'
  <2>1. /\ DOMAIN results' = Hosts
        /\ \A h \in Hosts : results'[h] = IF h \in DOMAIN results THEN results[h] ELSE "interrupted"
    BY <1>11 DEF HandleInterrupt
  <2>2. \A h \in DOMAIN results' : results'[h] = "done" => h \in tried
    BY <2>1 DEF DoneIsTried
  <2> QED BY <1>9, <1>10, <1>11, <2>1, <2>2 DEF HandleInterrupt
<1>12. ASSUME HandleError PROVE IInv'
  <2>1. /\ DOMAIN results' \subseteq Hosts
        /\ \A h \in DOMAIN results' : results'[h] = "done" => h \in tried
    BY <1>12 DEF HandleError, Types, DoneIsTried
  <2> QED BY <1>9, <1>10, <1>12, <2>1 DEF HandleError
<1>13. ASSUME Leave PROVE IInv'
  BY <1>0, <1>13 DEF Leave, Complete
<1>14. ASSUME BeginCollect \/ InterruptJoin PROVE IInv'
  BY <1>0, <1>14 DEF BeginCollect, InterruptJoin
<1>15. ASSUME StopWorkers PROVE IInv'
  <2>1. /\ main \in {"interrupted", "failed"} /\ main' \in {"handling", "cancelling"}
        /\ stop' = TRUE
        /\ UNCHANGED <<external, prepared, submitted, todo, queue, item, results, worker, host,
                       attempt, outcome, conns, tried>>
    BY <1>15 DEF StopWorkers
  <2> QED BY <2>1 DEF Types, WorkersInPlace, OneWorker, Attempts, DoneIsTried, Complete,
                      Connections
<1>16. ASSUME InterruptHandler PROVE IInv'
  <2>1. CASE UNCHANGED worker
    <3>1. MainTo("joinRaise")
      BY <1>16, <2>1 DEF InterruptHandler, MainTo
    <3> QED BY <1>0, <3>1
  <2>2. ASSUME main \in {"handling", "cancelling"}, NEW some \in SUBSET Workers,
               CancelFutures(some)
        PROVE  IInv'
    <3>1. /\ DOMAIN results' \subseteq Hosts
          /\ \A h \in DOMAIN results' : results'[h] = "done" => h \in tried
      BY <1>16 DEF InterruptHandler, Types, DoneIsTried
    <3>2. /\ main' = "joinRaise"
          /\ UNCHANGED <<external, prepared, submitted, todo, stop, queue, item, host, attempt,
                         outcome, conns, tried>>
      BY <1>16 DEF InterruptHandler
    <3> QED BY <1>9, <1>10, <2>2, <3>1, <3>2
  <2> QED BY <1>16, <2>1, <2>2 DEF InterruptHandler
<1> QED BY <1>1, <1>2, <1>3, <1>4, <1>5, <1>6, <1>7, <1>8, <1>11, <1>12, <1>13, <1>14, <1>15,
           <1>16 DEF MainStep

\* A worker goes on, without or with its host, or ends.
LEMMA WorkerMoves ==
  ASSUME IInv, NEW w \in Workers,
         \/ worker[w] \in {"pending", "loop", "next"}
         \/ worker[w] \in {"publish", "put"},
         \E p \in {"next", "publish", "put", "dead"} :
           /\ worker' = [worker EXCEPT ![w] = p]
           /\ p = "next" => worker[w] \in {"pending", "loop"}
           /\ p \in {"publish", "put"} => worker[w] \in {"publish", "put"},
         UNCHANGED <<mainVars, todo, stop, queue, item, host, attempt, outcome, conns, tried>>
  PROVE  IInv'
<1> USE DEF IInv, mainVars
<1>1. /\ worker'[w] \in {"next", "publish", "put", "dead"}
      /\ worker'[w] \in {"publish", "put"} => worker[w] \in {"publish", "put"}
      /\ \A v \in Workers : v # w => worker'[v] = worker[v]
      /\ worker' \in [Workers -> WorkerPlaces]
  BY DEF Types, WorkerPlaces, HostPlaces, ConnPlaces
<1>2. Types' /\ WorkersInPlace' /\ Complete'
  BY <1>1 DEF Types, WorkersInPlace, Complete
<1>3. OneWorker'
  BY <1>1 DEF OneWorker, HostPlaces, ConnPlaces
<1>4. Attempts' /\ DoneIsTried'
  BY <1>1 DEF Attempts, DoneIsTried
<1>5. Connections'
  BY <1>1 DEF Connections, ConnPlaces
<1> QED BY <1>2, <1>3, <1>4, <1>5

\* The worker threads.
LEMMA WorkerKeeps ==
  ASSUME IInv, NEW w \in Workers, WorkerStep(w)
  PROVE  IInv'
<1> USE DEF IInv, mainVars
<1>0. /\ worker \in [Workers -> WorkerPlaces] /\ host \in [Workers -> Hosts \cup {None}]
      /\ outcome \in [Workers -> Outcomes] /\ attempt \in [Workers -> Nat]
      /\ todo \in Seq(Hosts) /\ queue \in Seq(Hosts \X Outcomes)
  BY DEF Types
<1>1. CASE WorkerLoop(w)
  <2>1. \E p \in {"dead", "next"} : worker' = [worker EXCEPT ![w] = p]
    BY <1>1 DEF WorkerLoop
  <2> QED BY <1>1, <2>1, WorkerMoves DEF WorkerLoop
<1>2. CASE NextHost(w) /\ todo = <<>>
  BY <1>2, WorkerMoves DEF NextHost
<1>3. CASE NextHost(w) /\ todo # <<>>
  <2>1. /\ worker[w] = "next"
        /\ host' = [host EXCEPT ![w] = Head(todo)] /\ todo' = Tail(todo)
        /\ \/ /\ worker' = [worker EXCEPT ![w] = "publish"]
              /\ outcome' = [outcome EXCEPT ![w] = "failed"]
           \/ worker' = [worker EXCEPT ![w] = "connect"] /\ outcome' = outcome
        /\ UNCHANGED <<mainVars, stop, queue, item, attempt, conns, tried>>
    BY <1>3 DEF NextHost, Resolve
  <2>2. /\ 1 \in 1..Len(todo) /\ Head(todo) = todo[1] /\ todo[1] \in Hosts
        /\ todo' \in Seq(Hosts) /\ Len(todo') = Len(todo) - 1
        /\ \A i \in 1..Len(todo') : todo'[i] = todo[i + 1] /\ i + 1 \in 1..Len(todo) /\ i + 1 # 1
    BY <1>0, <1>3, <2>1
  <2>3. /\ host'[w] = todo[1] /\ worker'[w] \in {"publish", "connect"}
        /\ worker'[w] = "publish" => outcome'[w] = "failed"
        /\ \A v \in Workers : v # w => host'[v] = host[v] /\ worker'[v] = worker[v]
                                       /\ outcome'[v] = outcome[v]
    BY <1>0, <2>1, <2>2
  <2>4. Types' /\ WorkersInPlace' /\ Complete'
    BY <1>0, <2>1, <2>2, <2>3
       DEF Types, WorkersInPlace, Complete, WorkerPlaces, HostPlaces, ConnPlaces, Outcomes
  <2>5. OneWorker'
    BY <2>1, <2>2, <2>3 DEF OneWorker, HostPlaces, ConnPlaces
  <2>6. Attempts' /\ DoneIsTried'
    BY <2>1, <2>2, <2>3 DEF OneWorker, Attempts, DoneIsTried
  <2>7. Connections'
    BY <2>1, <2>3 DEF Connections, ConnPlaces
  <2> QED BY <2>4, <2>5, <2>6, <2>7
<1>4. CASE Connect(w)
  <2>1. /\ worker[w] = "connect" /\ tried' = tried \cup {host[w]}
        /\ worker' = [worker EXCEPT ![w] = "run"] \/ worker' = [worker EXCEPT ![w] = "after"]
        /\ \E e \in Outcomes : outcome' = [outcome EXCEPT ![w] = e]
        /\ conns' \subseteq conns \cup ({host[w]} \ external)
        /\ UNCHANGED <<mainVars, todo, stop, queue, item, host, attempt>>
    <3>1. \E e \in Outcomes : outcome' = [outcome EXCEPT ![w] = e]
      <4>1. CASE outcome' = outcome
        <5>1. outcome[w] \in Outcomes /\ outcome = [outcome EXCEPT ![w] = outcome[w]]
          BY <1>0
        <5> QED BY <4>1, <5>1
      <4>2. CASE \E e \in Errors \cup Fatal : outcome' = [outcome EXCEPT ![w] = e]
        BY <4>2 DEF Outcomes
      <4> QED BY <1>4, <4>1, <4>2 DEF Connect
    <3> QED BY <1>4, <3>1 DEF Connect, At, Owned
  <2>2. /\ worker'[w] \in {"run", "after"}
        /\ \A v \in Workers : v # w => worker'[v] = worker[v] /\ outcome'[v] = outcome[v]
    BY <1>0, <2>1
  <2>3. Types' /\ WorkersInPlace' /\ Complete'
    BY <1>0, <2>1, <2>2
       DEF Types, WorkersInPlace, Complete, WorkerPlaces, HostPlaces, ConnPlaces
  <2>4. OneWorker'
    BY <2>1, <2>2 DEF OneWorker, HostPlaces, ConnPlaces
  <2>5. Attempts'
    BY <2>1, <2>2 DEF OneWorker, Attempts, HostPlaces, ConnPlaces
  <2>6. DoneIsTried' /\ Connections'
    BY <2>1, <2>2 DEF DoneIsTried, Connections, ConnPlaces
  <2> QED BY <2>3, <2>4, <2>5, <2>6
<1>5. CASE Run(w)
  <2>1. /\ worker[w] = "run" /\ worker' = [worker EXCEPT ![w] = "after"]
        /\ \E e \in Outcomes : outcome' = [outcome EXCEPT ![w] = e]
        /\ conns' \subseteq conns
        /\ UNCHANGED <<mainVars, todo, stop, queue, item, host, attempt, tried>>
    BY <1>0, <1>5 DEF Run, At, Outcomes
  <2>2. /\ worker'[w] = "after"
        /\ \A v \in Workers : v # w => worker'[v] = worker[v] /\ outcome'[v] = outcome[v]
    BY <1>0, <2>1
  <2>3. Types' /\ WorkersInPlace' /\ Complete'
    BY <1>0, <2>1, <2>2
       DEF Types, WorkersInPlace, Complete, WorkerPlaces, HostPlaces, ConnPlaces
  <2>4. OneWorker' /\ Attempts' /\ DoneIsTried' /\ Connections'
    BY <2>1, <2>2 DEF OneWorker, Attempts, DoneIsTried, Connections, HostPlaces, ConnPlaces
  <2> QED BY <2>3, <2>4
<1>6. CASE AfterAttempt(w)
  <2>1. /\ worker[w] = "after"
        /\ \/ /\ worker' = [worker EXCEPT ![w] = "connect"]
              /\ outcome[w] = "transient" /\ outcome' = outcome
              /\ attempt' = [attempt EXCEPT ![w] = @ + 1] /\ attempt[w] < RetryCount
           \/ /\ worker' = [worker EXCEPT ![w] = "close"]
              /\ attempt' = [attempt EXCEPT ![w] = 0]
              /\ outcome' = [outcome EXCEPT ![w] = IF @ \in Errors THEN "failed" ELSE @]
        /\ UNCHANGED <<mainVars, todo, stop, queue, item, host, conns, tried>>
    BY <1>6 DEF AfterAttempt, At, Retries
  <2>2. /\ worker'[w] \in {"connect", "close"}
        /\ worker'[w] = "connect" => outcome'[w] = "transient" /\ attempt'[w] <= RetryCount
        /\ \A v \in Workers : v # w => /\ worker'[v] = worker[v] /\ outcome'[v] = outcome[v]
                                       /\ attempt'[v] = attempt[v]
    BY <1>0, <2>1, BatchAssumption
  <2>3. outcome' \in [Workers -> Outcomes] /\ attempt' \in [Workers -> Nat]
    BY <1>0, <2>1, SMTT(30) DEF Outcomes
  <2>4. Types' /\ WorkersInPlace' /\ Complete'
    BY <1>0, <2>1, <2>2, <2>3
       DEF Types, WorkersInPlace, Complete, WorkerPlaces, HostPlaces, ConnPlaces
  <2>5. OneWorker' /\ Attempts' /\ DoneIsTried' /\ Connections'
    BY <2>1, <2>2 DEF OneWorker, Attempts, DoneIsTried, Connections, HostPlaces, ConnPlaces
  <2> QED BY <2>4, <2>5
<1>7. CASE CloseInternal(w)
  <2>1. /\ worker[w] = "close" /\ worker' = [worker EXCEPT ![w] = "publish"]
        /\ conns' = IF host[w] \notin external THEN conns \ {host[w]} ELSE conns
        /\ UNCHANGED <<mainVars, todo, stop, queue, item, host, attempt, outcome, tried>>
    BY <1>7 DEF CloseInternal, At, Owned
  <2>2. conns' \subseteq conns /\ host[w] \notin conns'
    BY <2>1 DEF Connections
  <2>3. /\ worker'[w] = "publish"
        /\ \A v \in Workers : v # w => worker'[v] = worker[v]
    BY <1>0, <2>1
  <2>4. Connections'
    BY <2>1, <2>2, <2>3 DEF Connections, ConnPlaces
  <2>5. Types' /\ WorkersInPlace' /\ Complete'
    BY <1>0, <2>1, <2>3
       DEF Types, WorkersInPlace, Complete, WorkerPlaces, HostPlaces, ConnPlaces
  <2>6. OneWorker' /\ Attempts' /\ DoneIsTried'
    BY <2>1, <2>3 DEF OneWorker, Attempts, DoneIsTried, HostPlaces, ConnPlaces
  <2> QED BY <2>4, <2>5, <2>6
<1>8. CASE PublishCheck(w)
  <2>1. \E p \in {"dead", "put"} : worker' = [worker EXCEPT ![w] = p]
    BY <1>8 DEF PublishCheck
  <2> QED BY <1>8, <2>1, WorkerMoves DEF PublishCheck
<1>9. CASE Publish(w)
  <2>1. /\ worker[w] = "put"
        /\ queue' = Append(queue, <<host[w], outcome[w]>>)
        /\ worker' = [worker EXCEPT ![w] = "dead"] \/ worker' = [worker EXCEPT ![w] = "loop"]
        /\ host' = [host EXCEPT ![w] = None]
        /\ outcome' = [outcome EXCEPT ![w] = None]
        /\ UNCHANGED <<mainVars, todo, stop, item, attempt, conns, tried>>
    BY <1>9 DEF Publish
  <2>2. /\ worker'[w] \in {"dead", "loop"}
        /\ \A v \in Workers : v # w => /\ worker'[v] = worker[v] /\ outcome'[v] = outcome[v]
                                       /\ host'[v] = host[v]
    BY <1>0, <2>1
  <2>3. /\ host[w] \in Hosts /\ <<host[w], outcome[w]>> \in Hosts \X Outcomes
        /\ outcome[w] = "done" => host[w] \in tried
    BY <1>0, <2>1 DEF OneWorker, DoneIsTried, HostPlaces
  <2>4. /\ queue' \in Seq(Hosts \X Outcomes) /\ Len(queue') = Len(queue) + 1
        /\ queue'[Len(queue) + 1] = <<host[w], outcome[w]>>
        /\ \A i \in 1..Len(queue) : queue'[i] = queue[i]
    BY <1>0, <2>1, <2>3
  <2>5. DoneIsTried'
    <3>1. \A i \in 1..Len(queue') : queue'[i][2] = "done" => queue'[i][1] \in tried
      <4>1. ASSUME NEW i \in 1..Len(queue'), queue'[i][2] = "done" PROVE queue'[i][1] \in tried
        <5>1. CASE i \in 1..Len(queue)
          BY <2>4, <4>1, <5>1 DEF DoneIsTried
        <5>2. CASE i = Len(queue) + 1
          <6>1. queue'[i] = <<host[w], outcome[w]>>
            BY <2>4, <5>2
          <6> QED BY <2>3, <4>1, <6>1
        <5>3. Len(queue) \in Nat
          BY <1>0
        <5> QED BY <2>4, <5>1, <5>2, <5>3
      <4> QED BY <4>1
    <3> QED BY <2>1, <2>2, <3>1 DEF DoneIsTried
  <2>6. Types' /\ WorkersInPlace' /\ Complete'
    BY <1>0, <2>1, <2>2, <2>4
       DEF Types, WorkersInPlace, Complete, WorkerPlaces, HostPlaces, ConnPlaces, Outcomes
  <2>7. OneWorker' /\ Attempts' /\ Connections'
    BY <2>1, <2>2 DEF OneWorker, Attempts, Connections, HostPlaces, ConnPlaces
  <2> QED BY <2>5, <2>6, <2>7
<1>10. CASE PutTimeout(w)
  BY <1>10, WorkerMoves DEF PutTimeout, At
<1> QED BY <1>1, <1>2, <1>3, <1>4, <1>5, <1>6, <1>7, <1>8, <1>9, <1>10 DEF WorkerStep

\* Every step keeps the invariant.
LEMMA NextInv == IInv /\ [Next]_vars => IInv'
<1>1. CASE UNCHANGED vars
  BY <1>1 DEF vars, IInv, Types, WorkersInPlace, OneWorker, Attempts, DoneIsTried, Complete,
              Connections
<1> QED BY <1>1, MainKeeps, WorkerKeeps DEF Next, Finished

\* The inductive invariant holds in every reachable state.
LEMMA Invariant == Spec => []IInv
<1> QED BY InitInv, NextInv, PTL DEF Spec

-----------------------------------------------------------------------------
\* A batch never has more than max_concurrency connections of its own, and each
\* belongs to a host a worker is at.
THEOREM ConnectionsCorrect == Spec => []ConnectionsBounded
<1>1. IInv => ConnectionsBounded
  <2> SUFFICES ASSUME IInv PROVE ConnectionsBounded
    OBVIOUS
  <2> DEFINE A == { x \in Workers : worker[x] \in {"connect", "run", "after", "close"} }
             I == { host[w] : w \in A }
             f == [w \in A |-> host[w]]
  <2>1. conns \subseteq I
    BY DEF IInv, Connections, ConnPlaces
  <2>2. IsFiniteSet(A) /\ Cardinality(A) <= Cardinality(Workers) /\ Cardinality(A) \in Nat
    <3>1. A \subseteq Workers
      OBVIOUS
    <3> HIDE DEF A
    <3> QED BY <3>1, WorkerCount, FS_Subset, FS_CardinalityType
  <2>3. f \in Surjection(A, I)
    BY DEF Surjection
  <2> HIDE DEF f, I, A
  <2>4. IsFiniteSet(I) /\ Cardinality(I) <= Cardinality(A)
    BY <2>2, <2>3, FS_Surjection
  <2>5. Cardinality(conns) <= Cardinality(I)
    BY <2>1, <2>4, FS_Subset
  <2>6. Cardinality(conns) \in Nat /\ Cardinality(I) \in Nat
    BY <2>1, <2>4, FS_Subset, FS_CardinalityType
  <2>7. Cardinality(conns) <= MaxConcurrency
    BY <2>2, <2>4, <2>5, <2>6, WorkerCount, BatchAssumption
  <2> QED BY <2>1, <2>7 DEF ConnectionsBounded, I, A
<1> QED BY <1>1, Invariant, PTL

\* When execute() has returned or raised, no worker runs and no connection of
\* the batch's own is open, wherever a Ctrl-C fell and whichever handler a second
\* one broke off; a Ctrl-C in the join itself is the one way to leave workers.
THEOREM NothingStays == Spec => []NothingLeftBehind
<1>1. IInv => NothingLeftBehind
  BY DEF IInv, WorkersInPlace, Connections, ConnPlaces, NothingLeftBehind
<1> QED BY <1>1, Invariant, PTL

\* A batch that returns reports every host, and a run only where one was made.
THEOREM ResultsCorrect == Spec => []ResultsComplete
<1>1. IInv => ResultsComplete
  BY DEF IInv, Complete, DoneIsTried, ResultsComplete
<1> QED BY <1>1, Invariant, PTL

\* A command is run again on a host only after a retryable error, by the same
\* worker, and at most RetryCount times.
THEOREM RetriesCorrect == Spec => RetriedOnlyIfTransient
<1> DEFINE Allowed ==
      \A w \in Workers :
        worker[w] = "connect" /\ worker'[w] # "connect" /\ host[w] \in tried
          => outcome[w] = "transient" /\ attempt[w] <= RetryCount
<1>1. IInv => Allowed
  BY DEF IInv, Attempts
<1> QED BY <1>1, Invariant, PTL DEF RetriedOnlyIfTransient
=============================================================================

---------------------------- MODULE BatchExecutor ----------------------------
(***************************************************************************)
(* service/batch_executor.py, the synchronous kernel: one execute() call.  *)
(* A fixed set of worker threads draws hosts from one iterator, runs the   *)
(* command on each with retries, and publishes the outcome to a bounded    *)
(* queue that the calling thread ("main") collects from.  Ctrl-C may hit   *)
(* main anywhere and again while it is being handled, a BaseException may  *)
(* end a worker.                                                           *)
(* An internal pool holds at most one connection (max_connections=1);      *)
(* SyncConnectionPool models what happens inside it.  Host names, outputs, *)
(* durations and delays are left out.                                      *)
(***************************************************************************)
EXTENDS Integers, FiniteSets, Sequences, SequencesExt

CONSTANTS HostList,        \* host_names, after the removal of duplicates
          Workers,         \* 1 .. number of worker threads the instance offers
          MaxConcurrency,  \* max_concurrency
          RetryCount,      \* retry_count
          HasFactory,      \* a pool_factory was given
          Pooled,          \* hosts that resolve when the factory is asked for their pool
          MayInterrupt,    \* Ctrl-C may happen
          None

ASSUME BatchAssumption ==
  /\ HostList \in Seq(ToSet(HostList)) /\ HostList # <<>> /\ IsInjective(HostList)
  /\ MaxConcurrency \in Nat \ {0} /\ RetryCount \in Nat
  /\ HasFactory \in BOOLEAN /\ MayInterrupt \in BOOLEAN
  /\ Pooled \subseteq ToSet(HostList) /\ None \notin ToSet(HostList)
\* A thread for each of the min(max_concurrency, total) workers.
ASSUME WorkersAssumption ==
  Workers = 1 .. (IF MaxConcurrency < Len(HostList) THEN MaxConcurrency ELSE Len(HostList))

Hosts == ToSet(HostList)
Total == Len(HostList)
UsePool == HasFactory \/ RetryCount > 0 \/ Total > 1

VARIABLES main,       \* where the calling thread is
          external,   \* hosts the factory gave a pool for (external_pools)
          prepared,   \* hosts _prepare_pool has been called for
          submitted,  \* worker futures submitted so far
          todo,       \* what is left of host_iter
          stop,       \* stop_workers
          queue,      \* completed_queue: <<host, outcome>>
          item,       \* what main has taken from it and not recorded
          results,    \* results: host -> outcome
          worker,     \* where each worker is
          host,       \* the host it works on
          attempt,    \* its attempt number
          outcome,    \* what its attempt or host ended in
          conns,      \* hosts with a live connection of an internal pool or a direct client
          tried       \* history: hosts on which an attempt has been made

(***************************************************************************)
(* Places of main: "prepare", "submit" (the first try block), "ready"      *)
(* (between the two), "get", "collect" and "futures" (the second), the     *)
(* head of an except block ("interrupted", "failed") and its rest, behind  *)
(* stop_workers.set() ("handling", "cancelling"), the end of the with      *)
(* block, to return ("join") or to raise ("joinRaise"); then "returned",   *)
(* "raised" or, by a Ctrl-C in the join itself, "abandoned".               *)
(***************************************************************************)
mainVars == <<main, external, prepared, submitted, results>>
vars == <<main, external, prepared, submitted, todo, stop, queue, item, results,
          worker, host, attempt, outcome, conns, tried>>

\* Ends of an attempt: the command ran ("done", whatever its exit code), a
\* retryable or a permanent Exception, a KeyboardInterrupt or another
\* BaseException.
Errors == {"transient", "permanent"}
Fatal == {"keyboard", "exit"}
\* What a host is recorded with: a CommandResult of the command, one with an
\* error, or the failure record of an interrupted batch.
Recorded == {"done", "failed", "interrupted"}

Init ==
  /\ main = IF HasFactory THEN "prepare" ELSE "submit"
  /\ external = {} /\ prepared = {}
  /\ submitted = 0
  /\ todo = HostList
  /\ stop = FALSE
  /\ queue = <<>>
  /\ item = None
  /\ results = <<>>
  /\ worker = [w \in Workers |-> "none"]
  /\ host = [w \in Workers |-> None]
  /\ attempt = [w \in Workers |-> 0]
  /\ outcome = [w \in Workers |-> None]
  /\ conns = {}
  /\ tried = {}

-----------------------------------------------------------------------------
(* The calling thread *)

\* _prepare_pool for the next host; it is skipped if the host does not resolve.
Prepare ==
  /\ main = "prepare"
  /\ LET h == HostList[Cardinality(prepared) + 1] IN
       /\ prepared' = prepared \cup {h}
       /\ external' = external \cup ({h} \cap Pooled)
  /\ main' = IF Cardinality(prepared) + 1 = Total THEN "submit" ELSE "prepare"
  /\ UNCHANGED <<submitted, todo, stop, queue, item, results, worker, host, attempt,
                 outcome, conns, tried>>

\* executor.submit(worker)
SubmitWorker ==
  /\ main = "submit"
  /\ submitted' = submitted + 1
  /\ worker' = [worker EXCEPT ![submitted + 1] = "pending"]
  /\ main' = IF submitted + 1 = Cardinality(Workers) THEN "ready" ELSE "submit"
  /\ UNCHANGED <<external, prepared, todo, stop, queue, item, results, host, attempt,
                 outcome, conns, tried>>

\* A step of main that only moves it.
MainTo(place) ==
  /\ main' = place
  /\ UNCHANGED <<external, prepared, submitted, todo, stop, queue, item, results, worker,
                 host, attempt, outcome, conns, tried>>

\* `completed = 0`, and into the second try block.
BeginCollect == main = "ready" /\ MainTo("get")

\* future.cancel(): a worker that has not started never will.
CancelFutures(some) ==
  worker' = [w \in Workers |-> IF w \in some /\ worker[w] = "pending" THEN "dead" ELSE worker[w]]

\* Ctrl-C, an exception of the factory or a thread that cannot be started,
\* before all workers are submitted.
SubmitError ==
  \/ main = "prepare" /\ MainTo("joinRaise")
  \/ main = "submit" /\ MainTo("failed")

\* completed_queue.get()
GetCompletion ==
  /\ main = "get"
  /\ Cardinality(DOMAIN results) < Total
  /\ queue # <<>>
  /\ item' = Head(queue)
  /\ queue' = Tail(queue)
  /\ main' = "collect"
  /\ UNCHANGED <<external, prepared, submitted, todo, stop, results, worker, host,
                 attempt, outcome, conns, tried>>

\* Record an outcome, count it and call the progress callback.
Collect ==
  /\ main = "collect"
  /\ item[2] \notin Fatal
  /\ results' = [h \in DOMAIN results \cup {item[1]} |->
                   IF h = item[1] THEN item[2] ELSE results[h]]
  /\ item' = None
  /\ main' = IF Cardinality(DOMAIN results') < Total THEN "get" ELSE "futures"
  /\ UNCHANGED <<external, prepared, submitted, todo, stop, queue, worker, host,
                 attempt, outcome, conns, tried>>

\* `raise outcome`: a worker's KeyboardInterrupt goes the way of a Ctrl-C, any
\* other BaseException ends the batch.
RaiseOutcome ==
  /\ main = "collect"
  /\ item[2] \in Fatal
  /\ main' = IF item[2] = "keyboard" THEN "interrupted" ELSE "failed"
  /\ item' = None
  /\ UNCHANGED <<external, prepared, submitted, todo, stop, queue, results, worker, host,
                 attempt, outcome, conns, tried>>

\* Ctrl-C in the collecting loop (also inside the callback) or in result().
Interrupt ==
  /\ MayInterrupt
  /\ main \in {"get", "collect", "futures"}
  /\ main' = "interrupted"
  /\ item' = None
  /\ UNCHANGED <<external, prepared, submitted, todo, stop, queue, results, worker, host,
                 attempt, outcome, conns, tried>>

\* Ctrl-C outside the try blocks leaves the with block by an exception: between
\* them, at the head of an except block, where stop_workers is not set yet, and
\* in the rest of one, when some of the futures are cancelled.
InterruptHandler ==
  /\ MayInterrupt
  /\ \/ main \in {"ready", "interrupted", "failed"} /\ UNCHANGED worker
     \/ main \in {"handling", "cancelling"} /\ \E some \in SUBSET Workers : CancelFutures(some)
  /\ main' = "joinRaise"
  /\ UNCHANGED <<external, prepared, submitted, todo, stop, queue, item, results, host,
                 attempt, outcome, conns, tried>>

\* Ctrl-C while the executor joins its threads: execute() raises without them.
InterruptJoin == MayInterrupt /\ main \in {"join", "joinRaise"} /\ MainTo("abandoned")

\* future.result() of every worker returns: leave the try block.
FuturesDone ==
  /\ main = "futures"
  /\ \A w \in Workers : worker[w] = "dead"
  /\ MainTo("join")

\* stop_workers.set(), in the except blocks.
StopWorkers ==
  /\ main \in {"interrupted", "failed"}
  /\ stop' = TRUE
  /\ main' = IF main = "interrupted" THEN "handling" ELSE "cancelling"
  /\ UNCHANGED <<external, prepared, submitted, todo, queue, item, results, worker, host,
                 attempt, outcome, conns, tried>>

\* Mutant: hosts without a result stay without one.
HandleInterrupt_NoRecords ==
  /\ main = "handling"
  /\ CancelFutures(Workers)
  /\ main' = "join"
  /\ UNCHANGED <<external, prepared, submitted, todo, stop, queue, item, results, host,
                 attempt, outcome, conns, tried>>

\* _handle_interrupt
HandleInterrupt ==
  /\ main = "handling"
  /\ CancelFutures(Workers)
  /\ results' = [h \in Hosts |-> IF h \in DOMAIN results THEN results[h] ELSE "interrupted"]
  /\ main' = "join"
  /\ UNCHANGED <<external, prepared, submitted, todo, stop, queue, item, host, attempt,
                 outcome, conns, tried>>

\* The `except BaseException` blocks: cancel and raise.
HandleError ==
  /\ main = "cancelling"
  /\ CancelFutures(Workers)
  /\ main' = "joinRaise"
  /\ UNCHANGED <<external, prepared, submitted, todo, stop, queue, item, results, host,
                 attempt, outcome, conns, tried>>

\* Mutant: execute() does not wait for its workers (shutdown(wait=False)).
Leave_NoJoin ==
  /\ main \in {"join", "joinRaise"}
  /\ MainTo(IF main = "join" THEN "returned" ELSE "raised")

\* Leaving the executor's with block joins the worker threads.
Leave ==
  /\ main \in {"join", "joinRaise"}
  /\ \A w \in Workers : worker[w] \in {"none", "dead"}
  /\ MainTo(IF main = "join" THEN "returned" ELSE "raised")

-----------------------------------------------------------------------------
(* The worker threads *)

At(w, from, to) == worker[w] = from /\ worker' = [worker EXCEPT ![w] = to]

\* `while not stop_workers.is_set()`, for a thread that starts or goes on.
WorkerLoop(w) ==
  /\ worker[w] \in {"pending", "loop"}
  /\ worker' = [worker EXCEPT ![w] = IF stop THEN "dead" ELSE "next"]
  /\ UNCHANGED <<mainVars, todo, stop, queue, item, host, attempt, outcome, conns, tried>>

\* resolve_host_or_error: an error result, or go on to the first attempt.
Resolve(w) ==
  \/ /\ worker' = [worker EXCEPT ![w] = "publish"]
     /\ outcome' = [outcome EXCEPT ![w] = "failed"]
  \/ /\ worker' = [worker EXCEPT ![w] = "connect"]
     /\ UNCHANGED outcome

\* next_host(), under iterator_lock: nothing left, or a host to resolve.
NextHost(w) ==
  /\ worker[w] = "next"
  /\ IF todo = <<>>
     THEN /\ worker' = [worker EXCEPT ![w] = "dead"]
          /\ UNCHANGED <<host, todo, outcome>>
     ELSE /\ host' = [host EXCEPT ![w] = Head(todo)]
          /\ todo' = Tail(todo)
          /\ Resolve(w)
  /\ UNCHANGED <<mainVars, stop, queue, item, attempt, conns, tried>>

\* The worker owns the connection to its host: no pool of the caller's is used.
Owned(w) == host[w] \notin external

\* An attempt begins: take or open a connection, or fail to.
Connect(w) ==
  /\ worker[w] = "connect"
  /\ tried' = tried \cup {host[w]}
  /\ \/ /\ At(w, "connect", "run")
        /\ conns' = IF Owned(w) THEN conns \cup {host[w]} ELSE conns
        /\ UNCHANGED outcome
     \/ /\ At(w, "connect", "after")
        /\ \E e \in Errors \cup Fatal : outcome' = [outcome EXCEPT ![w] = e]
        /\ conns' = conns \ {host[w]}
  /\ UNCHANGED <<mainVars, todo, stop, queue, item, host, attempt>>

\* The command ends, and with it the attempt: the connection goes back to its
\* pool, which may close it; a direct client disconnects.
Run(w) ==
  /\ At(w, "run", "after")
  /\ \E e \in {"done"} \cup Errors \cup Fatal : outcome' = [outcome EXCEPT ![w] = e]
  /\ conns' \in IF UsePool THEN {conns, conns \ {host[w]}} ELSE {conns \ {host[w]}}
  /\ UNCHANGED <<mainVars, todo, stop, queue, item, host, attempt, tried>>

\* Mutant: permanent errors are retried as well.
Retries_Any(w) == outcome[w] \in Errors /\ attempt[w] < RetryCount

\* Not the last attempt, and is_retryable(e).
Retries(w) == outcome[w] = "transient" /\ attempt[w] < RetryCount

\* Back off and try again, or leave the loop with the result.
AfterAttempt(w) ==
  /\ \/ /\ At(w, "after", "connect")
        /\ Retries(w)
        /\ attempt' = [attempt EXCEPT ![w] = @ + 1]
        /\ UNCHANGED outcome
     \/ /\ At(w, "after", "close")
        /\ ~Retries(w)
        /\ attempt' = [attempt EXCEPT ![w] = 0]
        /\ outcome' = [outcome EXCEPT ![w] = IF @ \in Errors THEN "failed" ELSE @]
  /\ UNCHANGED <<mainVars, todo, stop, queue, item, host, conns, tried>>

\* Mutant: the internal pool is left open.
CloseInternal_Missing(w) ==
  /\ At(w, "close", "publish")
  /\ UNCHANGED <<mainVars, todo, stop, queue, item, host, attempt, outcome, conns, tried>>

\* The finally block: close_all() of an internal pool, never of an external one.
CloseInternal(w) ==
  /\ At(w, "close", "publish")
  /\ conns' = IF Owned(w) THEN conns \ {host[w]} ELSE conns
  /\ UNCHANGED <<mainVars, todo, stop, queue, item, host, attempt, outcome, tried>>

\* publish_completion, `while not stop_workers.is_set()`: put, or give up.
PublishCheck(w) ==
  /\ worker[w] = "publish"
  /\ worker' = [worker EXCEPT ![w] = IF stop THEN "dead" ELSE "put"]
  /\ UNCHANGED <<mainVars, todo, stop, queue, item, host, attempt, outcome, conns, tried>>

QueueSize == MaxConcurrency

\* put() finds room; a worker that published a BaseException returns.
Publish(w) ==
  /\ worker[w] = "put"
  /\ Len(queue) < QueueSize
  /\ queue' = Append(queue, <<host[w], outcome[w]>>)
  /\ worker' = [worker EXCEPT ![w] = IF outcome[w] \in Fatal THEN "dead" ELSE "loop"]
  /\ host' = [host EXCEPT ![w] = None]
  /\ outcome' = [outcome EXCEPT ![w] = None]
  /\ UNCHANGED <<mainVars, todo, stop, item, attempt, conns, tried>>

\* Mutant: put() without a timeout.
PutTimeout_Never(w) == FALSE /\ w \in Workers /\ UNCHANGED vars

\* put() raises Full after 50 ms: look at the stop event again.
PutTimeout(w) ==
  /\ At(w, "put", "publish")
  /\ Len(queue) = QueueSize
  /\ UNCHANGED <<mainVars, todo, stop, queue, item, host, attempt, outcome, conns, tried>>

-----------------------------------------------------------------------------
MainStep == Prepare \/ SubmitWorker \/ BeginCollect \/ GetCompletion \/ Collect
            \/ RaiseOutcome \/ FuturesDone \/ StopWorkers \/ HandleInterrupt \/ HandleError
            \/ Leave

WorkerStep(w) == WorkerLoop(w) \/ NextHost(w) \/ Connect(w) \/ Run(w)
                 \/ AfterAttempt(w) \/ CloseInternal(w) \/ PublishCheck(w)
                 \/ Publish(w) \/ PutTimeout(w)

\* execute() is over.
Over == main \in {"returned", "raised", "abandoned"}
Finished == Over /\ UNCHANGED vars

Next == \/ MainStep \/ SubmitError \/ Interrupt \/ InterruptHandler \/ InterruptJoin
        \/ \E w \in Workers : WorkerStep(w)
        \/ Finished

Spec == Init /\ [][Next]_vars

(***************************************************************************)
(* Fairness: threads that can run do run, and a command ends (it has a     *)
(* timeout).  A put() that could succeed at its every try does so in the   *)
(* end.  Interrupts and start failures are not promised.                   *)
(***************************************************************************)
Fairness ==
  /\ WF_vars(MainStep)
  /\ \A w \in Workers : WF_vars(WorkerStep(w)) /\ SF_vars(Publish(w))

FairSpec == Spec /\ Fairness

-----------------------------------------------------------------------------
(* Properties *)

\* A batch keeps at most max_concurrency connections of its own open at any
\* time, whatever fails, is retried or interrupted: each belongs to a host some
\* worker is at, and is closed before that worker publishes or moves on.
ConnectionsBounded ==
  /\ Cardinality(conns) <= MaxConcurrency
  /\ conns \subseteq { host[w] : w \in { x \in Workers :
                        worker[x] \in {"connect", "run", "after", "close"} } }

\* When execute() has returned or raised nothing goes on in the background: no
\* worker runs, no connection of its own is open; after a Ctrl-C anywhere, and a
\* second one in its handler.  Only a Ctrl-C in the very join leaves workers
\* behind ("abandoned").
NothingLeftBehind ==
  main \in {"returned", "raised"} =>
    /\ conns = {}
    /\ \A w \in Workers : worker[w] \in {"none", "dead"}

\* A batch that returns has an entry for every host, also after an interrupt,
\* and reports a command's outcome only for a host it was tried on.
ResultsComplete ==
  main = "returned" =>
    /\ DOMAIN results = Hosts
    /\ \A h \in Hosts : results[h] = "done" => h \in tried

\* A command is run again on a host only after a retryable error: never after
\* it ran to its end, a permanent error or an interrupt, never by a second
\* worker, and not more than RetryCount times.
RetriedOnlyIfTransient ==
  [][\A w \in Workers :
       worker[w] = "connect" /\ worker'[w] # "connect" /\ host[w] \in tried
         => outcome[w] = "transient" /\ attempt[w] <= RetryCount]_vars

\* A Ctrl-C before stop_workers.set() outside the try blocks: nobody collects
\* any more, and nobody tells the workers.
Unstopped == main \in {"joinRaise", "abandoned"} /\ submitted > 0 /\ ~stop

\* execute() and its workers always come to an end: neither a full completion
\* queue after an interrupt, nor a worker ended by a BaseException, nor a failed
\* start of a thread, nor a Ctrl-C in the handler or the join leaves main or a
\* worker waiting for ever; unless a Ctrl-C falls between the two try blocks or
\* on the lines of an except block before stop_workers.set().
ExecuteEnds ==
  \/ <>(Over /\ \A w \in Workers : worker[w] \in {"none", "dead"})
  \/ <>Unstopped
=============================================================================

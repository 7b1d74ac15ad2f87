# Verification of remote-cmd

TLA+ models of the parts of `remote_cmd` in which threads, tasks, processes and
crashes meet, checked with TLC on small instances and, where marked, proved with
TLAPS for every value of the constants. Definitions follow the Python source;
`PROJECT.json` maps each of them to its lines.

## The system

`remote-cmd` manages servers over SSH from a command line and a Python API. The
layers, from the bottom:

| component | state | operations | used by |
|---|---|---|---|
| `core/budget.py` ConnectionBudget | slots in use, one deque of waiters (threads and tasks of several event loops) | `acquire`, `acquire_async`, `release`, `_notify_waiters` | both pools |
| `core/sync_connection_pool.py` | connections, free queue, leases, semaphore, monitor thread, closed flag | `acquire`, `release`, `start/stop_monitor`, `close_all` | batch executor, API |
| `core/async_connection_pool.py` | the same, in an event loop | the same, as coroutines | async batch executor |
| `core/ssh_client.py`, `async_ssh_client.py` | one SSH connection, SFTP session | `connect`, `execute`, `upload`, `download` | pools |
| `service/task_runner.py` | tasks, events, cancel flags, semaphore, work queue, workers | `submit`, `cancel`, `wait_for`, `cleanup_old`, `close` | API |
| `service/batch_executor.py`, `async_batch_executor.py`, `_host_runner.py`, `retry_policy.py` | one batch: host iterator, workers, completion queue, results | `execute` | CLI, API |
| `repository/json_host_repository.py` | hosts, profiles and recipes in memory; one JSON file | `save`, `delete`, `flush`, `_load` | services |
| `repository/sqlite_host_repository.py` | the same in SQLite, schema version | the same, migrations | services |
| `utils/crypto.py`, `credential_guard.py` | the key file | load or create the key, `encrypt`, `decrypt` | repositories, services |
| `service/host_service.py`, `profile_service.py`, `recipe_service.py` | none beyond the repository | read-modify-flush | CLI, API |
| CLI, facade, storage factory, credential providers, value objects, configuration | none that outlives a call | | |

Interactions: a pool takes a budget slot for each connection it opens and gives
it back when the connection is closed by whoever closes it first; closing a pool
wakes its waiters in the budget's queue; a batch executor opens a pool of one
connection per host and closes it before the next host; services change the
repository in memory and flush it.

What is hard in it:

- *interleaving*: borrowers, the monitor and `close_all` on one pool; submitters,
  workers, `cancel`, `cleanup_old` and `close` on one task runner; processes that
  create the key file, or open, upgrade and fill one database;
- *cancellation*: every await of the asynchronous pool may raise `CancelledError`,
  in `close_all` too;
- *hand-over at the wrong moment*: a slot granted to a waiter that is timing out,
  is being cancelled, or whose event loop has gone; a worker that gives up waiting
  when an item arrives;
- *failure half-way*: every step of `acquire` has its own undoing; a worker that
  dies; a flush that fails after memory was changed;
- *crashes*: between temporary file and rename; between creating and writing the
  key file; inside a database transaction;
- *timeouts*: the watchdog of a command against its normal end; a rename on the
  server whose reply does not come;
- *blocking*: threads in a semaphore when the pool closes; workers at a full
  completion queue nobody reads any more.

## Modules

| module | models | kind |
|---|---|---|
| `FairSemaphore` | what a budget promises: at most N owners, slots handed over in arrival order | abstract specification |
| `ConnectionBudget` | `core/budget.py` | component, implements `FairSemaphore` |
| `SyncConnectionPool` | `core/sync_connection_pool.py`, over a budget that keeps its promises and is shared with other pools | component |
| `AsyncConnectionPool` | `core/async_connection_pool.py`, over the same abstract budget | component |
| `SshLink` | the connection, the watchdog timers and the SFTP session of an `SSHClient` | shared state |
| `SshCommand` | `SSHClient.execute`, `_read_output`, `_start_command_timeout` | component |
| `SftpTransfer` | `SSHClient._get_sftp`, `upload_file`, `download_file`, `_commit_remote_upload` | component |
| `SshClient` | one client that runs commands and transfers one after the other | composition of the three |
| `SqliteStore` | `repository/sqlite_host_repository.py` | component |
| `TaskRunner` | `service/task_runner.py` | component |
| `BatchExecutor` | `service/batch_executor.py` (`_execute_sync`, `_execute_on_host`), the error classes of `retry_policy.py` | component |
| `JsonStore` | `json_host_repository.py`, `credential_guard.py`, called as the services call it | component |
| `KeyFile` | `crypto.py` `_load_or_create_key` | component |
| `X_proofs` | the theorems about `X`, for the budget, both pools, the SSH client, the task runner, the batch executor and both stores; `JsonStore_proofs` has the one about `KeyFile` too | proofs |
| `MC*` | | instances for TLC |

**Granularity.** Each block under a component's lock is one action, and so is each
system call on a file that other processes see. What happens between (connecting,
probing, running a command, sleeping) changes nothing shared. A `pc`-like variable
says where each thread, task or process is. Operators named `X_Something` are
faulty variants of `X` with which each property was tried out; no specification
uses them.

**ConnectionBudget.** `waiters` is the deque, `granted` the waiters with a reserved
slot, `future` the state of a task's future, `asleep` the threads in
`Condition.wait`. `Dispatch` is `_dispatch_waiters_locked` including what it skips
(closed pools, finished futures, loops that are closed). Timeouts, interrupts,
cancellation, closing of pools and a loop that ends with tasks in it may come at
any step.

**SyncConnectionPool.** The variables are those of the class; `snapshot` and `keep`
are the monitor's local lists, `toClose` that of `close_all`. Whether a connection is
alive, too old or idle for too long is a choice at each test. The budget is a counter,
justified by `ConnectionBudget`; `foreign` is what other pools hold of it. A `Conns`
member nobody refers to stands for a new object.

**AsyncConnectionPool.** Everything runs in one event loop, so an action is the
stretch of a task between two suspension points and the locks of the class disappear.
Every await has two ends, the normal one and `CancelledError`, and `is_connected()`
may raise wherever it is called. `_close_connection` is two stretches, before and after
`disconnect()`; `owes` records who has to give a budget slot back in between. In
`release` the disconnect of a dead or old connection returns the permit in a `finally`,
that of a connection whose `is_connected()` raised does not: cancelled there, the permit
is gone, and `lost` counts it. `close_all` has its first caller, later callers and the
recovery task that a cancelled first caller starts; that task may be cancelled as well,
by a loop that shuts down.

**SshClient.** One thread uses the client. Its watchdog (`threading.Timer`) sets its
event, decides what to close and closes it in two steps; a timer that was too late to
be cancelled goes on during the next operation (`stale`). A command writes a number
of blocks to each stream through a window, and ends or hangs. The server is external:
it carries out the requests of a session in order, may refuse each of them, and the
reply to each may be lost after or before it took effect; paramiko matches replies to
requests by number, so a late one is not taken for another's. Another client may
write the destination or move it away. Whether the server has `posix-rename` is chosen
at the start.

**SqliteStore.** `hosts` and `profiles` are the committed rows, `draft` what each
process has copied or written in a transaction that is not committed. SQLite is external:
one write lock, atomic commit, foreign keys enforced per connection once the table
declares them; an upsert with a reference that leads nowhere is refused even if the row
already has it. Initial states are a new database and any database a version without
the foreign key left, dangling references included: nothing kept that version from
making them, and CHANGELOG.md (lines 148-150) says that the rebuild preserves such rows.
Processes opened with `auto_create=False` (`NoCreate`) skip the upgrade and may write to
an old table unchecked. `source` is what `JsonHostRepository` loads from the JSON store:
a store with a load error is not imported, one with an entry that is no host is imported
without it. Recipes behave as profiles nobody refers to.

**TaskRunner.** One submitting thread per task, worker threads, callers of
`wait_for`, `cancel`, `cancel_all`, `cleanup_old`, a failing thread start, and
`close(wait=False)` and `close(wait=True)` called from outside the workers.

**BatchExecutor.** One `execute()` from the first `_prepare_pool` to the join of the
worker threads. An attempt ends as done, with a retryable or permanent error, or
with a `BaseException`. `Pooled` are the hosts for which a given factory
supplies a pool. A Ctrl-C may reach the calling thread at any step: in the collecting
loop (`Interrupt`), between the two `try` blocks or inside an `except` block, where it
leaves the `with` block by an exception after some of the futures are cancelled
(`InterruptHandler`), and in the join of the threads, which it cuts short
(`InterruptJoin`, the end `"abandoned"`).

**JsonStore.** An entry is the form of its password (none, plaintext, token, token of
a lost key), a value for the rest, and whether it has fields or tags that `from_dict` and
`_copy_host` drop; profiles stand for recipes too. The temporary file is written, then
brought to the disk by `fsync`, then renamed; a power failure loses what has not reached
the disk, so a file renamed too early would be found incomplete. Processes run
one after the other, as the class requires, each with its own configuration. Between
them the file may be damaged and the key be lost.

**KeyFile.** Two system calls create the key; a process may be killed at any point.

## Runs

| run | instance | states | shows |
|---|---|---|---|
| `budget` | 2 threads, 3 tasks, 1 pool and clients without one, 2 slots, timeouts, one abrupt loop | 50 k | `TypeOK`, `ExactAccounting`, `NoIdleCapacity`, `QueueIsClean`, `NoLostWakeup`, `IsFairSemaphore`, `EveryWaiterIsServed` |
| `pool` | 3 threads, 3 connections, max 2, budget 3 with another user, monitor, close | 400 k | `PermitsConserved`, `BudgetExact`, `OnePlace`, `ClosedIsEmpty`, `WakeupsSuffice` |
| `pool_overshoot` | 2 threads, max 1, monitor | | `NoOvershoot` fails, see below |
| `async_pool` | 3 tasks, 2 closers, 2 connections, max 2, budget 2 with another user, monitor | 1.2 M | `PermitsConserved`, `BudgetExact`, `CloseIsComplete`, `CloseDrains` |
| `ssh_client` | 2 operations, window 1, a command that overfills it and one that hangs | 590 k | `ResultIsWhole`, `ResultSparesConnection`, `ContentSurvives`, `UploadOutcomeIsTrue`, `EveryOperationEnds` |
| `taskrunner` | 2 tasks, 1 worker at a time, 1 waiter, close | 81 k | `SlotsConserved`, `WaitedTaskIsKept`, `FinalStatusSticks`, `EveryTaskEnds`, `SlotsComeBack` |
| `taskrunner_close` | 2 tasks, 1 worker | | `CloseReturns` fails, see below |
| `batch` | 3 hosts (one with the caller's pool), 2 workers, 1 retry, Ctrl-C | 1.1 M | `ConnectionsBounded`, `NothingLeftBehind`, `ResultsComplete`, `RetriedOnlyIfTransient`, `ExecuteEnds` |
| `store` | 1 host, 1 profile, 2 values, encrypting and refusing processes, power failures, damage | 1.3 M | `NoPlaintextOnDisk`, `AckedIsDurable`, `FileStaysWhole`, `OthersAreKept` |
| `store_dropped` | 2 hosts, 1 profile, spoilt entries | | `OthersAreKept` fails, see below |
| `sqlite` | 4 processes (one refuses plaintext, one skips the upgrade), 2 hosts, 2 profiles, 2 JSON stores, kills | 530 k | `SavedIsKept`, `NoNewDangling`, `ImportIsWhole` |
| `keyfile` | 3 processes, kills | 530 | `OneKey`, `EveryCallEnds` |

**Why the bounds are enough.** Each instance has more actors than resources, so that
everybody blocks somewhere: three waiters behind two slots (an order among waiters
needs two, being overtaken a third), three borrowers of two connections, more tasks
than workers, more hosts than places in the completion queue plus workers in
between, more output than the window holds. Clients with and without the pool
distinguish the closing pool from the one that must not notice; two values distinguish
an old entry from a new one; two operations are what a late watchdog needs; three
processes allow one to upgrade or import, one to save in between and one to die, and
a fourth writes to the old table meanwhile. In
`async_pool` two connection objects are enough, since every object in use has, or had
before the close, one of the two budget slots. The components treat their clients
alike; symmetry is used where a run has no liveness property.

The invariants of `taskrunner` were also run by hand with 3 tasks and 2 workers (1.4 M
states) and hold.

Deadlock checking is off where the system may stop: a pool or runner that is closed,
processes that have all got their key. Everywhere else TLC also shows that there is
no deadlock.

**Fairness.**
`ConnectionBudget`: runnable threads and event loop callbacks are scheduled, and
`close_all` reaches its next statement; a sleeping thread goes on only if notified,
its timeout is not counted on. `EveryWaiterIsServed` has the premise that
owners release (context managers and `_close_connection` do); its part on a pool that
closes does without it.
`SyncConnectionPool`: none; that close lets every thread out of the semaphore is the
invariant `WakeupsSuffice`.
`AsyncConnectionPool`: the loop resumes tasks, and what they await of the network ends
(it has timeouts); nothing is assumed of borrowers and other pools. `CloseDrains` makes
one exception, a recovery task that is cancelled itself: what it has not closed yet
stays open.
`SshClient`: the thread and the timers run, deadlines pass, the server makes progress on
a connection that is up. A command without a timeout on a connection that has gone
silent may wait for ever, and the property says so; a transfer does not, since each of its
requests has the channel's inactivity timeout.
`TaskRunner`: threads run, a task function returns, an idle `get` times out, a
notified `close` goes on.
`BatchExecutor`: threads run and a command ends (it has a timeout); strong fairness
of `put` says that one that can succeed at its every retry does so in the end.
`ExecuteEnds` asks that `execute()` ends and its workers too, and makes one exception,
`Unstopped`: a Ctrl-C outside the `try` blocks before `stop_workers` is set.
`KeyFile`: a process that is not killed goes on.
Never assumed: arrivals, interrupts, timeouts of callers, cancellation, closing.

## Proofs

Every safety invariant, every action property and the refinement that the passing runs
check is also a theorem, for every value of the constants that satisfies the named assumptions. Each
proof module defines an inductive invariant, which TLC checked on the instance of the
component's run before it was proved, and has one step per action. The assumptions say
that sets of actors are finite where they are counted, that limits are positive
as the constructors demand, and that markers such as `None` are not members of the sets
they stand beside.

**`ConnectionBudget_proofs`.** `TypeCorrect`, `AccountingCorrect`, `WorkConserving`,
`QueueCorrect` (`TypeOK`, `ExactAccounting`, `NoIdleCapacity`, `QueueIsClean`) follow
from `BudgetInvariant`, whose inductive invariant is their conjunction with
`GrantedIsInside`. None of them is inductive alone. The count is exact only if a grant
goes to a client that owns nothing, which is what `QueueIsClean` says of the queue; the
queue stays clean only if a withdrawing client is in the queue or has a reserved slot but
not both, and only if a reserved slot belongs to somebody still inside `acquire`
(`GrantedIsInside`); work conservation needs the exact count to know that dispatch
stopped because of a full budget. `NoWakeupLost` (`NoLostWakeup`) adds `WakeInv`: a waiting
client is in line, has a slot or has a closed pool, and the future of a task is resolved
only in the last two cases. It rests on what one run of the dispatcher does to those
it pops and to those it leaves (`DispatchWakes`, `DispatchKeeps`).

`ImplementsFairSemaphore` (`IsFairSemaphore`) proves the refinement, step by step. The
semaphore's line is the set of waiters the dispatcher would serve, each with those ahead of
it in the deque (`Ahead`): a relation rather than a filtered sequence, so that no
induction over sequences is needed. `DispatchServes` shows that the dispatcher's loop, which
pops until the count is used up, reserves a slot exactly for those that have fewer owners and
live waiters before them than there are slots, and keeps the order of the rest.
`ServeStep` makes one semaphore step of a block that dispatches, from who has left and who
has come; the acquiring, raising and releasing actions only say who that is. Every other action
is a stutter or lets waiters give up (`QuietServes`): nobody has to be served then, since
by `NoIdleCapacity` there is a line only when all slots are out.

**`SyncConnectionPool_proofs`.** `PermitsCorrect`, `BudgetCorrect`, `OneOwner`,
`ClosedCorrect`, `WakeupsCorrect` and `TypeCorrect`. The invariant has two halves. `Shape`
says where a connection is: in one queue or one hand, tracked while the pool is open,
on `close_all`'s list afterwards. `Counts` relates the semaphore, the waiter
count and the budget to the places of the threads; each action's books are balanced
by `MoveCounts`. The halves are needed together: a slot is given back once only because
a tracked connection has one owner. `WakeupsSuffice` needs the exact `semWaiters` at the
moment of the close, and then that no thread takes a permit away from the semaphore for good.

**`AsyncConnectionPool_proofs`.** `PermitsCorrect`, `BudgetCorrect`, `CloseCorrect`, with a
cancellation at every await, those of the recovery task included. `PermitsConserved`
counts the permits of a release cancelled in its `except` block as lost: no other path
loses one, and none mints one. `OwesInPlace` says who may have a slot in hand at which
suspension point, `Closing` that whoever closes does so after the monitor has gone and
that the list it works through covers what is left.

**`TaskRunner_proofs`.** `SlotsCorrect`, `WaitedTaskStays`, `FinalIsFinal`. A task has one owner
(`OneOwner`: submitter, then queue, then one worker), owners are the ones with slots
(`SlotOwners`), and the place of a task limits its status (`StatusInPlace`): that
a final status stays final needs that no worker about to mark a task running meets
one that has ended otherwise than by cancellation.

**`BatchExecutor_proofs`.** `ConnectionsCorrect`, `NothingStays`, `ResultsCorrect`,
`RetriesCorrect`, for every list of distinct hosts. `Connections` gives each connection a
worker at its host and `OneWorker` each host one worker, so the connections inject into
`1 .. max_concurrency`; `NothingStays` holds for every way out of `execute()` but a Ctrl-C
in the join itself; `Attempts` says what a worker knows when it comes back to
an attempt, `DoneIsTried` follows an outcome through worker, queue and main.

**`SshClient_proofs`.** Two independent invariants. `CommandInv` gives `ResultWhole` and
`ResultSpares`: the event is set before anything is cut (`EventFirst`), the channel is known
to the watchdog while output is read, it is closed past `exit_status_ready()` and drained
before the last look (`ChannelInPlace`). `TransferInv` gives `UploadCorrect` and
`ContentStays`: `UploadInPlace` says what an upload with every reply received has done at
each request, `FilesInPlace` where a part of a file may be and that the backup is removed
only when the destination has content. `RequestIsSafe` is the core: a request that is
carried out, cut short or never received keeps content that was there.

**`JsonStore_proofs`.** `NoPlaintext`, `AckedStays` and `FileWhole` from `IInv` (entries in
memory have passed `from_dict`, a flush under way writes the memory that was loaded
completely, what is about to be renamed has reached the disk, and so has the file). `OthersStay` is `OthersAreKept` under the hypothesis `Noticed`: the only
damages are those `_load` notices. Without it the statement is false, which is the
finding of the run `store_dropped`. It needs `KeptSoFar` (untouched entries are in memory as
they were read) and `RoundTrip` (what is decoded and encoded again is what was there).
`KeyUnique` (`OneKey` of `KeyFile`), for every set of processes: the process between
`os.open` and `os.write` is alone, and the file is then there and empty; so its write
meets nobody who has read.

**`SqliteStore_proofs`.** `ReferencesCorrect`, `SavedStays`, `ImportAtomic`. Whoever is in a
transaction is the writer (`OneWriter`), a rebuild holds a copy of the committed rows
(`RebuildIsCopy`), an import has an empty database under it and a part of the source in
hand, whose references exist if the table declares the foreign key (`ImportSoFar`), and
outside of a rebuild every connection has foreign keys on (`KeysAreOn`).
`ReferencesCorrect` is the action property `NoNewDangling`: from arbitrary old rows the
invariant "every reference exists" would be false, what the code gives is that no step
under the foreign key adds a dangling one.

Only model-checked:

- liveness under fairness, which is out of the prover's reach: `EveryWaiterIsServed`,
  `CloseDrains`, `EveryOperationEnds`, `EveryTaskEnds`, `SlotsComeBack`, `ExecuteEnds`,
  `EveryCallEnds`.

## What the runs disagree with

- `pool_overshoot`: `_cleanup_expired` empties the free queue, tests the connections
  outside the lock and puts them back. A borrower with a permit finds the queue empty
  in between and opens another connection, although the comment at the creation says
  that the semaphore rules out an excess and a test claims the bound under
  concurrency. The surplus connections return to the queue, so this may repeat until
  the budget or `idle_timeout` ends it.
- `taskrunner_close`: a worker whose `get` timed out retires if the runner is closed,
  even if an item was queued after the timeout. With no other worker the item's slot is
  never released and `close(wait=True)` waits for ever.
- `store_dropped`: a host entry that is not an object or that `Host.from_dict` rejects
  is skipped without a load error, as is a profile or recipe that is not an object;
  the next flush writes the file without it, although `flush` promises not to
  overwrite a file with an incomplete state.

Seen while modelling, without a run of their own: a `release` of the asynchronous pool
that is cancelled at line 228, while it closes a connection whose `is_connected()` raised,
never returns its permit (lines 236-241 have a `finally` for the same situation), so the
pool's capacity shrinks; a Ctrl-C in `_execute_sync` that falls between the two `try`
blocks or on the first lines of an `except` block (the `logger.warning` of line 370),
before `stop_workers.set()`, leaves workers that retry a full completion queue nobody
reads, and the join waits for them for ever, while one in the join itself makes
`execute()` raise with its workers still running; if a shutting down loop cancels the
recovery task of the asynchronous `close_all`, `_close_finished` is never set and a
later caller that waits for it does not return; a process that reads the key file
between its creation and the write of the key reports a corrupted key (so does every
later one if the creator was killed there); after Ctrl-C a batch reports as
interrupted also hosts whose outcome lies in the completion queue; a flush that
fails leaves the change in memory, to be written by the next one; a task whose loop is
closed after it was granted a slot keeps the slot for ever; `stop_monitor` of the
asynchronous pool drops the idle connections the monitor has in its hands, which stay
open and in the budget until `close_all` finds them (`CloseDrains`); after
`posix_rename` has timed out, an upload goes on with plain renames on the same
session, although README.md (line 53) says that failed sessions are discarded before
reuse, harmlessly so (`ContentSurvives`), because the server carries the requests out
in order; a command's watchdog that fired before its channel was known may close the
connection under the next operation, which then fails; a command whose connection is
lost is reported as a result with exit code -1; `SqliteHostRepository` documents
`migrate_from` as for the first use only (line 182), but imports the JSON store again
whenever it finds the database empty, so hosts deleted to the last one come back.

## Not modelled

- `service/async_batch_executor.py`: its kernel is that of `BatchExecutor` with tasks for
  threads; what is hard in it, cancellation around connections, is in
  `AsyncConnectionPool`.
- `core/async_ssh_client.py`, host key policies, and the SFTP calls that are one request
  each. In `SqliteStore`: reads, recipes, the tags index, one connection per thread.
- `close()` called by a task on its own `TaskRunner`.
- Ctrl-C during an SFTP transfer (its handlers are those of an error).
- In `JsonStore`, a rename that a power failure undoes: the `fsync` of the directory is
  best effort, and without it the file may be found as it was before the flush.
- The SSH protocol, Fernet and SQLite themselves (libraries).
- Command line, formatting, configuration, logging, storage factory, credential
  providers, the facade and the value objects: no state that steps of others could
  disturb.
- `docs/api/search.js`: a search index that pdoc generated, with a minified third-party
  library in it. It documents the program and is no part of it.
- Inside the modelled components: metrics, log messages, clock times and delays, file
  permissions.

## Plan

- The scheduling of `AsyncBatchExecutor`; a closer that is itself a worker of the
  `TaskRunner`.

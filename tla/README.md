# TLA+ models of the Code Factory server

The repository is a platform that turns a README into code, tests, deployment files and
documentation, and then keeps the result in repair.  This directory holds specifications of
the parts that run concurrently and share state: how a job goes through the server, what of
it survives a restart, the lock that keeps restarts apart, the message bus, the circuit
breakers, the queue of the test runner, the arbiter's audit log and its requests for human
approval.  Seven of these eight come with an abstract specification of what they promise to those
who use them; the eighth, the recovery, implements the lock's.  TLC checks all this on small instances; TLAPS proves the invariants, the action
properties and the refinements for every instance.

Paths below are those of the repository; line numbers are those of the modelled commit.

## 1. Inventory

| Component | State it keeps | Operations | Hard behaviour |
|---|---|---|---|
| Job services: `server/routers/{generator,jobs}.py`, `server/services/{omnicore_service,job_finalization}.py` | `jobs_db`; `_jobs_pipeline_started`, `_pipeline_semaphore`, `_active_pipeline_tasks`; `_jobs_in_pipeline`; `_finalized_jobs`, `_dispatched_jobs` | upload, clarification answer, direct run, cancel, delete; the pipeline tasks; finalization; graceful shutdown | many coroutines on one loop read and write the status of one job around awaits of minutes; cancellation at any await |
| Persistence and recovery: `server/persistence.py`, `server/main.py`, `server/storage.py` | the agents' state table (`generator_agent_state`, one row per job; "the table" below), each worker's `jobs_db`, the progress of its recovery | save, load, verify, delete; query and per-job recovery at startup | several workers on one table, crashes between memory and table, commits whose answer is lost |
| Startup lock: `server/distributed_lock.py` | one Redis key with a time to live; `acquired`, a cached client | `acquire`, `release` | expiry while the holder works, lost replies, outages, entry without Redis |
| Message bus: `omnicore_engine/message_bus/` | two priority queues per shard, pauses, deduplication cache, dead letter queue, the publish lock | `publish`, dispatcher loops, backpressure, `shutdown` | dispatchers publish to the bus they empty; waits with a lock held; full queues; an error that ends a dispatcher; shutdown at any await |
| Circuit breakers: `shared/circuit_breaker.py`, `message_bus/resilience.py`, `server/services/dispatch_service.py`, `server/persistence.py`, `arbiter/policy/circuit_breaker.py` | state, failure count, successes, time of the last failure | may a call go through, success, failure | calls overlap: late reports, several trials at once, trials that report nothing |
| Test runner: `generator/runner/runner_core.py` | a heap of tasks, running executions, status map, the persisted queue | enqueue, run, dispatch, batches to a remote runner, shutdown, load at startup | two loops take from one queue; restart at any await; a remote runner whose answer is late |
| Audit log: `arbiter/audit_log.py` | the last hash, a queue, a lock, rotated files | emit (critical or not), batch loop, rotation, shutdown, verification | threads write what coroutines chained; cancellation with the lock held; failed writes |
| Human approval: `arbiter/human_loop.py`, `arbiter/feedback.py` | a table of futures by decision id, the log of requests and responses | `request_approval`, `receive_human_feedback`, mock approval | answers race time-outs; retries of a handler that has taken effect; callers choose the ids |
| Dispatch to the SFE, job store, clarification sessions, bus shards and bridges, other audit logs, arbiter queues, generator engine and agents, registries, databases, simulation, ledger, user interfaces | see `PROJECT.json`, "components" | | |

How they interact.  A request handler changes `jobs_db` and starts a pipeline task; the task
awaits agents, the clarifier and the stages, and calls a finalizer, which hands the finished job
to the dispatch service.  Handlers save some of the changes to the table; at startup every worker
takes the lock, reads the table and puts the jobs into its own `jobs_db`.  On SIGTERM the
lifespan marks what still runs as failed and cancels the tasks.  The engines exchange events
through the message bus, whose dispatchers run the subscribers' callbacks in threads.  Calls of
databases, brokers, subprocesses and language models go through a circuit breaker of the caller's
own.  The generator hands tests to the runner, which executes them or sends them to another
instance of itself.  The arbiter logs what it does to its audit log and asks people before it acts.

What makes them correct: one code generation per job at a time, guards that never keep a job
for ever, one finalization and one dispatch per job, pipelines that end; an acknowledged job is
in the table, a deleted one stays deleted, only interrupted jobs are failed by a recovery; two
holders of a lease exclude each other and only the owner releases; messages are neither lost nor
enqueued twice nor reordered, pauses hold and end, and a drained bus has dispatched everything; a
breaker opens on consecutive failures only, then shields, and lets a service that recovered back in;
a task is at one place, where its status says, and no restart runs it twice; the audit chain breaks
only where a write failed, and a critical event is on disk when its call returns; no answer is acted
upon that the log knows nothing of, a waiting request can be answered, and every request returns.

The full list of components, with those that are not modelled and the reason, is in
`PROJECT.json`, as are the hazards, each at the line where it bites.

## 2. The modules

    abstract       Lease            JobLife      TopicQueue  Breaker          TaskPool    Journal     Inquiry
                     ^                 ^             ^          ^                ^           ^           ^
    detailed   DistributedLock    JobPipeline   MessageBus  CircuitBreakers  TaskRunner  AuditChain  HumanApproval
                     ^
               JobRecovery

An arrow is a refinement: the lower module has `X == INSTANCE upper WITH ...` and a property
`X!Spec`, which is a property of the run and a theorem.  Each detailed module has an `MC...` module
with its instance for TLC and a `...Proofs` module; `JobRecoveryProofs` takes in an instance of
`DistributedLockProofs`.  `PROJECT.json`, "map", names the code behind each definition of the
detailed modules; the abstract ones have none behind them, since they leave out all of its means.

**DistributedLock** models `DistributedLock` of `distributed_lock.py` as `main.py` uses it.
Variables: the Redis key and its age class (`Stale` once it may have outlived its holder's
lease), each process's place in `acquire()`, its `acquired` flag, its retries, whether it has a
client, and how it came in.  Actions: `Acquire`, the connection with its ping, `SET NX EX` that
wins, loses, raises or runs without its reply arriving, `Retry`, `Release` (the compare-and-delete
script), `Expire`, `Crash` (a new process has a new uuid) and the outages of Redis.  It is both a
model of the code and the specification that JobRecovery implements.  Its own promise is **Lease**:
`Mode` tells from `pc`, `solo` and `lapsed` whether a process is out, asking, holding, overdue or
alone; the key, the replies and the retries are forgotten.

**JobPipeline** is one server process: jobs with their status and the in-memory guards, and
pipeline tasks of three kinds (started by an upload, resumed after a clarification, run directly
by a request).  A step is the code between two awaits.  The contents of a stage are one await
with an outcome: what matters here is what the callers do with it.  Cancellation of the tasks,
the handler of SIGTERM and the two halves of the graceful shutdown are actions of their own.
**JobLife** is the life of a job seen from outside: status, verdict, being generated, being
dispatched.  The verdict is `finalized` with `sent`, what is generated is `inPipeline`; tasks, guards
and the semaphore are forgotten.

**JobRecovery** is several worker processes with one table.  A request is its handler up to the
database call, and the rest after it; a database call has an effect and an answer, and may have
the first without the second.  The startup takes the lock with the variables of DistributedLock
(`Lock == INSTANCE DistributedLock`), queries the table, goes through the rows, verifies each,
gives its verdict, saves it and adds it to `jobs_db`.

**MessageBus** is `publish()`, the dispatcher loop, `BackpressureManager` and `shutdown()` on
one event loop.  A caller of `publish()` is a user or a dispatcher with a backpressure event:
both go through the same actions.  `at[c]` is the await a caller is at: the lock, the gate of a
paused shard, the place in a full queue, the save.  A user's call starts when it gets the lock,
because nothing it does before has an effect; a refused call is a call that was not made, except
for a dispatcher, which goes on either way.  A queue is the sequence `heapq` would give back:
smaller priority first, then older first (timestamps are taken under the lock, and are taken to
differ).  `OrderedLock` is not modelled: it is only taken with the publish lock held.
After the subscribers a message goes to the Kafka bridge and the hooks.  If they raise
(`Raises`), a TimeoutError sends the dispatcher to the next message with this one not marked as
done (`TimeOut`); anything else ends it (`Die`), because its handler raises too, and nobody serves
the queue any more.
**TopicQueue** is one queue with one order of acceptance, from which each message is delivered after
those of its shard and priority, unless its shard and class are halted; it is given the texts of
`order` and `dispatched`, and `Halted`, the queues without a dispatcher.  Locks, gates, the queues and
what the dispatchers have in hand are forgotten.

**CircuitBreakers** has the seven breakers of the platform side by side: three styles of
`shared/circuit_breaker.py`, those of the bus bridges, of the Kafka dispatch, of the database
retries and of the policy engine.  `kind`, chosen at the start, says which one runs, so that each
property says of every breaker what it is meant to do.  A call is admitted (`Admit`, one operator
per breaker), and reports later (`Fail`, `Succeed`) or never (`Abandon`); others are admitted and
report in between.  Time is `Elapse`; `Heal` is the end of an outage.  **Breaker** is what all seven
promise: who is out, the streak, open or not, cooled or not; the count of failures, the successes
and the half-open state are forgotten.

**TaskRunner** is one process of the test runner and the ones that follow it.  The processor
(`Dispatch`, `Start`, `Finish`) and the distributed worker (`TakeBatch`, its answer, time-out or
error, `PushBack`) take from one queue.  `_persist_queue` writes the whole queue, or fails and
leaves the old file; `Restart` loads it and removes it.  **TaskPool** knows where each task is (`Place`),
what was begun, and what an old file brought back; the heap, the statuses, the file and the worker's
awaits are forgotten.

**AuditChain** has the entries in the order they were chained; `stage[i]` says how far entry i is
(queued, handed to the executor, with a thread, written, lost), `log` is what the files hold.
`Flush`, `LoopFlush` and `LogSync` are the three ways to the disk; `Cancel` and `shutdown` leave a
write under way with the lock free.  `Line` rotates, `LineBefore` is the line that the verification
takes for the preceding one.  **Journal** has the events logged, put down or lost, and the lines; the
queue, the executor, the threads and the lock are forgotten, and so is which file has a line.

**HumanApproval** has requests at the awaits of `request_approval` and answers at those of
`receive_human_feedback`.  An answer of the mock approver is an answer like the others, but its
request's own task handles it.  `Return` is the `finally` that removes whatever is registered under
the id.  **Inquiry** has calls that ask, answers on record and what decided a call; futures' table,
awaits and retries are forgotten.

## 3. What the runs check

| Run | Result | Question |
|---|---|---|
| `lock` | pass | Do processes that entered through Redis, within their lease, exclude each other; does only the owner free the key; does every `acquire()` return?  Is the lock a lease (refinement of Lease)? |
| `pipeline` | pass | One generation per job, guards that match the tasks, one dispatch, one finalization, pipelines that end, under cancellation, deletion and shutdown at any await; a job lives one life (JobLife). |
| `pipeline_cancel` | violated | Does a cancelled job stay cancelled? The running pipeline completes it. |
| `recovery_jobs` | pass | Acknowledged jobs keep their row, recovered ones are in no transient state, for two workers that both recover, with a crash at any await. |
| `recovery_lock` | pass | The startup uses the lock as DistributedLock says (refinement), two leases never recover together, and a startup ends. |
| `bus` | pass | Nothing accepted is lost, keys are enqueued once, order and pauses hold, a drained bus has dispatched, with dispatchers that die of what a bridge or hook raises; to its users the bus is one queue (TopicQueue). |
| `bus_pause` | violated | Does a paused shard resume? The event of the pause waits for the shard with the publish lock held. |
| `breakers` | pass | Each breaker opens on a full streak of failures only, shields the service until its timeout, and (those that can) closes again when the service has recovered; all seven are breakers (Breaker). |
| `tasks` | pass | A task is at one place, its status agrees, no restart runs it again, what is enqueued is on disk, and what waits or runs locally ends; the runner is a pool of tasks (TaskPool). |
| `audit` | pass | Only failed writes and restarts break the chain on disk, a critical event is written with all before it when its call returns, and the queue moves; the log is a journal (Journal). |
| `audit_verify` | violated | Does a log that was written without a failure verify? Not once it is rotated, or continued by a new process. |
| `approval` | pass | What a call returns was logged first, a waiting request can be answered, and every call returns; asking decides once (Inquiry). |

The findings in `PROJECT.json` quote the lines that say otherwise.

The runs check the types of the bus only, where the type invariant has the counts of the queues in
it; those of the other modules are theorems (`TypeCorrect`), and no run repeats them.

**Bounds.** `lock`: two processes contend and a third has no Redis; `MaxRetries` 2 lets a retry
follow a lost reply (which makes a process meet its own key).  `pipeline`: two tasks for one slot,
since the guards compare a job with at most one other task and the semaphore with one waiting; two
jobs, to tell a guard on a job from a global one.  The outcomes "artifacts" and "syntax" are left
out of the passing run: every action treats them like "coldStart".  `recovery_jobs`: the hazards
are between two workers and one job; `MaxRequests` 3 allows create, delete and one more,
`MaxCrashes` 1 a crash anywhere among them.  `recovery_lock`: `MaxCrashes` 2 allows a crash
of each worker, or two of one.  `bus`: three calls are what reordering within one queue and a full
queue need (one in hand, one queued, one waiting); one shard with the events on it is the worst
case, since distinct shards share only the publish lock; `PauseAt` 1 of `MaxQueue` 2 stands for
8000 of 10000: below, at and above the threshold, and full, all occur; `MaxRaises` 1
lets the bridge raise once, at any message, with others done before it or queued behind it, since
what one queue's error leaves behind is out of the reach of the others.  In `bus_pause` nothing raises, so that the event alone is to blame.  `breakers`: `Threshold` 3 with three calls lets every mix of
late successes and failures fall around the opening, and two trials overlap with a late report;
`RecoveryThreshold` 2 is the least that differs from one success, `MaxRetries` 3 is the code's.
`tasks`: three tasks, two of them equal in priority and in one batch, one slot: one runs, one is
sent, one waits; one restart at any point finds a file that is current, stale or missing; the answers
are one the worker counts and the one its own endpoint gives.  `audit`: the least that lets a batch
overtake another is two writers and two threads; three entries make a full batch and a critical event
after it; one fault and one restart, since each is to explain one break; two files are one rotation.
`approval`: two requests, of one id or of two, and two answers, each with a second attempt: one answer
in time and one late, or both racing.  Symmetry is used only where no liveness property is checked.

**Fairness.** The event loop runs every task whose await is over, so each step of a process, a
pipeline task or a dispatcher is weakly fair.  What the code waits for by hand, `asyncio.Lock` and
`asyncio.Semaphore`, hands over in turn, so taking a contended lock or slot is strongly fair.
Awaits of external services end because the code gives them timeouts; where it gives none (a
stage of the pipeline), the model says "ends with some outcome".  Nothing obliges a user to call,
Redis to fail or recover, a key to be forgotten, a process to crash or to be told to stop.
Of the newer modules: `breakers` assumes that time passes, that callers come back (they are loops
and later jobs) and that a healthy service answers, not that an outage ends; `tasks` that the
processor polls and an execution ends by its timeout; `audit` that the loop wakes, that the lock is
handed over in turn and that threads go on; `approval` that the awaits end and time-outs fire, not
that anybody answers.

**Deadlock** is checked for `lock` and the two passing runs of the recovery.  The others stop:
the process exits (`pipeline`), the bus is shut down or blocked (`bus`, see `bus_pause`), a
breaker that never closes refuses everything (`breakers`), and all tasks, entries and requests of
the instance are used up (`tasks`, `audit`, `approval`).

## 4. What is proved

`*Proofs.tla`, checked by TLAPS for any processes, jobs, tasks, calls, shards and bounds, from the
assumptions named in the modules that declare the constants.

A refinement is proved step by step: under an invariant of the detailed module, each of its actions
is an action of the abstract one or leaves it as it is.  The invariants of the safety theorems are
not enough for most of them; what was missing is named below.

- **DistributedLockProofs.** `TypeCorrect`, `LeasesExclude`, `OwnerOnlyReleases`, `FlagCorrect`.
  The invariant says that the key belongs to a process within its lease: expiry is what makes a
  key `Stale`, so a second winner of SET implies that the first is no longer within it.
  `ImplementsLease`: a grant finds nobody holding because of that invariant, and nobody is put out by
  another because whoever comes in comes with a fresh lease (`FreshOutside`).
- **JobPipelineProofs.** `TypeCorrect`, `GuardsCorrect`, `GenerationExclusive`, `DispatchUnique`,
  `FinalizedOnce`.  Exclusion alone is not inductive: it needs that a job has at most one registered
  upload task and that both guard sets are exactly the jobs of tasks at the matching awaits;
  the single dispatch needs that a job with a completion is in `_finalized_jobs`.
  `ImplementsLife`: a job is dispatched by at most one task, which has sent its completion, and what
  is marked as dispatched was sent (`SendInv`: `HandingSent`, `OneHanding`, `ToldSent`); resumed and
  direct pipelines are at an await only while requests are served, what the shutdown has on its
  list exists, and after the exit no pipeline is at an await (`StopInv`: `Serving`, `Listed`, `Ended`).
- **JobRecoveryProofs.** `TypeCorrect`; `AcknowledgedDurable`, with the invariant that every
  answered job either has its row or a deletion under way, and that each recovery writes only rows
  it verified; `UsesLock`, the refinement step by step; `LeasesRecoverAlone`, which takes the
  lock's theorem through an instance of its proofs and carries it over the refinement;
  `RecoveredSettled`, since from the verdict on a recovery holds a job that is not transient.
  `StartsUnderLease`: the recovery implements Lease too, through DistributedLock.
- **MessageBusProofs.** `TypeCorrect`.  `KeysSafe`: with the publish lock held from the duplicate
  check to the insertion, a caller past the check has a key that is not in the cache (`Fresh`), and
  every enqueued message's key is or was in it (`Known`).  The same invariant has the counts of the
  queues (`Counted`: unfinished exceeds the length while a message is in hand), which keep
  `unfinished` a natural number.  `MessagesSafe`: what is enqueued is always in a queue, in a hand
  or handled (`Hands`, `Answers`, `Own`).  `DrainSafe`: after the dispatchers are cancelled nothing
  is marked as done, so a message that was not dispatched keeps its queue unfinished and `join()`
  waiting.  `PausesSafe`: only `Enqueue` lengthens a queue, and only after the gate.
  `OrderKept`: every message on its way is at the dispatcher of its own shard and class, queues are
  sorted by priority, and if p was enqueued before q at the same place (`Precedes`), then p is
  dispatched before q, is dispatched when q is in hand, and is dispatched, in hand or further ahead
  when q is queued (`Follows`).  `InsertSorted` shows where an insertion puts the new message, and
  that the others keep their order.  `ImplementsQueue` needs all of these together,
  that a call has a message of its caller's own (`Named`), and that a message not yet dispatched is in one
  hand or once in one queue (`Once`), so that a delivery is the first one and in turn.  What is handed
over is at the dispatcher of its own shard and class, so its line is not `Halted`; an error that ends
a dispatcher is a `Halt` of that line, and the message it had, dispatched and never marked as done,
keeps `Drain` from happening for want of `join()`.
- **CircuitBreakersProofs.** `TypeCorrect`, `OpensOnStreak`, `ShieldsService`, for all seven
  breakers.  The streak of failures is history; the proof ties the breakers' own counts to it: the
  count is never behind, equals the streak while closed (`Tally`), and a full streak within its
  timeout has opened the breaker (`Shut`).  `ImplementsBreaker` needs that a half-open breaker has cooled
  down, except that of the bus, whose failed trials leave it half-open (`Cooling`).
- **TaskRunnerProofs.** `TypeCorrect`; `TasksAccounted`, where each status names one place
  (`Places`); `RunsOnce`, from the fact that what ran is neither queued nor, unless a write failed,
  in the file; `QueueOnDisk`.  `ImplementsPool` puts these invariants to use: what moves one task
  leaves the others where they are (`Places`), what is dispatched was not begun or was brought back
  (`Gone`), and a restart finds in the file what waits (`OnDisk`).
- **AuditChainProofs.** `TypeCorrect`, `CriticalWritten`, `ChainKept`.  The second is inductive
  together with: a holder of the lock leaves nothing queued, and what is handed over is with the
  executor or the holder's one thread (`Batch`); without failures an entry is lost only to a restart, after which
  the chain begins anew (`Losses`). For the third, what is on its way was chained last and is all
  at one place, so that each fault and each restart loses one run of entries and leaves one place
  where the chain may break (`Seams`); the files have the written entries in order (`InFiles`),
  which maps breaks to such places one to one.  `ImplementsJournal`: a thread writes the first entry on its
  way (`OnTheWay`), a failure takes that one or, since the holder has handed over everything, all of them,
  and a call of the holder ends with nothing on its way (`Batch`).
- **HumanApprovalProofs.** `TypeCorrect`, `NothingUnlogged` (a future is only set to an answer that
  is in the log), `PlaceKept`.  `ImplementsInquiry` adds what each await says of the future and of the table
  (`AskInv`): a future is untouched before its entry in the table and cancelled after the time limit,
  the table has a request under its own id, and an answer that came is about some id.

Only model-checked: liveness (`AcquireReturns`, `TasksEnd` of both modules, `StartupEnds`,
`Recovers`, `QueueMoves`, `Returns`), which is beyond TLAPS, and the properties of the violated
runs.  Every other property of a passing run is proved.  The abstract specifications have no fairness: the
refinements are about what may happen, not about what must.

## 5. What is abstracted or left out

- Contents: generated code, prompts, payloads, encryption, signatures, metrics.
- Time: leases, time-outs and back-off are steps that may happen.
- JobPipeline: uploads without a README, and the endpoints that run one stage.
- JobRecovery: one page of the query, one database request per worker at a time; the breaker
  of the table's calls is in CircuitBreakers, a refused call is one that failed here.
- MessageBus: fixed shards, no Redis and no audit client, no request/reply, no subscriptions, the
  topics that go to workflows or the arbiter instead of a queue.  The guardian, off by default, is
not modelled: all it does to the bus is to call `shutdown()`.  A cancelled dispatcher ends
  where it is; `asyncio.wait_for` of Python 3.11 may let one that just received a message
  finish it first, which only marks one more message as done after dispatching it.
- CircuitBreakers: one service per breaker; the policy breaker's state in memory, not in Redis.
- TaskRunner: distinct task ids; what a test does, its sandbox and its results.  An exception other
  than DockerException out of `DockerBackend.recover` (`runner_backends.py:1424-1456`) would leave
  the worker's batch in no place; the model has that recovery return.
- AuditChain: anchoring in a ledger, forwarding to syslog or HTTP, removal of old files.
- HumanApproval: validation of schemas and signatures, the channels and their own retries,
  cancellation of the caller; an exception of the feedback manager's `log_approval_request` (878), which
  ends a call before anything is registered.
- SIGTERM: `server/run.py` names the application as a string, so uvicorn imports it after
  installing its own handler, which `signal.signal` in `main.py:1762` then replaces.  What
  the signal reaches depends on uvicorn; the model lets it be either.

**Not modelled.** The repository is very large and most of it is not about shared state: prompts
and their parsers, file generators, HTTP handlers that call one function, command lines, metrics,
plug-in loading, simulation, user interfaces.  The modules cover the concurrent core, which is a
small share of all lines.  `PROJECT.json` lists every part with the reason; those worth modelling
next are in the plan.

### Known divergences without a run

- The header of `distributed_lock.py` (28) promises that one process executes the critical section;
  a process without Redis enters alone (240-243) and an expired lease lets a second one in (248-257).
- A worker that crashed finds its own old key and skips its recovery (`main.py:970`); a job loaded
  meanwhile is skipped as present (1102-1104).
- `main.py:1524`: the terminal statuses of the shutdown lack COMPLETED_WITH_WARNINGS, and the
  list of jobs is taken once before awaits; jobs are marked FAILED before their pipelines are
  cancelled (1689), some of which complete.
- `generator.py:889`: resumed and direct pipelines do not take the semaphore of line 90.
- `sharded_message_bus.py:1045` puts `(priority, message)`: the smaller number is served first
  within a queue, against "Higher priority values are processed first" (`message_types.py:28`).
- `sharded_message_bus.py:1092`: `put()` waits, so `QueueFull` and the fallback to Redis and the
  dead letter queue behind it are not reached.
- `sharded_message_bus.py:2298`: shutdown cancels the dispatchers and then joins the queues; what
  is left in them makes it wait for ever.
- `sharded_message_bus.py:842`: the handler of the dispatcher loop, like that of the hooks (944),
  counts the error with `labels(shard_id=...)`, where the counter has the labels `shard_id` and `topic`
  (`metrics.py:430`).  prometheus_client raises ValueError, which leaves the loop: the dispatcher has
  ended, its queue is not served again, `put()` on it waits once it is full, and shutdown waits for
  ever.  `docs/ENVIRONMENT_VARIABLES.md:392` says of the guardian "Monitors and restarts failed
  dispatchers"; it watches queue sizes and bridges (`guardian.py:354-395`), and restarts by shutting
  the bus down and making one that nothing refers to (443-449).
- `sharded_message_bus.py:1784`: removing a shard shifts the indexes of the following ones while the
  ring keeps their names; `adjust_shards` (1811-1902) republishes keyed messages, which the
  deduplication drops, and resizes neither the locks nor the pauses.
- `dispatch_service.py:24` promises "guaranteed delivery" through the database queue, which fails
  on every call: `Database()` is called without its path.
- `generator.py:1240` sets RUNNING also when there is no README to start a pipeline with;
  a skipped pipeline (634) and a second finalization (`job_finalization.py:245`) write no status:
  such jobs stay RUNNING until a restart.
- `generator.py:715` decides from the returned stages and signals, and so may complete a job that the
  pipeline had failed while returning (`omnicore_service.py:8597`).
- `main.py:1150`: the recovery's upsert writes back a row that a request deleted meanwhile, against
  "recovery won't restore this job" (`jobs.py:558`).  It also fails jobs that another worker is
  at work on (1139, 1185), and completed ones, since no caller saves a completion
  (`job_finalization.py:321`).  Rows are paged without ORDER BY (1057).
- `resilience.py:188` and `redis_bridge.py:446`: a trial call that fails leaves the bus breaker
  half-open, and one that reports nothing leaves it so too; `persistence.py:133` sets
  `_circuit_open`, which nothing clears but a new process.
- `shared/circuit_breaker.py:464`: a guard forgets its failures at half-open, so a failed trial does
  not open it, against "on failure → OPEN" (169-170).  `KAFKA_HALF_OPEN_MAX_CALLS`
  (`dispatch_service.py:111`) is never read; the policy breaker's "Allowing one request" (1098-1100)
  allows all.
- `runner_core.py:3313` answers "batch_enqueued", which the worker that asked takes for a refusal
  (1206): the tasks run on both sides; likewise after a time-out (1284).  The queue's file is not
  written atomically and is removed when loaded, so that a second crash forgets what was loaded.
  Cancelled executions keep the status "running", a second task of one id takes the place of
  the first in `running_tasks`, and tasks that went to a remote runner keep their local status.
- `audit_log.py:788`: the message about a failed write goes into the audit file itself.  `_log_queue`
  (260) only grows; `doRollover` compresses only the file ending in ".1".
- `human_loop.py:911-924`: the denial after a time-out has no `timestamp`, which the schema (411)
  requires, so that the request stays pending in the log.  An answer between the log entry and
  the registration (887) is lost; a late approval is logged although the call returned a denial.
  A mock approver that raises (outside the `try`) leaves its future registered.

## 6. Plan

Done, in this order: the job's way through one process, its durability, the lock both rest on, the
bus; then the breakers, the test runner's queue, the audit chain and human approval; the proofs of
their invariants; and seven abstract specifications with their refinements.  Left, each with an
instance, a few deep properties and proofs:

1. **MessageBus**, more shards: `add_shard`, `remove_shard`, `adjust_shards` with publishers that
   hold an index from before; the dead letter queue's retries and shutdown.  What of TopicQueue
   remains then?
2. **JobDispatch**: Kafka with its breaker, HTTP and the database queue; exactly which failures
   lose a completion that `_dispatched_jobs` remembers as sent.  Composition with JobLife's
   `handing` and `told`, and of the database's breaker with JobRecovery, both through Breaker.
3. **JobStore**: eviction at the size limit of `storage.py` against requests that hold a job.
4. **Clarification sessions** and the **arbiter's consumer** (`queue_consumer_worker.py`):
   acknowledgement, retry and expiry.
5. **JobRecovery** as a table of rows: which changes of a row a client may see, with what the recovery
   overwrites; then its composition with JobPipeline, under JobLife over restarts.

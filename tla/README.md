# A TLA+ verification of RelayQ

RelayQ is a job queue on Redis Streams: an HTTP API enqueues jobs, worker
processes lease them through a consumer group, run a handler, and acknowledge
them, leave them pending, or move them to a dead-letter stream (DLQ). This
directory models that system in TLA+, checks it with TLC on small instances and
proves its main safety properties with TLAPS for all instances. Paths below are
relative to the repository.

## 1. Inventory

| Component | State it keeps | Operations | Talks to |
| --- | --- | --- | --- |
| Redis transport (`relayq/infrastructure/redis_stream.py`) | the job stream, its consumer group (cursor, pending list), the DLQ stream | `ensure_group`, `stream_length`, `xadd`, `xadd_dlq`, `read_group`, `xack`, `autoclaim_stale`; `read_dlq`, `read_dlq_entry`, `delete_dlq_entry`, `list_queues` | used by everything below |
| Job (`relayq/domain/job.py`) | id, attempts, max_retries, status | `to_dict`, `from_dict`, `should_dlq` | serialised into entries |
| Enqueuer (`relayq/application/enqueue.py`) | none | depth check, idempotency lookup, outbox insert, XADD | transport, outbox store |
| Executor (`relayq/application/execute.py`) | none | handler with timeout, XACK, retry or DLQ | transport, outbox store |
| Worker runner (`relayq/worker/runner.py`, `run_worker.py`) | semaphore, in-flight tasks, batch in hand | poll loop, task creation, drain | all of the worker's parts |
| Graceful shutdown (`relayq/worker/shutdown.py`) | the event | `request`, `drain` | runner's tasks |
| Recovery (`relayq/application/recover.py`) | none | periodic XAUTOCLAIM | transport |
| Admission (`relayq/worker/admission.py`) | none | XLEN against `max_depth` | transport, runner |
| Rate limiter (`api/main.py`) | a Redis hash, `_script_hash` | `allow` | Redis script cache, clocks |
| Circuit breaker (`api/main.py`, not instantiated) | a sorted set and two keys | `record_failure`, `is_open`, `maybe_trip`, `reset` | Redis, clocks |
| API (`api/main.py`) | its clients | POST /jobs, GETs, DLQ replay | Enqueuer, transport |
| Outbox store (`relayq/infrastructure/sqlite_store.py`) | a table with a unique index, one connection per thread with at most one open transaction | `insert_outbox`, `update_status`, look-ups, `transaction` | Enqueuer, Executor, GET /jobs/{id} |
| Retry policy (`relayq/domain/retry.py`) | none | `delay`, `max_total_window` | only logged |
| Metrics, Clock, CLI, deployment | nothing that is read back | | |

As shipped, `api/main.py` builds an Enqueuer without a store and `run_worker.py`
an Executor without a store and a runner without admission and recovery.

What is hard here: tasks of one event loop interleave at every await; several
workers and API processes share Redis; a Redis call can fail or take effect
without its reply; processes die or are cancelled at any await; a drain timeout
races tasks that are between their handler and their acknowledgement; recovery
claims entries that are still being executed; depth checks are stale when used;
times are read before they are used. `PROJECT.json` lists each hazard at its
line with the properties that guard it.

What makes the parts correct: every accepted job is executed; an entry leaves the
pending list only with its outcome on record; permits are conserved; a graceful
stop completes and abandons no entry that was not started; back-pressure never
drops an accepted job; the limiter lets no more through than it should; the
outbox tells the truth about each job.

## 2. Modules

| Module | Models |
| --- | --- |
| `RedisStream` | the stream, the group and the DLQ as the transport drives them: an operator per command |
| `Delivery` | the queue end to end: API requests, worker loops, tasks, recovery, shutdown, crashes, over `RedisStream` |
| `DeliveryContract` | the abstract specification: publish, deliver, execute, succeed or bury, settle, expire |
| `SqliteStore` | the outbox table and its connections: snapshots, the write lock, open transactions, the unique index |
| `Outbox` | Enqueuer and Executor with a store, GET /jobs/{id} and DLQ replay, over `SqliteStore` |
| `OutboxContract` | the abstract specification: claim a key, then publish |
| `TokenBucket` | the rate limiter |
| `CircuitBreaker` | the circuit breaker |
| `DeliveryProofs`, `DeliverySafetyProofs`, `DeliveryResourceProofs`, `DeliveryRefinement` | proofs about `Delivery` |
| `OutboxProofs`, `OutboxAnswerProofs`, `TokenBucketProofs`, `CircuitBreakerProofs` | proofs about the others |
| `MCDelivery`, `MCOutbox`, `MCTokenBucket`, `MCCircuitBreaker` | constants for TLC |

`Delivery` and `Outbox` overlap on purpose. `Delivery` is the composition that is
shipped (no store) in full detail on the Redis side; `Outbox` is the composition
that the README of the repository describes (with a store), in full detail on
the SQLite side, with the Redis side reduced to what `Delivery` shows of it:
each entry is started once.

Definitions named `X_Something` with a comment "Fault variant" are deliberately
wrong forms of `X`. No specification uses them; putting one in place of `X` makes
TLC report the property it is paired with, which shows that the property depends
on that piece of code.

### How `Delivery` corresponds to the code

* An entry is its position in the stream. Its body is the job and the attempt
  count that was serialised, which is always 0: `_handle_failure` increments the
  parsed copy.
* `pc[w]` is where `run()` awaits: the loop test (`poll`), `read_group` (`read`),
  the semaphore inside the for loop (`dispatch`), the two waits of `drain`
  (`drain`, `cancel`), or no process (`down`). `batch[w]` is what `read_group`
  returned and no task has been made for.
* `task[w][e]` is where `_process_job` of entry `e` awaits: `created`, `handler`,
  `ack` (XACK of a success), `dlq` (XADD to the DLQ), `dlqack` (XACK after it),
  `done` (last call over, coroutine not resumed).
* A step is what a coroutine does from one await to the next with the Redis
  command it waits for. The error actions (`EnqueueError`, `PollError`,
  `AckError`, `BuryError`) cover a call that fails, one that took effect and lost
  its reply, and the client library sending a command again; `ReadInFlight` is an
  XREADGROUP cut off by a crash or a cancellation.
* `CancelRun` is cancellation of `run()` (Ctrl-C under `asyncio.run`),
  `RequestShutdown` is `GracefulShutdown.request`, `Crash` is the death of the
  process, which is also what SIGTERM does to `run_worker.py`.
* `runs`, `succeeded` and `buried` are history variables.

Abstractions: one queue; payloads, kinds, metrics and logging are left out; a
handler either returns or fails (an exception and a timeout take the same path);
malformed entries are not produced by the program and are left out; XLEN and the
admission test that uses it are one step, the XREADGROUP after it another; an
entry is idle for XAUTOCLAIM whenever recovery runs, since a handler may run for
longer than `min_idle_ms`; a command whose caller was cancelled takes effect
before the cancellation or not at all, except for reads and claims.

### How `Outbox` and `SqliteStore` correspond to the code

* A request is a POST /jobs, named by the job it creates, or a call of the
  replay endpoint. `req[r]` is where it is: `found` after `read_dlq_entry`;
  `begin`, `insert`, `commit` inside `transaction()`; `xadd` at its only await
  after the reply to XLEN; or how it was answered.
* `sqlite3` is synchronous, so from BEGIN to COMMIT nothing else runs in that
  process (`Blocked`), while other processes do. The key lookup and BEGIN are
  separate steps, which is the window the unique index is there for.
* A connection has `inTx` (Python's `in_transaction`), `pinned` (SQLite has a read
  snapshot) and `snap` (that snapshot with the transaction's own writes). `lock`
  is the WAL write lock. `Rows(p)` is what a SELECT sees. A write needs the lock
  and an up-to-date snapshot (`CanWrite`); when it cannot have them it raises,
  and the transaction that `sqlite3` opened for it stays open. SQLite and the
  `sqlite3` module are external; `SqliteStore` states what is used of them.
* `UpdateStatus` has no commit, as `update_status` has none, and the Executor
  swallows its exceptions. From the first status update on, the connection of
  an executing process is in a transaction for good.
* A replayed job carries a plain string as its status, so `insert_outbox` raises
  (with a store) or `to_dict` does (without).
* `task[e]` is the execution of entry `e` in process `host[e]`. A drain that
  cancels tasks is followed by the end of the process, so `Crash` covers it.
* `acked` is what XACK has taken from the pending list. `AckError` and `BuryError` are
  calls of the executor that fail or lose their reply: `GoesOn` says what the code does
  then, which is to log the failure and record the outcome all the same, or, in the
  client library, to send the command again. `logged` is the history of such failures;
  with `succeeded` and `failed`, the entries whose handler returned or raised, it is
  what a reported status is compared with.
* The depth that `Check` compares is any length that the stream has had, since
  XLEN and the test are separated by an await.
* `EnqueuerStore` and `ExecutorStore` choose the composition. The API and
  `run_worker.py` ship with neither.

### How `TokenBucket` and `CircuitBreaker` correspond to the code

`TokenBucket`: `Arrive`, `ScriptLoad`, `Evalsha`, `NoScript` and `CallFails` are the
segments of `allow()`. The time is read when the command is sent and used when the server
runs it. Costs are 1 and the rate is whole, as the middleware has them.

`CircuitBreaker`: one action per Redis round trip of `record_failure`,
`maybe_trip`, `is_open` and `reset`, by callers that call in any order, since the
program has no caller yet. `now[c]` is the time a call has read, possibly long
before its command is served. A failure is its time, because the code uses the
time as score and as member; times are whole, so two failures of one instant are
one member, as they are in Redis when the floats are equal. `Abort` is a crash,
a cancellation or a Redis error at any await. Callers share one clock.

## 3. Runs

| Run | Result | Shows |
| --- | --- | --- |
| `delivery_safety` | passes | types, `LeaseInvariant`, `HandlerAtMostOnce`, `SettledOnlyAfterOutcome`, `SemaphoreConserved`, `GracefulStopStrandsNothing`, `DlqFaithful`, `StartsOnlyUnsettled`, `LetGoIsFinal`, and that `Delivery` implements `DeliveryContract` |
| `delivery_liveness` | passes | `EveryAcceptedJobRuns`, `ShutdownCompletes`, `SuccessIsAcked`, `WaitsAreServed` |
| `backpressure` | passes | `NothingEvicted`, `AnswersMatchStream`, `BlockedStaysBlocked` |
| `outbox` | passes | types, `KeyUsedOnce`, `EnqueueReleasesLock`, `StatusIsTrue`, `AnswersAreTrue`, `RequestsEnd`, and that `Outbox` implements `OutboxContract` |
| `token_bucket` | passes | types, `GrantsAccounted`, `GrantsWithinTime`, `NoScriptOnlyAfterRestart` |
| `circuit_breaker` | passes | types, `TripJustified`, `OpenHasDeadline`, `ProbeNotEarly` |
| `redelivery` | violated | README.md:87, 88 and 91, execute.py:182: an entry is redelivered and executed again after a crash before its handler, after a success without XACK, and after a failed attempt. It is claimed for ever and not executed |
| `admission_release` | violated | admission.py:24: polling resumes when the queue drains. XLEN never shrinks |
| `token_race` | violated | api/main.py:127: "No race". A late call sets `last_refill` back and the same second is credited twice |
| `outbox_status` | violated | README.md:73: a success marks the outbox completed. The update is never committed |
| `dlq_replay` | violated | api/main.py:476: replay re-enqueues the job. It raises before the XADD |
| `status_meaning` | violated | job.py:15, 17: completed is acknowledged, dead is in the DLQ. A call that fails is logged and the status written all the same |

The six violated runs are disagreements between the code and what the
repository says of it. `redelivery` checks `RedeliveryContract`, the conjunction of
three claims, and under `redelivery.cfg` each of them is violated by itself:
`CrashedLeaseIsRedelivered` (README.md:87), `UnackedSuccessRunsAgain` (README.md:88,
"handler runs AGAIN"; also execute.py:33-36 and 124, adr/002-at-least-once.md:43,
and tests/test_crash_scenarios.py:182, which asserts two calls after calling `execute`
a second time itself) and `FailedAttemptIsRetried` (execute.py:182). They have one
cause: nothing executes an entry that XAUTOCLAIM returns. The same cause is why
`HandlerAtMostOnce` holds. It is a statement about the code, not about its
documentation, which promises the opposite for a success whose XACK was lost: what
the code gives today is at most one execution per entry, and that is what the
contract states. A change that executes claimed entries will break `HandlerAtMostOnce`, `StartsOnlyUnsettled`
and the contract's `Execute`; the fault variant `ClaimStale_Dispatches` shows how.

The passing runs also check the positive side of these findings, which the proofs
then establish for every instance (section 4): `LetGoIsFinal` (an entry that was
delivered and is in nobody's hands is taken up by nobody, so its history is
closed), `BlockedStaysBlocked` (no step makes a blocked admission controller admit
again) and `GrantsWithinTime` (what remains true of "No race"). When the code is
repaired they are the properties to be replaced by the documented ones.

`StatusIsTrue` and `StatusAsDocumented` are two readings of a status. JobStatus
defines completed as acknowledged and dead as routed to the DLQ; `StatusAsDocumented`
says that of every status that GET /jobs/{id} reports, and `status_meaning` refutes
both halves: after a failed XACK the job is completed and still pending, after a failed
DLQ write it is dead and in no DLQ. (tests/test_crash_scenarios.py:143-152 speaks of a job
that is completed and pending as a known limitation.) `StatusIsTrue` asks as much of
Redis and of the handler's outcome, and excuses only the executions for which that very
failure was logged: completed needs a success that is acknowledged, failed an entry
that is still pending with retries left, dead an exhausted entry that is acknowledged
and in the DLQ.

What `outbox` shows has to be read with `outbox_status`: because status updates
are never committed, `StatusIsTrue` is about what a process reads inside its own
open transaction, and `EnqueueReleasesLock` says that `transaction()` itself
always ends what it began, so that an open transaction is always one of
`update_status`. A process that only enqueues (the composition in which the API
has the store and workers do not) therefore never keeps the lock. A process that
waits for the lock of one that never commits gets an error after `busy_timeout`,
which is why `RequestsEnd` holds all the same.

### Bounds

`delivery_safety` has two workers (symmetric), two jobs, of which one has a retry
and the other goes to the DLQ on its first failure, two entries, batches of two,
one permit per worker (so that `run()` blocks on the semaphore with an entry in
hand), `MAXLEN` 1 (so that an eviction happens), and one each of a Redis fault, a
crash or cancellation, and a stop request. Two workers are enough for every
conflict over an entry, which is between two holders; the proofs remove the
bound for the properties they cover. `MaxEntries` equals the number of jobs there,
so a duplicate XADD happens only when the other job is not in the stream;
`backpressure` has room for it. `delivery_liveness` has the same shape without
faults and crashes, no symmetry, and room enough for both jobs. `backpressure` has
one worker, three jobs, two requests at a time, one fault and exactly the slack
that the property's premise asks for; the code has 1,000.

`outbox` has two processes; `p1` also executes. Jobs `j1` and `j2` carry one key and
arrive at different processes, `j3` has neither key nor retries, so it can become a
dead letter, and `r1` replays it from the other process. The queue is full at two
entries, the replay looks at one dead letter, and `MaxEntries` leaves room for the
two jobs that can be published and one duplicate. One Redis fault or crash happens
at any point. `outbox_status` and `dlq_replay` need one job each, and no fault;
`status_meaning` one job without retries, and one fault, which is the failed XACK or
the failed DLQ write. `redelivery` has the two workers, the two jobs and the batches of
`delivery_safety`, no fault or stop and one crash, which comes before, during or after
a handler.

`token_bucket` has three request slots on two instances, two ticks, capacity 3 and
rate 2, so calls can overtake each other across a tick while the bucket is empty,
and one restart of Redis. Its clocks are in step: with unequal ones each pair of
calls may take `last_refill` back once more, so the states are infinite in number;
the theorems cover skewed clocks. `circuit_breaker` has two callers (symmetric), threshold 2,
window 2, a half-open delay of 1 and five instants, so a trip can be decided on
failures that leave the window before it is written, and a probe on a
`last_failure` that a second trip replaces.

Bounds that guard actions: `MaxEntries`, `MaxInFlight`, `MaxFaults`, `MaxCrashes`,
`MaxStops`, `MaxTime`, `MaxRestarts`. `MaxInFlight` bounds the requests between their
depth check and their XADD. The code has no such limit, so what `NothingEvicted` and
`SlackSuffices` show is conditional: nothing is evicted as long as no more requests than
that are under way, for every value whose slack fits into MAXLEN.

Deadlock checking is on except in the runs of `Outbox`, where every request is made
once and the system comes to rest when all are answered and executed.

### Fairness

`Delivery`: weak fairness of each step that the program takes by itself:
docker-compose restarts a worker (`restart: unless-stopped`), the event loop
resumes what is ready, Redis answers, BLOCK and the drain timeout expire, a
handler ends by `job_timeout` at the latest, the recovery loop runs. Success and
failure of a handler are one fair choice, so neither is promised. The violated
temporal runs use the same fairness, recovery included.

`Outbox`: weak fairness of every request that has begun (store calls return, or
raise within `busy_timeout`; Redis answers), of every execution, and of the workers'
reading. Nothing is assumed of faults, crashes, stop requests or clients in either.

## 4. Proofs

Assumptions: `RedisAssumption`, `DeliveryAssumption`, `StoreAssumption`,
`OutboxAssumption`, `BucketAssumption` and `BreakerAssumption`, which only say what
kind of value each constant has (TLC evaluates them in the runs). The outbox
refinement also assumes `EnqueuerStore`: without a store there is no outbox.

* `DeliveryProofs!TypeCorrect`: `TypeOK`, together with `HeldIsDelivered`,
  because `_handle_failure` reads the body of its entry and only a delivered
  entry is known to have one. One lemma per Redis command, then one step per
  action.
* `DeliverySafetyProofs`: `LeaseInvariant` is inductive. `HandlerAtMostOnce` is not:
  that a task is about to start the handler for the first time needs that the
  entry is in no other place (`HeldOnce`), which needs that a read hands out only
  ids above the cursor while everything held is at or below it
  (`HeldIsDelivered`); that an XACK is justified needs the agreement of a task's
  stage with the history (`StageAgrees`) and of Redis with both
  (`RecordAgrees`). `Frame` covers the steps that give nothing to a worker,
  `Reading` every XREADGROUP, `TaskFrame` reduces a task step to its own entry.
  From it: `AtMostOnce`, `SettledHasOutcome`, `StartsUnsettled`, and `LetGoForGood`
  (`LetGoIsFinal`): a worker obtains an entry only by an XREADGROUP, which hands out
  ids above the cursor (`WorkerTakes`), and a task obtains one only from its own
  worker's batch, so an entry at or below the cursor that nobody holds is held by
  nobody afterwards (`LetGoStep`).
* `DeliveryResourceProofs`, on top of that invariant: `PermitsConserved`
  (`SemaphoreConserved`; a task is created for an entry that has none, by `HeldOnce`);
  `NothingStranded` (`GracefulStopStrandsNothing`, with `StoppingAgrees`: a batch is in
  hand only inside the for loop, and nothing is merely created when tasks are
  cancelled); `DeadLettersCounted` (`DlqFaithful`, with `DlqCounted`: an entry whose dead
  letter is being written again is paid for by the fault that lost the reply);
  `SlackSuffices` (`NothingEvicted`, with `DepthBounded`: stream length plus admitted
  requests stays below `MaxQueueDepth + MaxInFlight + faults`, because a request is
  admitted only below the depth and each XADD afterwards uses up a request or a
  fault); `AnswersAgree` (`AnswersMatchStream`: each XADD adds one entry of one job and
  changes that job's answer or uses up a fault); `NeverReleased` (`BlockedStaysBlocked`:
  the stream gets shorter only by the trimming of an XADD, which keeps `MAXLEN`
  entries); `WaitersAreServed` (`WaitsAreServed`, with `LoopAgrees`: a batch is in hand
  exactly inside the for loop and a started worker has a group; that a worker without
  permits has a live task is conservation of permits).
* `DeliveryRefinement!Refinement`: `Delivery` implements `DeliveryContract`, step by
  step: XADD is Publish, XREADGROUP is Deliver even when the reply is lost, a
  second DLQ write after a lost reply and an XACK of an entry that recovery has
  dropped are stutters, XAUTOCLAIM is Expire.
* `OutboxProofs`: `OutboxTypeCorrect`, `KeysAreUsedOnce`, `EnqueueAlwaysReleases`,
  `StatusesAreTrue` and `OutboxRefinement`, from one inductive invariant. That a key
  is used once needs that the committed table has one job per key
  (`KeyClaimedOnce`), which a commit preserves only if its snapshot is the newest
  table plus one row that violates nothing (`TxnAgrees`); that holds because one
  request at a time is inside its transaction (`OneWriter`) and nothing but inserts is
  ever committed (`OnlyPending`). Whatever is in the stream, or about to be sent
  there, has its row (`ClaimedFirst`). `StatusIsTrue` needs that the stage of each
  execution agrees with its history, the acknowledgements and the DLQ (`ExecAgrees`: a
  handler that has not ended has no outcome and no XACK, an execution at its last XACK
  has its dead letter), and that what a status was true of stays so (`OutcomesGrow`,
  `StillTrue`: nothing is undone, and a failed entry with retries left is acknowledged
  by nobody). `DocumentedUnlessLogged`: while nothing has been logged as failed,
  `StatusAsDocumented` holds, so the recording after a failed call is the one cause of
  what `status_meaning` shows.
* `OutboxAnswerProofs!AnswersTrue`: `AnswersAreTrue`, on top of that invariant. The
  hard answer is 409, because the lookup may read an old snapshot or rows that are not
  committed. `ReadsCommitted`: a row that a connection reads is committed, or is the one
  it is inserting, and during that its process serves no other request; and committed
  rows are never lost. `NothingEarly`: nothing of a job is recorded or published
  before its own request does it, which makes 503 and 409 true of the job itself.
* `TokenBucketProofs!Accounting`: `GrantsAccounted` for every rate, capacity, skew
  and order of arrival. The script moves `last_refill - first + regress` forward
  by exactly the time it refills for (`CreditStep`). Also `BucketTypeCorrect`, and
  `ScriptIsKnown`: `NoScriptOnlyAfterRestart`, from the fact that an instance has
  `_script_hash` only after its SCRIPT LOAD was answered. `WithinRealTime`
  (`GrantsWithinTime`): the stored time was read from some instance's clock, which has
  not gone back since (`ReadFromClock`), so the credited time is real time plus what
  was taken back. `NoRaceInOrder`: with clocks in step and nothing taken back, `NoRace`
  holds, so reordering and skew are the only causes of what `token_race` shows.
* `CircuitBreakerProofs`: `BreakerTypeCorrect`, `TripsAreJustified`,
  `OpenBreakerHasDeadline`, `ProbesAreDue`. The invariant adds what a call between
  its commands knows (`StageAgrees`: a caller about to write OPEN has counted enough
  failures of its window, a caller about to probe has seen an expired trip) and
  that `last_failure` is the time of a trip (`LastIsTrip`). `WindowGrows`: recorded
  failures only add to a window, so a count made earlier stays a lower bound.

The six violated runs refute statements of the repository on small instances. For
these a theorem says how far that goes in every instance:

| Statement | Run | Theorem |
| --- | --- | --- |
| a crashed worker's entry is redelivered | `redelivery` | `NeverRedelivered`: let go before its handler started, it is never started |
| after a success without XACK the handler runs again | `redelivery` | `NeverRunAgain`: it has run once and never runs again |
| a failed attempt is retried | `redelivery` | `NeverRetried`: after an attempt without outcome there is no other, and no success |
| polling resumes when the queue drains | `admission_release` | `BlockedForGood`: if the admission depth fits into MAXLEN (5,000 and 11,000 by default), never |
| a success marks the outbox completed | `outbox_status` | `OutcomesNeverCommitted`: no committed row is ever anything but pending |
| replay re-enqueues the job | `dlq_replay` | `ReplaysAddNothing`: every entry is owed to the answer of a POST or to a lost reply |
| completed is acknowledged, dead is in the DLQ | `status_meaning` | `DocumentedUnlessLogged`: true until a failed call is logged |
| "No race" in the rate limiter | `token_race` | `NoRaceInOrder`: true with clocks in step and calls in order |

The first four are of the form `[](P => []P)` or `[](P => []Q)`: they need no fairness,
so no scheduling assumption can rescue the documented behaviour.

Every invariant and action property that the passing runs check is also proved.
Model-checked only: the liveness properties (`EveryAcceptedJobRuns`,
`ShutdownCompletes`, `SuccessIsAcked`, `RequestsEnd`), which are outside the prover's
reach, as is ENABLED.

## 5. Not modelled, and the plan

Not modelled:

* Retry policy: the delay it computes is logged by `_handle_failure` and waited for
  by nobody; `max_total_window` has no caller.
* `delete_dlq_entry`: it comes after the re-enqueue of a replay, which always raises.
* `read_dlq`, `list_queues` and the other GET endpoints: they read and change nothing.
* Metrics, Clock, CLI, deployment, domain errors, request validation and logging: no
  state that anything reads back.

Disagreements with the repository's text that the models show and that have no run
of their own: "allow one request through" (api/main.py:271; in HALF_OPEN every
caller passes); "recovery process replays" pending rows (README.md:90; nothing reads
them); a lost race for a key is an IntegrityError answered with 500, not the 409 of
README.md:95.

What could come next: a third worker or a larger batch in `delivery_safety` (the
proofs already cover them), and, once claimed entries are executed or status
updates committed in the code, the contracts to go with it.

------------------------------ MODULE Delivery ------------------------------
(***************************************************************************)
(* One RelayQ queue end to end: API requests that enqueue jobs             *)
(* (Enqueuer.enqueue), worker processes that lease and execute them        *)
(* (WorkerRunner.run, Executor.execute), the optional lease recovery       *)
(* (RecoveryWorker) and graceful shutdown (GracefulShutdown.drain), over   *)
(* the Redis stream of module RedisStream.                                  *)
(*                                                                         *)
(* The composition is the one api/main.py and run_worker.py ship: neither  *)
(* the Enqueuer nor the Executor is given an outbox store.  Admission      *)
(* control and recovery are constructor arguments of WorkerRunner and are  *)
(* switched by HasAdmission and HasRecovery.                                *)
(*                                                                         *)
(* A worker process is one asyncio event loop, so code runs without        *)
(* interruption from one await to the next.  Its steps here are those      *)
(* segments, together with the Redis command the awaiting coroutine waits  *)
(* for.  A coroutine that waits for a reply may be cancelled, may see an   *)
(* exception, or may have its command sent again by the client library,    *)
(* and in each case the server may or may not have run the command.        *)
(***************************************************************************)
EXTENDS RedisStream

CONSTANTS
  MaxRetries,      \* Job.max_retries of every job
  MaxConcurrency,  \* WorkerRunner(max_concurrency)
  PollBatch,       \* WorkerRunner(poll_batch)
  ClaimBatch,      \* RecoveryWorker(claim_batch)
  MaxQueueDepth,   \* Enqueuer(max_queue_depth)
  TrimSlack,       \* MAXLEN is max_queue_depth + TrimSlack (1_000 in the code)
  MaxInFlight,     \* bound: requests between the depth check and XADD
  HasAdmission,    \* is WorkerRunner given an AdmissionController?
  AdmissionDepth,  \* AdmissionController(max_depth)
  HasRecovery,     \* is WorkerRunner given a RecoveryWorker?
  MaxFaults,       \* bound: Redis calls that fail or lose their reply
  MaxCrashes,      \* bound: processes killed, or run() cancelled
  MaxStops         \* bound: GracefulShutdown.request calls

ASSUME DeliveryAssumption ==
  /\ MaxRetries \in [Jobs -> Nat]
  /\ MaxConcurrency \in Nat \ {0}
  /\ PollBatch \in Nat \ {0}
  /\ ClaimBatch \in Nat \ {0}
  /\ MaxQueueDepth \in Nat
  /\ TrimSlack \in Nat
  /\ MaxInFlight \in Nat
  /\ HasAdmission \in BOOLEAN
  /\ AdmissionDepth \in Nat
  /\ HasRecovery \in BOOLEAN
  /\ MaxFaults \in Nat
  /\ MaxCrashes \in Nat
  /\ MaxStops \in Nat

VARIABLES
  req,        \* enqueue request of each job
  pc,         \* where run() of each worker is
  batch,      \* entries returned by read_group and not yet given to a task
  sem,        \* free permits of the worker's semaphore
  shutdown,   \* the GracefulShutdown event
  task,       \* the _process_job task of each entry in each worker
  faults, crashes, stops,        \* how much of each budget is spent
  runs,       \* history: how often the handler was started for an entry
  succeeded,  \* history: entries whose handler returned
  buried      \* history: entries whose job was written to the DLQ

workerVars  == <<pc, batch, sem, shutdown, task>>
budgetVars  == <<faults, crashes, stops>>
historyVars == <<runs, succeeded, buried>>
vars        == <<redisVars, req, workerVars, budgetVars, historyVars>>

ReqState == {"new", "admitted", "accepted", "rejected", "failed"}

\* "poll": at the loop condition; "read": awaiting read_group; "dispatch": in
\* the for loop over jobs; "drain" and "cancel": the two waits of drain().
Looping == {"poll", "read", "dispatch"}
Loc     == Looping \cup {"down", "drain", "cancel"}

\* "created": scheduled, not started; "handler": awaiting handler(job); "ack",
\* "dlq", "dlqack": awaiting the XACK of a success, the XADD to the DLQ, the
\* XACK after it; "done": that last call is over, the coroutine not yet resumed.
TaskState == {"none", "created", "handler", "ack", "dlq", "dlqack", "done"}

\* The worker's _inflight set.
Live(w) == {e \in Entries : task[w][e] # "none"}

TypeOK ==
  /\ RedisTypeOK
  /\ req       \in [Jobs -> ReqState]
  /\ pc        \in [Workers -> Loc]
  /\ batch     \in [Workers -> SUBSET Entries]
  /\ sem       \in [Workers -> Nat]
  /\ shutdown  \in [Workers -> BOOLEAN]
  /\ task      \in [Workers -> [Entries -> TaskState]]
  /\ faults    \in Nat
  /\ crashes   \in Nat
  /\ stops     \in Nat
  /\ runs      \in [Entries -> Nat]
  /\ succeeded \in SUBSET Entries
  /\ buried    \in SUBSET Entries

NoTasks == [e \in Entries |-> "none"]

Init ==
  /\ RedisInit
  /\ req       = [j \in Jobs |-> "new"]
  /\ pc        = [w \in Workers |-> "down"]
  /\ batch     = [w \in Workers |-> {}]
  /\ sem       = [w \in Workers |-> MaxConcurrency]
  /\ shutdown  = [w \in Workers |-> FALSE]
  /\ task      = [w \in Workers |-> NoTasks]
  /\ faults    = 0
  /\ crashes   = 0
  /\ stops     = 0
  /\ runs      = [e \in Entries |-> 0]
  /\ succeeded = {}
  /\ buried    = {}

Fault == faults < MaxFaults /\ faults' = faults + 1 /\ UNCHANGED <<crashes, stops>>
Kill  == crashes < MaxCrashes /\ crashes' = crashes + 1 /\ UNCHANGED <<faults, stops>>

-----------------------------------------------------------------------------
(* The API process: Enqueuer.enqueue *)

Admitted == {j \in Jobs : req[j] = "admitted"}

\* lifespan: the default queue's group is created when the API starts.
ApiWarmup ==
  /\ ~group
  /\ EnsureGroup
  /\ UNCHANGED <<req, workerVars, budgetVars, historyVars>>

\* Fault variant: the depth test lets one request too many in.
CheckDepth_OffByOne(j) ==
  /\ req[j] = "new"
  /\ Cardinality(Admitted) < MaxInFlight
  /\ req' = [req EXCEPT ![j] = IF StreamLength > MaxQueueDepth THEN "rejected" ELSE "admitted"]
  /\ UNCHANGED <<redisVars, workerVars, budgetVars, historyVars>>

\* XLEN, then QueueFull or on to the XADD, with an await in between.  How many
\* requests are between the two is bounded by MaxInFlight, not by the code.
CheckDepth(j) ==
  /\ req[j] = "new"
  /\ Cardinality(Admitted) < MaxInFlight
  /\ req' = [req EXCEPT ![j] = IF StreamLength >= MaxQueueDepth THEN "rejected" ELSE "admitted"]
  /\ UNCHANGED <<redisVars, workerVars, budgetVars, historyVars>>

Publish(j) == XAdd(j, 0, MaxQueueDepth + TrimSlack)

Enqueue(j) ==
  /\ req[j] = "admitted"
  /\ Publish(j)
  /\ req' = [req EXCEPT ![j] = "accepted"]
  /\ UNCHANGED <<workerVars, budgetVars, historyVars>>

\* Fault variant: an XADD that failed is answered like one that succeeded.
EnqueueError_Accepts(j) ==
  /\ req[j] = "admitted"
  /\ Fault
  /\ UNCHANGED redisVars \/ Publish(j)
  /\ req' = [req EXCEPT ![j] = "accepted"]
  /\ UNCHANGED <<workerVars, historyVars>>

\* The XADD fails or its reply is lost: the request fails, or the client
\* library sends the command again.
EnqueueError(j) ==
  /\ req[j] = "admitted"
  /\ Fault
  /\ UNCHANGED redisVars \/ Publish(j)
  /\ \/ req' = [req EXCEPT ![j] = "failed"]
     \/ UNCHANGED req
  /\ UNCHANGED <<workerVars, historyVars>>

-----------------------------------------------------------------------------
(* The worker loop: WorkerRunner.run *)

\* A restarted process has nothing of the previous one but its worker id.
Start(w) ==
  /\ pc[w] = "down"
  /\ EnsureGroup
  /\ pc' = [pc EXCEPT ![w] = "poll"]
  /\ UNCHANGED <<req, batch, sem, shutdown, task, budgetVars, historyVars>>

\* AdmissionController.check passes, or there is none.
Admits == HasAdmission => StreamLength < AdmissionDepth

\* The check raises AdmissionBlocked: the loop sleeps and is back at its test.
AdmissionSleep(w) ==
  /\ pc[w] = "poll"
  /\ ~shutdown[w]
  /\ ~Admits
  /\ UNCHANGED vars

BeginRead(w) ==
  /\ pc[w] = "poll"
  /\ ~shutdown[w]
  /\ Admits
  /\ pc' = [pc EXCEPT ![w] = "read"]
  /\ UNCHANGED <<redisVars, req, batch, sem, shutdown, task, budgetVars, historyVars>>

ReadGroup(w) ==
  /\ pc[w] = "read"
  /\ XReadGroup(w, PollBatch)
  /\ batch' = [batch EXCEPT ![w] = ReadBatch(PollBatch)]
  /\ pc' = [pc EXCEPT ![w] = "dispatch"]
  /\ UNCHANGED <<req, sem, shutdown, task, budgetVars, historyVars>>

\* BLOCK expires with nothing to deliver: read_group returns [].
ReadTimeout(w) ==
  /\ pc[w] = "read"
  /\ ReadBatch(PollBatch) = {}
  /\ pc' = [pc EXCEPT ![w] = "poll"]
  /\ UNCHANGED <<redisVars, req, batch, sem, shutdown, task, budgetVars, historyVars>>

\* What an XREADGROUP whose reply never arrives has done to the server.
ReadInFlight(w) ==
  \/ UNCHANGED redisVars
  \/ pc[w] = "read" /\ XReadGroup(w, PollBatch)

\* The read fails or its reply is lost: run() logs, sleeps and loops, or the
\* client library sends the command again.
PollError(w) ==
  /\ pc[w] = "read"
  /\ Fault
  /\ ReadInFlight(w)
  /\ \/ pc' = [pc EXCEPT ![w] = "poll"]
     \/ UNCHANGED pc
  /\ UNCHANGED <<req, batch, sem, shutdown, task, historyVars>>

\* Fault variant: the task is created without waiting for a permit.
Dispatch_NoWait(w) ==
  /\ pc[w] = "dispatch"
  /\ \E e \in batch[w] :
       /\ task'  = [task EXCEPT ![w][e] = "created"]
       /\ batch' = [batch EXCEPT ![w] = @ \ {e}]
       /\ pc'    = [pc EXCEPT ![w] = IF batch[w] = {e} THEN "poll" ELSE "dispatch"]
  /\ sem' = [sem EXCEPT ![w] = @ - 1]
  /\ UNCHANGED <<redisVars, req, shutdown, budgetVars, historyVars>>

\* One round of the for loop: acquire the semaphore, create the task.
Dispatch(w) ==
  /\ pc[w] = "dispatch"
  /\ sem[w] > 0
  /\ \E e \in batch[w] :
       /\ \A f \in batch[w] : e <= f
       /\ task'  = [task EXCEPT ![w][e] = "created"]
       /\ batch' = [batch EXCEPT ![w] = @ \ {e}]
       /\ pc'    = [pc EXCEPT ![w] = IF batch[w] = {e} THEN "poll" ELSE "dispatch"]
  /\ sem' = [sem EXCEPT ![w] = @ - 1]
  /\ UNCHANGED <<redisVars, req, shutdown, budgetVars, historyVars>>

-----------------------------------------------------------------------------
(* Executor.execute and WorkerRunner._process_job, one task per entry *)

At(w, e, s) == task[w][e] = s

Goto(w, e, s) == task' = [task EXCEPT ![w][e] = s]

\* _process_job returns or raises: its finally clause releases the permit.
End(w, e) ==
  /\ task' = [task EXCEPT ![w][e] = "none"]
  /\ sem' = [sem EXCEPT ![w] = @ + 1]

\* The new task runs up to its first await, inside the handler.
Begin(w, e) ==
  /\ At(w, e, "created")
  /\ Goto(w, e, "handler")
  /\ runs' = [runs EXCEPT ![e] = @ + 1]
  /\ UNCHANGED <<redisVars, req, pc, batch, sem, shutdown, budgetVars, succeeded, buried>>

HandlerReturns(w, e) ==
  /\ At(w, e, "handler")
  /\ Goto(w, e, "ack")
  /\ succeeded' = succeeded \cup {e}
  /\ UNCHANGED <<redisVars, req, pc, batch, sem, shutdown, budgetVars, runs, buried>>

\* job.attempts += 1; job.should_dlq(), on the Job parsed from the entry.
Exhausted(e) == stream[e].attempts + 1 > MaxRetries[stream[e].job]

\* Fault variant: the task of a failed attempt keeps its semaphore permit.
HandlerFails_KeepsPermit(w, e) ==
  /\ At(w, e, "handler")
  /\ Goto(w, e, IF Exhausted(e) THEN "dlq" ELSE "none")
  /\ UNCHANGED <<redisVars, req, pc, batch, sem, shutdown, budgetVars, historyVars>>

\* The handler raises or exceeds job_timeout: _handle_failure goes on to the DLQ
\* or, with attempts left, leaves the entry pending and returns.
HandlerFails(w, e) ==
  /\ At(w, e, "handler")
  /\ \/ /\ Exhausted(e)
        /\ Goto(w, e, "dlq")
        /\ UNCHANGED sem
     \/ /\ ~Exhausted(e)
        /\ End(w, e)
  /\ UNCHANGED <<redisVars, req, pc, batch, shutdown, budgetVars, historyVars>>

\* Fault variant: only the consumer that owns the entry may acknowledge it.
Ack_OwnerOnly(w, e) ==
  /\ task[w][e] \in {"ack", "dlqack"}
  /\ IF owner[e] = w THEN XAck(e) ELSE UNCHANGED redisVars
  /\ Goto(w, e, "done")
  /\ UNCHANGED <<req, pc, batch, sem, shutdown, budgetVars, historyVars>>

\* XACK, of a success or after the DLQ write.
Ack(w, e) ==
  /\ task[w][e] \in {"ack", "dlqack"}
  /\ XAck(e)
  /\ Goto(w, e, "done")
  /\ UNCHANGED <<req, pc, batch, sem, shutdown, budgetVars, historyVars>>

\* Fault variant: the try around the handler also covers the XACK, so a failed
\* acknowledgement is handled as a failed job.
AckError_CountsAsFailure(w, e) ==
  /\ task[w][e] \in {"ack", "dlqack"}
  /\ Fault
  /\ Goto(w, e, "dlq")
  /\ UNCHANGED <<redisVars, req, pc, batch, sem, shutdown, historyVars>>

\* The XACK fails and the exception is swallowed.  An XACK that took effect but
\* lost its reply is Ack: what follows is the same.
AckError(w, e) ==
  /\ task[w][e] \in {"ack", "dlqack"}
  /\ Fault
  /\ Goto(w, e, "done")
  /\ UNCHANGED <<redisVars, req, pc, batch, sem, shutdown, historyVars>>

WriteDlq(e) ==
  /\ XAddDlq(stream[e].job, stream[e].attempts + 1)
  /\ buried' = buried \cup {e}

\* Fault variant: the pending entry is given up before the DLQ has the job.
Bury_AckFirst(w, e) ==
  /\ At(w, e, "dlq")
  /\ XAck(e)
  /\ Goto(w, e, "dlqack")
  /\ UNCHANGED <<req, pc, batch, sem, shutdown, budgetVars, historyVars>>

Bury(w, e) ==
  /\ At(w, e, "dlq")
  /\ WriteDlq(e)
  /\ Goto(w, e, "dlqack")
  /\ UNCHANGED <<req, pc, batch, sem, shutdown, budgetVars, runs, succeeded>>

\* Fault variant: a DLQ write whose reply is lost goes on to the XACK.
BuryError_AcksAnyway(w, e) ==
  /\ At(w, e, "dlq")
  /\ Fault
  /\ UNCHANGED redisVars
  /\ Goto(w, e, "dlqack")
  /\ UNCHANGED <<req, pc, batch, sem, shutdown, historyVars>>

\* The DLQ write fails or loses its reply: the XACK is skipped, or the client
\* library sends the command again.
BuryError(w, e) ==
  /\ At(w, e, "dlq")
  /\ Fault
  /\ UNCHANGED <<redisVars, buried>> \/ WriteDlq(e)
  /\ Goto(w, e, "done") \/ UNCHANGED task
  /\ UNCHANGED <<req, pc, batch, sem, shutdown, runs, succeeded>>

Finish(w, e) ==
  /\ At(w, e, "done")
  /\ End(w, e)
  /\ UNCHANGED <<redisVars, req, pc, batch, shutdown, budgetVars, historyVars>>

-----------------------------------------------------------------------------
(* Lease recovery: RecoveryWorker._claim_stale *)

\* Fault variant: claimed entries are dispatched, although the worker they are
\* claimed from may be running them.
ClaimStale_Dispatches(w) ==
  /\ HasRecovery
  /\ pc[w] = "poll"
  /\ \E S \in SUBSET Pending :
       /\ S # {} /\ Cardinality(S) <= ClaimBatch
       /\ XAutoClaim(w, S)
       /\ batch' = [batch EXCEPT ![w] = S]
  /\ pc' = [pc EXCEPT ![w] = "dispatch"]
  /\ UNCHANGED <<req, sem, shutdown, task, budgetVars, historyVars>>

\* A round over idle entries: they change owner, the claimed jobs are logged.
\* min_idle_ms counts from the last delivery, so an entry whose handler is
\* running may be idle.  A round under way when run() stops may still reach the
\* server.
ClaimStale(w) ==
  /\ HasRecovery
  /\ pc[w] # "down"
  /\ \E S \in SUBSET Pending :
       /\ S # {} /\ Cardinality(S) <= ClaimBatch
       /\ XAutoClaim(w, S)
  /\ UNCHANGED <<req, workerVars, budgetVars, historyVars>>

-----------------------------------------------------------------------------
(* Stopping: GracefulShutdown and the finally clause of run() *)

RequestShutdown(w) ==
  /\ pc[w] # "down"
  /\ ~shutdown[w]
  /\ stops < MaxStops
  /\ stops' = stops + 1
  /\ shutdown' = [shutdown EXCEPT ![w] = TRUE]
  /\ UNCHANGED <<redisVars, req, pc, batch, sem, task, faults, crashes, historyVars>>

\* Fault variant: the event is also tested inside the for loop, so a stopping
\* worker leaves with leased entries that no task was created for.
LoopExit_DropsBatch(w) ==
  /\ pc[w] \in {"poll", "dispatch"}
  /\ shutdown[w]
  /\ pc' = [pc EXCEPT ![w] = "drain"]
  /\ batch' = [batch EXCEPT ![w] = {}]
  /\ UNCHANGED <<redisVars, req, sem, shutdown, task, budgetVars, historyVars>>

\* The event is tested at the loop condition only.
LoopExit(w) ==
  /\ pc[w] = "poll"
  /\ shutdown[w]
  /\ pc' = [pc EXCEPT ![w] = "drain"]
  /\ UNCHANGED <<redisVars, req, batch, sem, shutdown, task, budgetVars, historyVars>>

\* run() is cancelled at one of its awaits: what it read is dropped.
CancelRun(w) ==
  /\ pc[w] \in Looping
  /\ Kill
  /\ ReadInFlight(w)
  /\ pc' = [pc EXCEPT ![w] = "drain"]
  /\ batch' = [batch EXCEPT ![w] = {}]
  /\ UNCHANGED <<req, sem, shutdown, task, historyVars>>

\* drain_timeout expires; by then every created task has started.
DrainTimeout(w) ==
  /\ pc[w] = "drain"
  /\ Live(w) # {}
  /\ \A e \in Live(w) : ~At(w, e, "created")
  /\ pc' = [pc EXCEPT ![w] = "cancel"]
  /\ UNCHANGED <<redisVars, req, batch, sem, shutdown, task, budgetVars, historyVars>>

\* CancelledError is raised at the task's await.
CancelTask(w, e) ==
  /\ pc[w] = "cancel"
  /\ e \in Live(w)
  /\ End(w, e)
  /\ UNCHANGED <<redisVars, req, pc, batch, shutdown, budgetVars, historyVars>>

\* What is left of a process that is gone.
Reset(w) ==
  /\ pc'       = [pc EXCEPT ![w] = "down"]
  /\ batch'    = [batch EXCEPT ![w] = {}]
  /\ sem'      = [sem EXCEPT ![w] = MaxConcurrency]
  /\ shutdown' = [shutdown EXCEPT ![w] = FALSE]
  /\ task'     = [task EXCEPT ![w] = NoTasks]

\* run() has returned and no task is left; the process ends.
Exit(w) ==
  /\ pc[w] \in {"drain", "cancel"}
  /\ Live(w) = {}
  /\ Reset(w)
  /\ UNCHANGED <<redisVars, req, budgetVars, historyVars>>

\* The process dies, at whatever await its coroutines are.
Crash(w) ==
  /\ pc[w] # "down"
  /\ Kill
  /\ ReadInFlight(w)
  /\ Reset(w)
  /\ UNCHANGED <<req, historyVars>>

-----------------------------------------------------------------------------

TaskStep(w, e) ==
  \/ Begin(w, e)
  \/ HandlerReturns(w, e)
  \/ HandlerFails(w, e)
  \/ Ack(w, e)
  \/ AckError(w, e)
  \/ Bury(w, e)
  \/ BuryError(w, e)
  \/ Finish(w, e)
  \/ CancelTask(w, e)

WorkerStep(w) ==
  \/ Start(w)
  \/ AdmissionSleep(w)
  \/ BeginRead(w)
  \/ ReadGroup(w)
  \/ ReadTimeout(w)
  \/ PollError(w)
  \/ Dispatch(w)
  \/ ClaimStale(w)
  \/ RequestShutdown(w)
  \/ LoopExit(w)
  \/ CancelRun(w)
  \/ DrainTimeout(w)
  \/ Exit(w)
  \/ Crash(w)

Next ==
  \/ ApiWarmup
  \/ \E j \in Jobs : CheckDepth(j) \/ Enqueue(j) \/ EnqueueError(j)
  \/ \E w \in Workers : WorkerStep(w)
  \/ \E w \in Workers, e \in Entries : TaskStep(w, e)

Spec == Init /\ [][Next]_vars

\* What the program's scheduling guarantees.  A supervisor restarts workers; an
\* event loop resumes what is ready; Redis answers; a handler ends, by
\* job_timeout at the latest; the recovery loop keeps claiming.  Nothing is
\* assumed of faults, crashes, shutdown requests or new API requests.
Progress(w, e) ==
  \/ Begin(w, e)
  \/ HandlerReturns(w, e)
  \/ HandlerFails(w, e)
  \/ Ack(w, e)
  \/ Bury(w, e)
  \/ Finish(w, e)

Fairness ==
  /\ \A w \in Workers :
       /\ WF_vars(Start(w))
       /\ WF_vars(BeginRead(w))
       /\ WF_vars(ReadGroup(w))
       /\ WF_vars(ReadTimeout(w))
       /\ WF_vars(Dispatch(w))
       /\ WF_vars(ClaimStale(w))
       /\ WF_vars(LoopExit(w))
       /\ WF_vars(DrainTimeout(w))
       /\ WF_vars(Exit(w))
  /\ \A w \in Workers, e \in Entries : WF_vars(Progress(w, e))

FairSpec == Spec /\ Fairness

-----------------------------------------------------------------------------
(* Safety *)

\* However workers crash, stop, lose replies and reclaim each other's leases, no
\* entry's handler is started twice: XREADGROUP ">" hands an entry out once and
\* RecoveryWorker._claim_stale gives what it claims to no executor.  README.md
\* promises the opposite after a success whose XACK is lost (RedeliveryContract).
HandlerAtMostOnce == \A e \in Entries : runs[e] <= 1

\* An entry that was delivered and is out of the pending list left it because
\* its handler returned, its job is in the DLQ, or MAXLEN evicted it
\* (Executor.execute and _handle_failure acknowledge last).
SettledOnlyAfterOutcome ==
  \A e \in 1 .. lastId :
    owner[e] = NoWorker =>
      e \in succeeded \/ DeadLettered(stream[e].job) \/ e <= trimmed

\* Every permit taken by run() is given back by exactly one _process_job,
\* whichever way the task ends.
SemaphoreConserved ==
  \A w \in Workers : sem[w] + Cardinality(Live(w)) = MaxConcurrency

\* While no Redis call fails and no process dies, an entry that was leased and
\* not started is still in some worker's hands: GracefulShutdown leaves behind
\* only entries whose handler was given its chance.
GracefulStopStrandsNothing ==
  faults + crashes = 0 =>
    \A e \in Pending : runs[e] = 0 =>
      \E w \in Workers : e \in batch[w] \/ At(w, e, "created")

\* run() never waits for what nobody will provide: the group it reads from is
\* there, a for loop that waits for a permit has a task that will release one,
\* and a worker that drains has no entry in hand that it did not give to a task.
WaitsAreServed ==
  \A w \in Workers :
    /\ pc[w] = "read" => group
    /\ pc[w] = "dispatch" => batch[w] # {} /\ (sem[w] = 0 => Live(w) # {})
    /\ pc[w] \in {"drain", "cancel"} => batch[w] = {}

\* The DLQ has one record per buried entry, except where a lost reply made the
\* client write it again, and no entry is both a success and a dead letter.
DlqFaithful ==
  /\ Len(dlq) <= Cardinality(buried) + faults
  /\ buried \cap succeeded = {}

\* The slack of MAXLEN over max_queue_depth covers the requests that pass the
\* depth check together: no XADD ever evicts an entry.
NothingEvicted == MaxInFlight + MaxFaults <= TrimSlack + 1 => trimmed = 0

\* The entries of a job, of which the handler is started once each.
EntriesOf(j) == {e \in Entries : e <= Len(stream) /\ stream[e].job = j}

\* A job whose POST was answered is in the stream, one whose POST was refused or
\* failed is not, and it is there once, except that every lost reply to the XADD
\* of Enqueuer.enqueue may have left one entry more.
AnswersMatchStream ==
  \A j \in Jobs :
    /\ req[j] = "accepted" => EntriesOf(j) # {}
    /\ Cardinality(EntriesOf(j)) <= faults + (IF req[j] = "accepted" THEN 1 ELSE 0)

\* The entry was delivered and is in nobody's hands: its task ended, however it
\* ended, or the worker or the reply that carried it was lost.
LetGo(e) == e <= lastId /\ \A w \in Workers : e \notin batch[w] \cup Live(w)

\* Nothing ever comes back to such an entry, pending or not: RecoveryWorker and
\* restarted workers take it up no more, so the handler is not started on it
\* again and no outcome is added.
LetGoIsFinal ==
  [][\A e \in Entries : LetGo(e) =>
       /\ LetGo(e)' /\ runs'[e] = runs[e]
       /\ e \in succeeded' => e \in succeeded
       /\ e \in buried' => e \in buried]_vars

\* Once AdmissionController blocks it blocks for good, however much is executed
\* and acknowledged: XLEN drops by trimming alone, and MAXLEN keeps as many
\* entries as it takes to block.
BlockedStaysBlocked ==
  [][AdmissionDepth <= MaxQueueDepth + TrimSlack /\ ~Admits => ~Admits']_vars

\* A handler is never started on an entry that has already left the pending
\* list, unless the entry itself was evicted.
StartsOnlyUnsettled ==
  [][\A e \in Entries : runs'[e] > runs[e] => e \in Pending \/ e <= trimmed]_vars

\* Every behaviour of the workers and the API is one the contract allows.
Contract == INSTANCE DeliveryContract WITH
  published <- Len(stream),
  evicted   <- trimmed,
  delivered <- lastId,
  leased    <- Pending,
  executed  <- {e \in Entries : runs[e] >= 1}

ImplementsContract == Contract!Spec

-----------------------------------------------------------------------------
(* The inductive invariant behind the safety properties *)

\* A worker only holds entries that the consumer group has delivered.
HeldIsDelivered == \A w \in Workers : \A e \in batch[w] \cup Live(w) : e <= lastId

\* An entry is in one place of one worker at most.
HeldOnce ==
  /\ \A w \in Workers : batch[w] \cap Live(w) = {}
  /\ \A v, w \in Workers :
       v # w => (batch[v] \cup Live(v)) \cap (batch[w] \cup Live(w)) = {}

\* Where a task stands agrees with what has happened to its entry.
StageAgrees ==
  \A w \in Workers, e \in Entries :
    /\ e \in batch[w] \/ At(w, e, "created") => runs[e] = 0 /\ (owner[e] # NoWorker \/ e <= trimmed)
    /\ task[w][e] \in {"handler", "ack", "dlq", "dlqack", "done"} => runs[e] = 1
    /\ At(w, e, "handler") => e \notin succeeded /\ e \notin buried
    /\ At(w, e, "ack") => e \in succeeded
    /\ At(w, e, "dlq") => e \notin succeeded
    /\ At(w, e, "dlqack") => e \in buried

\* What Redis says of an entry agrees with what has happened to it.
RecordAgrees ==
  \A e \in Entries :
    /\ runs[e] <= 1
    /\ runs[e] = 1 => e <= lastId
    /\ e \in succeeded \/ e \in buried => runs[e] = 1
    /\ ~(e \in succeeded /\ e \in buried)
    /\ e \in buried => DeadLettered(stream[e].job)
    /\ owner[e] # NoWorker => e <= lastId
    /\ e <= lastId /\ owner[e] = NoWorker => e \in succeeded \/ e \in buried \/ e <= trimmed

\* From being read to being settled, an entry has one holder, one execution and
\* one outcome, and Redis, the workers and the history agree on which.
LeaseInvariant == HeldIsDelivered /\ HeldOnce /\ StageAgrees /\ RecordAgrees

-----------------------------------------------------------------------------
(* Liveness, under Fairness *)

\* Unless a Redis call fails or a process dies, a job whose POST was answered
\* has its handler started, whatever workers are gracefully stopped and
\* restarted, or it was evicted.
EveryAcceptedJobRuns ==
  \A j \in Jobs :
    req[j] = "accepted" ~>
      \/ \E e \in 1 .. Len(stream) : stream[e].job = j /\ (runs[e] = 1 \/ e <= trimmed)
      \/ faults + crashes > 0

\* A worker that is asked to stop stops, even with a batch in hand and every
\* permit taken.
ShutdownCompletes == \A w \in Workers : shutdown[w] ~> pc[w] = "down"

\* A success is acknowledged, even when another worker has claimed the entry
\* meanwhile, unless something cut the task or its XACK short.
SuccessIsAcked ==
  \A e \in Entries :
    e \in succeeded ~> e \notin Pending \/ faults + crashes + stops > 0

-----------------------------------------------------------------------------
(* Claims of the documentation and the comments that the code does not meet *)

\* README.md, delivery contract: an entry leased by a worker that crashes before
\* the handler is redelivered to another worker by XAUTOCLAIM.
CrashedLeaseIsRedelivered ==
  \A e \in Entries :
    e \in Pending /\ runs[e] = 0 ~> runs[e] >= 1 \/ e <= trimmed

\* The handler of entry e ended without an outcome.
AttemptOver(e) ==
  /\ e \in Pending /\ runs[e] >= 1 /\ e \notin succeeded
  /\ \A w \in Workers : At(w, e, "none")

\* Executor._handle_failure: an entry left pending after a failed attempt is
\* redelivered by XAUTOCLAIM or the next xreadgroup.
FailedAttemptIsRetried ==
  \A e \in Entries : AttemptOver(e) ~> ~AttemptOver(e)

\* The handler of entry e returned, and the task ended before its XACK was served.
UnackedSuccess(e) ==
  /\ e \in Pending \cap succeeded
  /\ \A w \in Workers : At(w, e, "none")

\* README.md, delivery contract: after a success and a crash before the XACK the
\* job is redelivered and the handler runs again.
UnackedSuccessRunsAgain ==
  \A e \in Entries : UnackedSuccess(e) ~> runs[e] >= 2 \/ e <= trimmed

\* The at-least-once contract: whatever stage an attempt was lost at, the entry
\* is delivered and executed again.
RedeliveryContract ==
  /\ CrashedLeaseIsRedelivered
  /\ UnackedSuccessRunsAgain
  /\ FailedAttemptIsRetried

\* AdmissionController: polling pauses until the queue drains below max_depth.
AdmissionIsReleased == ~Admits ~> Admits
=============================================================================

------------------------------- MODULE Outbox -------------------------------
(***************************************************************************)
(* The transactional outbox: Enqueuer.enqueue and Executor.execute when    *)
(* they are given a SqliteStore, and the dead-letter replay endpoint,      *)
(* which goes through the same enqueue.                                     *)
(*                                                                         *)
(* Every process has one event loop.  From the reply to XLEN to the XADD   *)
(* enqueue never awaits, and the store blocks the whole process: while a   *)
(* request is at "begin", "insert" or "commit" nothing else runs in its    *)
(* process, but other processes do.                                         *)
(*                                                                         *)
(* Delivery is module Delivery reduced to what the outbox sees of it: each *)
(* entry is started once, by one process, and no entry is evicted.  Leasing *)
(* and starting an entry are one step.                                      *)
(***************************************************************************)
EXTENDS SqliteStore, Naturals, Sequences, FiniteSets

CONSTANTS
  Replays,        \* calls of the replay endpoint
  Target,         \* the job that such a call names
  Home,           \* the process that serves a request
  Executors,      \* the processes that run a worker
  EnqueuerStore,  \* is Enqueuer given the store?
  ExecutorStore,  \* is Executor given the store?
  MaxRetries,     \* Job.max_retries
  MaxQueueDepth,  \* Enqueuer(max_queue_depth)
  ScanLimit,      \* dead letters that read_dlq_entry looks at (200)
  MaxEntries,     \* bound: entries of the stream
  MaxFaults       \* bound: Redis writes that fail or lose their reply, and
                  \* processes that die (and are restarted)

\* A POST creates its job, so the job stands for the request.
Requests == Jobs \cup Replays

ASSUME OutboxAssumption ==
  /\ Jobs \cap Replays = {}
  /\ Target \in [Replays -> Jobs]
  /\ Home \in [Requests -> Procs]
  /\ Executors \subseteq Procs
  /\ EnqueuerStore \in BOOLEAN /\ ExecutorStore \in BOOLEAN
  /\ MaxRetries \in [Jobs -> Nat]
  /\ MaxQueueDepth \in Nat /\ ScanLimit \in Nat /\ MaxEntries \in Nat
  /\ MaxFaults \in Nat

VARIABLES
  req,        \* where each request is
  stream,     \* the job of every entry
  lastId,     \* entries delivered so far
  task,       \* where the execution of each entry is
  host,       \* the process that executes it
  acked,      \* entries that XACK has taken from the pending list
  dlq,        \* the dead letters, oldest first
  faults,     \* failed writes and crashes so far
  succeeded,  \* history: entries whose handler returned
  failed,     \* history: entries whose handler raised or timed out
  logged      \* history: entries for which Executor logged a failed XACK or DLQ
              \* write and went on

outcomes   == <<succeeded, failed>>
taskVars   == <<lastId, task, host, acked, dlq, outcomes, logged>>
vars       == <<storeVars, req, stream, taskVars, faults>>

Entries == 1 .. MaxEntries

\* "found": the replay has its dead letter; "begin", "insert", "commit": in
\* transaction(); "xadd": awaiting XADD.
Blocking == {"begin", "insert", "commit"}
Underway == Blocking \cup {"found", "xadd"}
\* Answers 201, 503, 404, 409 and 500, and none because the process died.
Ended == {"accepted", "full", "missing", "conflict", "error", "lost"}

Running == {"handler", "ack", "dlq", "dlqack"}

TypeOK ==
  /\ StoreTypeOK
  /\ req       \in [Requests -> {"new"} \cup Underway \cup Ended]
  /\ stream    \in Seq(Jobs) /\ Len(stream) <= MaxEntries
  /\ lastId    \in 0 .. Len(stream)
  /\ task      \in [Entries -> Running \cup {"none", "done", "lost"}]
  /\ host      \in [Entries -> Procs \cup {NoProc}]
  /\ dlq       \in Seq(Jobs)
  /\ faults    \in 0 .. MaxFaults
  /\ acked     \in SUBSET Entries /\ logged \in SUBSET Entries
  /\ succeeded \in SUBSET Entries /\ failed \in SUBSET Entries

Init ==
  /\ StoreInit
  /\ req       = [r \in Requests |-> "new"]
  /\ stream    = << >>
  /\ lastId    = 0
  /\ task      = [e \in Entries |-> "none"]
  /\ host      = [e \in Entries |-> NoProc]
  /\ dlq       = << >>
  /\ faults    = 0
  /\ acked = {} /\ logged = {}
  /\ succeeded = {} /\ failed = {}

\* The event loop of p is inside a call of the store.
Blocked(p) == \E r \in Requests : Home[r] = p /\ req[r] \in Blocking

Fault == faults < MaxFaults /\ faults' = faults + 1

-----------------------------------------------------------------------------
(* POST /jobs, POST .../replay and Enqueuer.enqueue *)

Goto(r, s) == req' = [req EXCEPT ![r] = s]

\* read_dlq_entry finds a dead letter of job j among the newest ones.
InReach(j) == \E i \in DOMAIN dlq : dlq[i] = j /\ i + ScanLimit > Len(dlq)

\* replay_dlq_job fetches its dead letter.  It then sets job.status to a plain
\* string, which has no .value.
Fetch(r) ==
  /\ r \in Replays /\ req[r] = "new"
  /\ ~Blocked(Home[r])
  /\ Goto(r, IF InReach(Target[r]) THEN "found" ELSE "missing")
  /\ UNCHANGED <<storeVars, stream, taskVars, faults>>

\* A replay passes no key, although its job may have one.
HasKey(r) == r \in Jobs /\ Key[r] # NoKey

\* The depth test and the idempotency lookup, when the reply to XLEN arrives:
\* the stream may have grown since Redis sent it.
Check(r) ==
  /\ req[r] = IF r \in Jobs THEN "new" ELSE "found"
  /\ ~Blocked(Home[r])
  /\ \E depth \in 0 .. Len(stream) :
       \/ /\ depth >= MaxQueueDepth
          /\ Goto(r, "full") /\ UNCHANGED storeVars
       \/ /\ depth < MaxQueueDepth /\ ~EnqueuerStore
          /\ Goto(r, "xadd") /\ UNCHANGED storeVars
       \/ /\ depth < MaxQueueDepth /\ EnqueuerStore
          /\ HasKey(r)
          /\ Select(Home[r])
          /\ Goto(r, IF FoundByKey(Home[r], r) THEN "conflict" ELSE "begin")
       \/ /\ depth < MaxQueueDepth /\ EnqueuerStore
          /\ ~HasKey(r)
          /\ Goto(r, "begin") /\ UNCHANGED storeVars
  /\ UNCHANGED <<stream, taskVars, faults>>

\* Fault variant: busy_timeout is not set, BEGIN waits for as long as it takes.
Begin_Waits(r) ==
  /\ req[r] = "begin"
  /\ \/ BeginImmediate(Home[r]) /\ Goto(r, "insert")
     \/ inTx[Home[r]] /\ Goto(r, "error") /\ UNCHANGED storeVars
  /\ UNCHANGED <<stream, taskVars, faults>>

Begin(r) ==
  /\ req[r] = "begin"
  /\ \/ BeginImmediate(Home[r]) /\ Goto(r, "insert")
     \/ BeginRaises(Home[r]) /\ Goto(r, "error") /\ UNCHANGED storeVars
  /\ UNCHANGED <<stream, taskVars, faults>>

\* insert_outbox raises IntegrityError, or AttributeError on the status of a
\* replayed job: transaction() rolls back.
InsertRaises(r) == ~(r \in Jobs /\ ~Violates(Home[r], r))

Insert(r) ==
  /\ req[r] = "insert"
  /\ \/ ~InsertRaises(r) /\ InsertOutbox(Home[r], r) /\ Goto(r, "commit")
     \/ InsertRaises(r) /\ Rollback(Home[r]) /\ Goto(r, "error")
  /\ UNCHANGED <<stream, taskVars, faults>>

\* Fault variant: the XADD is sent before the transaction commits.
CommitRow_AfterXadd(r) ==
  /\ req[r] = "commit"
  /\ Goto(r, "xadd")
  /\ UNCHANGED <<storeVars, stream, taskVars, faults>>

CommitRow(r) ==
  /\ req[r] = "commit"
  /\ Commit(Home[r])
  /\ Goto(r, "xadd")
  /\ UNCHANGED <<stream, taskVars, faults>>

Publish(r) ==
  /\ r \in Jobs
  /\ Len(stream) < MaxEntries
  /\ stream' = Append(stream, r)

\* XADD; without a store it is here that a replayed job cannot be serialised.
XAdd(r) ==
  /\ req[r] = "xadd"
  /\ ~Blocked(Home[r])
  /\ \/ Publish(r) /\ Goto(r, "accepted")
     \/ r \in Replays /\ Goto(r, "error") /\ UNCHANGED stream
  /\ UNCHANGED <<storeVars, taskVars, faults>>

\* The XADD fails or its reply is lost: the request fails, or the client
\* library sends the command again.
XAddError(r) ==
  /\ r \in Jobs /\ req[r] = "xadd"
  /\ Fault
  /\ Publish(r) \/ UNCHANGED stream
  /\ Goto(r, "error") \/ UNCHANGED req
  /\ UNCHANGED <<storeVars, taskVars>>

\* GET /jobs/{id}.
GetJob(p) ==
  /\ EnqueuerStore
  /\ ~Blocked(p)
  /\ Select(p)
  /\ UNCHANGED <<req, stream, taskVars, faults>>

-----------------------------------------------------------------------------
(* Executor.execute *)

\* update_status, if there is a store; an exception is logged and swallowed.
Track(p, j, s) == IF ExecutorStore THEN UpdateStatus(p, j, s) ELSE UNCHANGED storeVars

At(e, s) == task[e] = s /\ ~Blocked(host[e])
Step(e, s) == task' = [task EXCEPT ![e] = s]

\* The last step of an execution: record the outcome.
Finish(e, s) ==
  /\ Step(e, "done")
  /\ Track(host[e], stream[e], s)

Start(p) ==
  /\ p \in Executors /\ ~Blocked(p)
  /\ lastId < Len(stream)
  /\ lastId' = lastId + 1
  /\ Step(lastId', "handler")
  /\ host' = [host EXCEPT ![lastId'] = p]
  /\ Track(p, stream[lastId'], "processing")
  /\ UNCHANGED <<req, stream, acked, dlq, outcomes, logged, faults>>

\* Fault variant: the job is marked completed before its XACK.
HandlerReturns_MarksFirst(e) ==
  /\ At(e, "handler")
  /\ Step(e, "ack")
  /\ Track(host[e], stream[e], "completed")
  /\ succeeded' = succeeded \cup {e}
  /\ UNCHANGED <<req, stream, lastId, host, acked, dlq, failed, logged, faults>>

HandlerReturns(e) ==
  /\ At(e, "handler")
  /\ Step(e, "ack")
  /\ succeeded' = succeeded \cup {e}
  /\ UNCHANGED <<storeVars, req, stream, lastId, host, acked, dlq, failed, logged, faults>>

\* should_dlq(), with the attempt count of the entry, which is 0, plus one.
Exhausted(e) == 1 > MaxRetries[stream[e]]

HandlerFails(e) ==
  /\ At(e, "handler")
  /\ \/ Exhausted(e) /\ Step(e, "dlq") /\ UNCHANGED storeVars
     \/ ~Exhausted(e) /\ Finish(e, "failed")
  /\ failed' = failed \cup {e}
  /\ UNCHANGED <<req, stream, lastId, host, acked, dlq, succeeded, logged, faults>>

\* What the last step records: the XACK of a success, or the one after the DLQ
\* write, has returned.
Outcome(e) == IF task[e] = "ack" THEN "completed" ELSE "dead"

Ack(e) ==
  /\ At(e, "ack") \/ At(e, "dlqack")
  /\ acked' = acked \cup {e}
  /\ Finish(e, Outcome(e))
  /\ UNCHANGED <<req, stream, lastId, host, dlq, outcomes, logged, faults>>

\* A call of the executor raises: that is logged, and the outcome recorded all
\* the same, unless the client library sends the command again.
GoesOn(e) ==
  \/ Finish(e, Outcome(e)) /\ logged' = logged \cup {e}
  \/ UNCHANGED <<task, storeVars, logged>>

\* The XACK fails, or its reply is lost.
AckError(e) ==
  /\ At(e, "ack") \/ At(e, "dlqack")
  /\ Fault
  /\ acked' \in {acked, acked \cup {e}}
  /\ GoesOn(e)
  /\ UNCHANGED <<req, stream, lastId, host, dlq, outcomes>>

Bury(e) ==
  /\ At(e, "dlq")
  /\ dlq' = Append(dlq, stream[e])
  /\ Step(e, "dlqack")
  /\ UNCHANGED <<storeVars, req, stream, lastId, host, acked, outcomes, logged, faults>>

\* The DLQ write fails, or its reply is lost: no XACK follows.
BuryError(e) ==
  /\ At(e, "dlq")
  /\ Fault
  /\ dlq' \in {dlq, Append(dlq, stream[e])}
  /\ GoesOn(e)
  /\ UNCHANGED <<req, stream, lastId, host, acked, outcomes>>

-----------------------------------------------------------------------------

\* A process dies, with its requests, its executions and its connection.
Crash(p) ==
  /\ Fault
  /\ req'  = [r \in Requests |-> IF Home[r] = p /\ req[r] \in Underway THEN "lost" ELSE req[r]]
  /\ task' = [e \in Entries |-> IF host[e] = p /\ task[e] \in Running \cup {"done"}
                                THEN "lost" ELSE task[e]]
  /\ Disconnect(p)
  /\ UNCHANGED <<stream, lastId, host, acked, dlq, outcomes, logged>>

RequestStep(r) == Fetch(r) \/ Check(r) \/ Begin(r) \/ Insert(r) \/ CommitRow(r) \/ XAdd(r)

TaskStep(e) == HandlerReturns(e) \/ HandlerFails(e) \/ Ack(e) \/ Bury(e)
TaskError(e) == AckError(e) \/ BuryError(e)

Next ==
  \/ \E r \in Requests : RequestStep(r) \/ XAddError(r)
  \/ \E p \in Procs : Start(p) \/ GetJob(p) \/ Crash(p)
  \/ \E e \in Entries : TaskStep(e) \/ TaskError(e)

Spec == Init /\ [][Next]_vars

\* A process goes on with what it has begun: store calls return or raise within
\* busy_timeout, Redis answers, handlers end by job_timeout, workers poll.
\* Nothing is assumed of clients, faults and crashes.
Fairness ==
  /\ \A r \in Requests : WF_vars(req[r] # "new" /\ RequestStep(r))
  /\ \A e \in Entries : WF_vars(TaskStep(e))
  /\ WF_vars(\E p \in Procs : Start(p))

FairSpec == Spec /\ Fairness

-----------------------------------------------------------------------------
(* Safety *)

Published == {stream[e] : e \in 1 .. Len(stream)}

DeadLettered(j) == \E i \in DOMAIN dlq : dlq[i] = j

\* The statuses that update_status writes.
Tracked == {"processing", "completed", "failed", "dead"}

\* However requests of several processes with one idempotency key interleave,
\* crash or collide on the lock, at most one of their jobs reaches the stream:
\* find_by_idempotency_key alone does not see to that, the unique index does.
KeyUsedOnce ==
  EnqueuerStore =>
    \A i, j \in Published : Key[i] = Key[j] /\ Key[i] # NoKey => i = j

\* Only a connection that is in the middle of an insert, or one on which an
\* execution has run update_status, is in a transaction: whatever transaction()
\* raises, enqueue leaves none open and gives the write lock back.
EnqueueReleasesLock ==
  \A p \in Procs :
    inTx[p] =>
      \/ \E r \in Requests : Home[r] = p /\ req[r] \in {"insert", "commit"}
      \/ ExecutorStore /\ \E e \in Entries : host[e] = p /\ task[e] \in Running \cup {"done"}

\* What status s says of the execution of entry e: completed, that its success is
\* acknowledged; failed, that it is still pending, with retries left; dead, that it
\* has none, is in the DLQ and acknowledged.  The last call of the executor may
\* have failed instead, and the log says so.
Tells(e, s) ==
  /\ s = "completed" => e \in succeeded /\ (e \in acked \/ e \in logged)
  /\ s = "failed"    => e \in failed \ acked /\ ~Exhausted(e)
  /\ s = "dead"      => /\ e \in failed /\ Exhausted(e)
                        /\ (e \in acked /\ DeadLettered(stream[e])) \/ e \in logged

TrueStatus(j, s) == \E e \in 1 .. lastId : stream[e] = j /\ Tells(e, s)

\* GET /jobs/{id} reports status s of job j, in some process.
Reported(j, s) == db[j] = s \/ \E p \in Procs : Rows(p)[j] = s

\* No GET /jobs, in whatever process and inside whatever open transaction,
\* reports an outcome that the job did not have, or one that Redis does not show,
\* unless the call that should have made Redis show it failed and was logged.
StatusIsTrue == \A j \in Jobs, s \in Tracked : Reported(j, s) => TrueStatus(j, s)

\* The answer to a POST agrees with the stream and the committed table, although
\* find_by_idempotency_key may read an old snapshot or a transaction that will be
\* rolled back: 201 says that the job is published, and recorded if there is a
\* store; 503 and 409 that it is neither; 409 that another job has its key.
AnswersAreTrue ==
  \A j \in Jobs :
    /\ req[j] = "accepted" => j \in Published /\ (EnqueuerStore => db[j] # "absent")
    /\ req[j] \in {"full", "conflict"} => j \notin Published /\ db[j] = "absent"
    /\ req[j] = "conflict" => SameKey(db, j) # {}

\* With the store, every behaviour of the requests is one the contract allows.
Contract == INSTANCE OutboxContract WITH
  claimed   <- {j \in Jobs : db[j] # "absent"},
  published <- Published

ImplementsOutboxContract == Contract!Spec

-----------------------------------------------------------------------------
(* Liveness, under Fairness *)

\* A request that has been begun is answered, whoever holds the write lock and
\* for however long, or its process dies.
RequestsEnd == \A r \in Requests : req[r] \in Underway ~> req[r] \in Ended

-----------------------------------------------------------------------------
(* Claims of the documentation that the code does not meet *)

\* README.md, data flow: after a success the outbox is marked completed.
CompletedIsRecorded ==
  \A j \in Jobs : (\E e \in succeeded : stream[e] = j) ~> db[j] = "completed"

\* JobStatus: completed is "handler succeeded, acknowledged", dead is "exhausted all
\* retries, routed to DLQ".
StatusAsDocumented ==
  \A j \in Jobs :
    /\ Reported(j, "completed") => \E e \in acked : stream[e] = j
    /\ Reported(j, "dead") => DeadLettered(j)

\* replay_dlq_job: "re-enqueue it for processing".
ReplayReenqueues ==
  \A r \in Replays :
    req[r] = "found" ~>
      \/ req[r] \in {"full", "lost"}
      \/ Cardinality({e \in 1 .. Len(stream) : stream[e] = Target[r]}) > 1
=============================================================================

--------------------------- MODULE DeliveryProofs ---------------------------
(***************************************************************************)
(* Machine-checked proofs about module Delivery, for any sets of jobs and  *)
(* workers and any values of its bounds.                                    *)
(***************************************************************************)
EXTENDS Delivery, TLAPS

-----------------------------------------------------------------------------
(* The commands of RedisStream preserve its types *)

\* XADD appends one body; it never evicts more than the stream holds.
LEMMA XAddType ==
  ASSUME RedisTypeOK, NEW j \in Jobs, NEW n \in Nat, NEW m \in Nat, XAdd(j, n, m)
  PROVE  /\ RedisTypeOK'
         /\ Len(stream') = Len(stream) + 1
         /\ \A e \in 1 .. Len(stream) : stream'[e] = stream[e]
         /\ trimmed <= trimmed'
<1> USE RedisAssumption
<1>1. Serialise(j, n) \in Body
  BY DEF Serialise, Body
<1>2. /\ stream' \in Seq(Body)
      /\ Len(stream') = Len(stream) + 1
      /\ \A e \in 1 .. Len(stream) : stream'[e] = stream[e]
  BY <1>1 DEF XAdd, RedisTypeOK
<1>3. trimmed' \in 0 .. Len(stream') /\ trimmed <= trimmed'
  BY <1>2 DEF XAdd, RedisTypeOK
<1> QED
  BY <1>2, <1>3 DEF XAdd, RedisTypeOK

\* XREADGROUP moves the cursor forward inside the stream.
LEMMA XReadGroupType ==
  ASSUME RedisTypeOK, NEW w \in Workers, XReadGroup(w, PollBatch)
  PROVE  /\ RedisTypeOK'
         /\ lastId < lastId'
         /\ \A e \in Entries : e \in ReadBatch(PollBatch) => lastId < e /\ e <= lastId'
         /\ \A e \in Entries : lastId < e /\ e <= lastId' => e \in ReadBatch(PollBatch) \/ e <= trimmed
<1> USE RedisAssumption, DeliveryAssumption
<1>1. owner' \in [Entries -> Workers \cup {NoWorker}]
  BY DEF XReadGroup, RedisTypeOK
<1>2. PICK b \in Entries : b \in ReadBatch(PollBatch)
  BY DEF XReadGroup, ReadBatch
<1>3. /\ lastId' \in 0 .. Len(stream)
      /\ lastId < lastId'
      /\ \A e \in Entries : e \in ReadBatch(PollBatch) => lastId < e /\ e <= lastId'
      /\ \A e \in Entries : lastId < e /\ e <= lastId' => e \in ReadBatch(PollBatch) \/ e <= trimmed
  BY <1>2 DEF XReadGroup, ReadBatch, NextId, RedisTypeOK, Entries
<1> QED
  BY <1>1, <1>3 DEF XReadGroup, RedisTypeOK

LEMMA XAckType ==
  ASSUME RedisTypeOK, NEW e \in Entries, XAck(e)
  PROVE  RedisTypeOK'
BY DEF XAck, RedisTypeOK

LEMMA XAutoClaimType ==
  ASSUME RedisTypeOK, NEW w \in Workers, NEW S \in SUBSET Entries, XAutoClaim(w, S)
  PROVE  RedisTypeOK'
BY DEF XAutoClaim, RedisTypeOK

LEMMA XAddDlqType ==
  ASSUME RedisTypeOK, NEW j \in Jobs, NEW n \in Nat, XAddDlq(j, n)
  PROVE  /\ RedisTypeOK'
         /\ Len(dlq') = Len(dlq) + 1
         /\ \A i \in 1 .. Len(dlq) : dlq'[i] = dlq[i]
         /\ dlq'[Len(dlq')] = Serialise(j, n)
<1>1. Serialise(j, n) \in Body
  BY DEF Serialise, Body
<1> QED
  BY <1>1 DEF XAddDlq, RedisTypeOK

LEMMA EnsureGroupType ==
  ASSUME RedisTypeOK, EnsureGroup
  PROVE  RedisTypeOK'
BY DEF EnsureGroup, RedisTypeOK

LEMMA RedisUnchanged ==
  ASSUME RedisTypeOK, UNCHANGED redisVars
  PROVE  RedisTypeOK'
BY DEF redisVars, RedisTypeOK

-----------------------------------------------------------------------------
(* Type correctness *)

\* A delivered entry is one the stream has held, so it has a body.
LEMMA BodyType ==
  ASSUME RedisTypeOK, NEW e \in Entries, e <= Len(stream)
  PROVE  stream[e].job \in Jobs /\ stream[e].attempts \in Nat
<1>1. stream[e] \in Body
  BY RedisAssumption DEF RedisTypeOK, Entries
<1> QED
  BY <1>1 DEF Body

\* Whatever an unanswered XREADGROUP did, types are kept.
LEMMA ReadInFlightType ==
  ASSUME RedisTypeOK, NEW w \in Workers, ReadInFlight(w)
  PROVE  RedisTypeOK'
BY XReadGroupType, RedisUnchanged DEF ReadInFlight

\* HeldIsDelivered goes with the types: _handle_failure reads the body of its
\* entry, and only a delivered entry is known to have one.
LEMMA TypeInit == Init => TypeOK /\ HeldIsDelivered
<1> SUFFICES ASSUME Init PROVE TypeOK /\ HeldIsDelivered
  OBVIOUS
<1>1. RedisTypeOK
  <2>1. stream \in Seq(Body) /\ Len(stream) = 0 /\ dlq \in Seq(Body)
    BY DEF Init, RedisInit
  <2>2. owner \in [Entries -> Workers \cup {NoWorker}]
    BY DEF Init, RedisInit
  <2>3. group \in BOOLEAN /\ trimmed = 0 /\ lastId = 0
    BY DEF Init, RedisInit
  <2> QED
    BY <2>1, <2>2, <2>3, RedisAssumption DEF RedisTypeOK
<1>2. TypeOK
  BY <1>1, DeliveryAssumption
     DEF Init, TypeOK, NoTasks, ReqState, Loc, Looping, TaskState
<1>3. HeldIsDelivered
  BY DEF Init, HeldIsDelivered, Live, NoTasks
<1> QED
  BY <1>2, <1>3

\* The API's steps leave the workers alone.
LEMMA TypeApi ==
  ASSUME TypeOK, HeldIsDelivered,
         ApiWarmup \/ \E j \in Jobs : CheckDepth(j) \/ Enqueue(j) \/ EnqueueError(j)
  PROVE  TypeOK' /\ HeldIsDelivered'
<1> USE DeliveryAssumption, RedisAssumption DEF TypeOK, ReqState, workerVars, budgetVars, historyVars
<1>1. HeldIsDelivered'
  <2>1. UNCHANGED <<batch, task, lastId>>
    BY DEF ApiWarmup, CheckDepth, Enqueue, EnqueueError, EnsureGroup, Publish, XAdd, redisVars
  <2> QED
    BY <2>1 DEF HeldIsDelivered, Live
<1>2. CASE ApiWarmup
  BY <1>1, <1>2, EnsureGroupType DEF ApiWarmup
<1>3. ASSUME NEW j \in Jobs, CheckDepth(j) PROVE TypeOK'
  BY <1>3, RedisUnchanged DEF CheckDepth
<1>4. ASSUME NEW j \in Jobs, Publish(j) PROVE RedisTypeOK'
  BY <1>4, XAddType DEF Publish
<1>5. ASSUME NEW j \in Jobs, Enqueue(j) PROVE TypeOK'
  BY <1>4, <1>5 DEF Enqueue
<1>6. ASSUME NEW j \in Jobs, EnqueueError(j) PROVE TypeOK'
  BY <1>4, <1>6, RedisUnchanged DEF EnqueueError, Fault
<1> QED
  BY <1>1, <1>2, <1>3, <1>5, <1>6

\* Steps of run(), recovery and shutdown.
LEMMA TypeWorker ==
  ASSUME TypeOK, HeldIsDelivered, NEW w \in Workers, WorkerStep(w)
  PROVE  TypeOK' /\ HeldIsDelivered'
<1> USE DeliveryAssumption, RedisAssumption
    DEF TypeOK, TaskState, Loc, Looping, workerVars, budgetVars, historyVars
<1>a. HeldIsDelivered' <=> \A v \in Workers : \A e \in batch'[v] \cup {f \in Entries : task'[v][f] # "none"} : e <= lastId'
  BY DEF HeldIsDelivered, Live
<1>b. UNCHANGED <<batch, task, lastId>> => HeldIsDelivered'
  BY DEF HeldIsDelivered, Live
<1>c. lastId \in Nat /\ lastId' \in Nat => (lastId <= lastId' /\ UNCHANGED <<batch, task>> => HeldIsDelivered')
  BY DEF HeldIsDelivered, Live, Entries
<1>d. lastId \in Nat /\ \A v \in Workers : batch[v] \subseteq Entries
  BY DEF RedisTypeOK
<1>e. ReadInFlight(w) => lastId' \in Nat /\ lastId <= lastId'
  BY <1>d, XReadGroupType DEF ReadInFlight, redisVars, RedisTypeOK
<1>1. CASE Start(w)
  BY <1>1, <1>b, EnsureGroupType DEF Start, EnsureGroup
<1>2. CASE AdmissionSleep(w)
  BY <1>2, <1>b, RedisUnchanged DEF AdmissionSleep, vars, redisVars
<1>3. CASE BeginRead(w)
  BY <1>3, <1>b, RedisUnchanged DEF BeginRead, redisVars
<1>4. CASE ReadGroup(w)
  <2>1. RedisTypeOK' /\ lastId' \in Nat /\ lastId < lastId'
    BY <1>4, XReadGroupType DEF ReadGroup, RedisTypeOK
  <2>2. ReadBatch(PollBatch) \subseteq Entries
    BY DEF ReadBatch
  <2>3. TypeOK'
    BY <1>4, <2>1, <2>2 DEF ReadGroup
  <2>4. \A e \in ReadBatch(PollBatch) : e <= lastId'
    BY <1>4, <2>2, XReadGroupType DEF ReadGroup
  <2>5. HeldIsDelivered'
    BY <1>4, <1>d, <2>1, <2>4 DEF ReadGroup, HeldIsDelivered, Live, Entries
  <2> QED
    BY <2>3, <2>5
<1>5. CASE ReadTimeout(w)
  BY <1>5, <1>b, RedisUnchanged DEF ReadTimeout, redisVars
<1>6. CASE PollError(w)
  BY <1>6, <1>c, <1>d, <1>e, ReadInFlightType DEF PollError, Fault
<1>7. CASE Dispatch(w)
  <2>1. PICK e \in batch[w] :
          /\ task'  = [task EXCEPT ![w][e] = "created"]
          /\ batch' = [batch EXCEPT ![w] = @ \ {e}]
          /\ pc'    = [pc EXCEPT ![w] = IF batch[w] = {e} THEN "poll" ELSE "dispatch"]
    BY <1>7 DEF Dispatch
  <2>2. e \in Entries
    BY <1>d
  <2>3. TypeOK'
    BY <1>7, <2>1, <2>2, RedisUnchanged DEF Dispatch
  <2>4. lastId' = lastId
    BY <1>7 DEF Dispatch, redisVars
  <2>5. \A v \in Workers : batch'[v] \subseteq batch[v]
    BY <2>1
  <2>6. \A v \in Workers : \A f \in Entries : task'[v][f] # "none" => task[v][f] # "none" \/ (v = w /\ f = e)
    BY <2>1, <2>2
  <2>7. HeldIsDelivered'
    BY <2>2, <2>4, <2>5, <2>6 DEF HeldIsDelivered, Live
  <2> QED
    BY <2>3, <2>7
<1>8. CASE ClaimStale(w)
  <2>1. RedisTypeOK'
    BY <1>8, XAutoClaimType DEF ClaimStale, Pending
  <2> QED
    BY <1>8, <1>b, <2>1 DEF ClaimStale, XAutoClaim
<1>9. CASE RequestShutdown(w)
  BY <1>9, <1>b, RedisUnchanged DEF RequestShutdown, redisVars
<1>10. CASE LoopExit(w)
  BY <1>10, <1>b, RedisUnchanged DEF LoopExit, redisVars
<1>11. CASE CancelRun(w)
  <2>1. TypeOK'
    BY <1>11, ReadInFlightType DEF CancelRun, Kill
  <2>2. \A v \in Workers : batch'[v] \subseteq batch[v]
    BY <1>11 DEF CancelRun
  <2>3. HeldIsDelivered'
    BY <1>11, <1>d, <1>e, <2>2 DEF CancelRun, HeldIsDelivered, Live, Entries
  <2> QED
    BY <2>1, <2>3
<1>12. CASE DrainTimeout(w)
  BY <1>12, <1>b, RedisUnchanged DEF DrainTimeout, redisVars
<1>13. ASSUME Reset(w), lastId' \in Nat, lastId <= lastId' PROVE HeldIsDelivered'
  <2>1. \A v \in Workers : batch'[v] \subseteq batch[v]
    BY <1>13 DEF Reset
  <2>2. \A v \in Workers : \A f \in Entries : task'[v][f] # "none" => task[v][f] # "none"
    BY <1>13 DEF Reset, NoTasks
  <2> QED
    BY <1>13, <1>d, <2>1, <2>2 DEF HeldIsDelivered, Live, Entries
<1>14. CASE Exit(w)
  <2>1. TypeOK'
    BY <1>14, RedisUnchanged DEF Exit, Reset, NoTasks
  <2> QED
    BY <1>13, <1>14, <1>d, <2>1 DEF Exit, redisVars
<1>15. CASE Crash(w)
  <2>1. TypeOK'
    BY <1>15, ReadInFlightType DEF Crash, Reset, NoTasks, Kill
  <2> QED
    BY <1>13, <1>15, <1>e, <2>1 DEF Crash
<1> QED
  BY <1>1, <1>2, <1>3, <1>4, <1>5, <1>6, <1>7, <1>8, <1>9, <1>10, <1>11, <1>12, <1>14, <1>15
     DEF WorkerStep

\* A task step is taken by a live task, changes that task only, and reads
\* nothing from the stream.
LEMMA TaskLocal ==
  ASSUME TypeOK, NEW w \in Workers, NEW e \in Entries, TaskStep(w, e)
  PROVE  /\ e \in Live(w)
         /\ UNCHANGED <<req, pc, batch, shutdown, stream, trimmed, group, lastId>>
         /\ task' \in [Workers -> [Entries -> TaskState]]
         /\ \A v \in Workers, f \in Entries : v # w \/ f # e => task'[v][f] = task[v][f]
         /\ \A f \in Entries : f # e => owner'[f] = owner[f]
<1>1. e \in Live(w)
  BY DEF TaskStep, Begin, HandlerReturns, HandlerFails, Ack, AckError, Bury, BuryError,
         Finish, CancelTask, At, Live
<1>2. UNCHANGED <<req, pc, batch, shutdown>>
  BY DEF TaskStep, Begin, HandlerReturns, HandlerFails, Ack, AckError, Bury, BuryError,
         Finish, CancelTask
<1>3. /\ UNCHANGED <<stream, trimmed, group, lastId>>
      /\ \A f \in Entries : f # e => owner'[f] = owner[f]
  BY DEF TaskStep, Begin, HandlerReturns, HandlerFails, Ack, AckError, Bury, BuryError,
         Finish, CancelTask, redisVars, XAck, WriteDlq, XAddDlq, TypeOK, RedisTypeOK
<1>4. \E s \in TaskState : task' = [task EXCEPT ![w][e] = s]
  <2>1. TypeOK => task = [task EXCEPT ![w][e] = task[w][e]] /\ task[w][e] \in TaskState
    BY DEF TypeOK
  <2> QED
    BY <2>1 DEF TaskStep, Begin, HandlerReturns, HandlerFails, Ack, AckError, Bury, BuryError,
         Finish, CancelTask, Goto, End, TaskState
<1>5. /\ task' \in [Workers -> [Entries -> TaskState]]
      /\ \A v \in Workers, f \in Entries : v # w \/ f # e => task'[v][f] = task[v][f]
  BY <1>4 DEF TypeOK
<1> QED
  BY <1>1, <1>2, <1>3, <1>5

LEMMA TypeTask ==
  ASSUME TypeOK, HeldIsDelivered, NEW w \in Workers, NEW e \in Entries, TaskStep(w, e)
  PROVE  TypeOK' /\ HeldIsDelivered'
<1> USE DeliveryAssumption, RedisAssumption
<1>1. e <= lastId /\ e <= Len(stream)
  BY TaskLocal DEF HeldIsDelivered, TypeOK, RedisTypeOK, Entries
<1>2. stream[e].job \in Jobs /\ stream[e].attempts + 1 \in Nat
  BY <1>1, BodyType DEF TypeOK
<1>3. WriteDlq(e) => RedisTypeOK' /\ buried' \in SUBSET Entries
  BY <1>2, XAddDlqType DEF WriteDlq, TypeOK
<1>4. RedisTypeOK'
  BY <1>3, XAckType, RedisUnchanged
     DEF TypeOK, TaskStep, Begin, HandlerReturns, HandlerFails, Ack, AckError, Bury, BuryError,
         Finish, CancelTask, redisVars, WriteDlq
<1>5. sem' \in [Workers -> Nat] /\ runs' \in [Entries -> Nat]
  <2>1. End(w, e) => sem' \in [Workers -> Nat]
    BY DEF TypeOK, End
  <2>2. sem' \in [Workers -> Nat]
    BY <2>1 DEF TypeOK, TaskStep, Begin, HandlerReturns, HandlerFails, Ack, AckError, Bury,
                BuryError, Finish, CancelTask
  <2>3. Begin(w, e) => runs' \in [Entries -> Nat]
    BY DEF TypeOK, Begin
  <2>4. runs' \in [Entries -> Nat]
    BY <2>3 DEF TypeOK, TaskStep, HandlerReturns, HandlerFails, Ack, AckError, Bury,
                BuryError, Finish, CancelTask, historyVars
  <2> QED
    BY <2>2, <2>4
<1>6. succeeded' \in SUBSET Entries /\ buried' \in SUBSET Entries
  BY <1>3 DEF TypeOK, TaskStep, Begin, HandlerReturns, HandlerFails, Ack, AckError, Bury, BuryError,
         Finish, CancelTask, historyVars
<1>7. faults' \in Nat /\ crashes' \in Nat /\ stops' \in Nat
  BY DEF TypeOK, TaskStep, Begin, HandlerReturns, HandlerFails, Ack, AckError, Bury, BuryError,
         Finish, CancelTask, Fault, budgetVars
<1>8. TypeOK'
  BY <1>4, <1>5, <1>6, <1>7, TaskLocal DEF TypeOK
<1>9. HeldIsDelivered'
  BY TaskLocal DEF HeldIsDelivered, Live
<1> QED
  BY <1>8, <1>9

LEMMA TypeNext == TypeOK /\ HeldIsDelivered /\ [Next]_vars => TypeOK' /\ HeldIsDelivered'
<1> SUFFICES ASSUME TypeOK, HeldIsDelivered, [Next]_vars
             PROVE  TypeOK' /\ HeldIsDelivered'
  OBVIOUS
<1>1. CASE UNCHANGED vars
  BY <1>1 DEF vars, redisVars, workerVars, budgetVars, historyVars, TypeOK, RedisTypeOK,
              HeldIsDelivered, Live
<1>2. CASE Next
  BY <1>2, TypeApi, TypeWorker, TypeTask DEF Next
<1> QED
  BY <1>1, <1>2

\* Every reachable state of Delivery is well typed, and a worker only ever holds
\* entries that the consumer group has delivered.
THEOREM TypeCorrect == Spec => [](TypeOK /\ HeldIsDelivered)
<1> QED
  BY TypeInit, TypeNext, PTL DEF Spec
=============================================================================

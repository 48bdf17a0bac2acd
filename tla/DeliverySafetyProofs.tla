------------------------ MODULE DeliverySafetyProofs ------------------------
(***************************************************************************)
(* LeaseInvariant is inductive, and the safety properties follow from it.  *)
(*                                                                         *)
(* The argument: an entry enters a worker's batch only through XREADGROUP, *)
(* which hands out ids above the group's cursor and moves the cursor past  *)
(* them, so no other worker has it or will get it.  It goes from the batch *)
(* to one task, the task starts the handler once, and what the task does   *)
(* afterwards it does to its own entry.  XAUTOCLAIM changes owners, not    *)
(* holders.                                                                 *)
(***************************************************************************)
EXTENDS DeliveryProofs

Inv == TypeOK /\ LeaseInvariant

LEMMA InvInit == Init => Inv
<1> SUFFICES ASSUME Init PROVE LeaseInvariant
  BY TypeInit DEF Inv
<1>1. HeldIsDelivered
  BY TypeInit
<1>2. HeldOnce /\ StageAgrees
  BY DEF Init, HeldOnce, StageAgrees, Live, At, NoTasks
<1>3. RecordAgrees
  BY RedisAssumption DEF Init, RedisInit, RecordAgrees, Entries
<1> QED
  BY <1>1, <1>2, <1>3 DEF LeaseInvariant

\* No worker has more than before: batches shrink, tasks stay or end.
Shrinks ==
  /\ \A v \in Workers : batch'[v] \subseteq batch[v]
  /\ \A v \in Workers, e \in Entries : task'[v][e] = task[v][e] \/ task'[v][e] = "none"

\* Steps that give no entry to a worker and leave the owners, the cursor and the
\* history alone.  XADD is one of them: it adds a body at the end, and evicts
\* from the front.
LEMMA Frame ==
  ASSUME Inv, TypeOK', Shrinks,
         UNCHANGED <<owner, lastId, dlq, historyVars>>,
         trimmed <= trimmed',
         \A e \in 1 .. Len(stream) : stream'[e] = stream[e]
  PROVE  LeaseInvariant'
<1> USE DEF Inv, LeaseInvariant, historyVars
<1>0. trimmed \in Nat /\ trimmed' \in Nat /\ lastId \in Nat /\ lastId <= Len(stream)
  BY DEF TypeOK, RedisTypeOK
<1>1. HeldIsDelivered' /\ HeldOnce'
  BY DEF HeldIsDelivered, HeldOnce, Live, Shrinks
<1>2. StageAgrees'
  BY <1>0 DEF StageAgrees, At, Entries, Shrinks
<1>3. \A e \in Entries : e \in buried => DeadLettered(stream[e].job)'
  <2> SUFFICES ASSUME NEW e \in Entries, e \in buried PROVE DeadLettered(stream[e].job)'
    OBVIOUS
  <2>1. e <= lastId /\ DeadLettered(stream[e].job)
    BY DEF RecordAgrees
  <2>2. stream'[e] = stream[e]
    BY <1>0, <2>1 DEF Entries
  <2> QED
    BY <2>1, <2>2 DEF DeadLettered
<1>4. RecordAgrees'
  BY <1>0, <1>3 DEF RecordAgrees, Entries
<1> QED
  BY <1>1, <1>2, <1>4

\* XREADGROUP, whether its entries reach the caller or are lost with the reply:
\* what it hands out nobody holds and nobody has run.
LEMMA Reading ==
  ASSUME Inv, TypeOK', NEW w \in Workers, XReadGroup(w, PollBatch),
         UNCHANGED historyVars,
         \A v \in Workers : batch'[v] \subseteq batch[v] \cup (IF v = w THEN ReadBatch(PollBatch) ELSE {}),
         \A v \in Workers, e \in Entries : task'[v][e] = task[v][e] \/ task'[v][e] = "none"
  PROVE  LeaseInvariant'
<1> USE DEF Inv, LeaseInvariant, historyVars
<1> DEFINE RB == ReadBatch(PollBatch)
<1>0. /\ lastId \in Nat /\ lastId' \in Nat /\ lastId < lastId' /\ lastId' <= Len(stream)
      /\ trimmed \in Nat
      /\ UNCHANGED <<stream, trimmed, dlq>>
  BY XReadGroupType DEF TypeOK, RedisTypeOK, XReadGroup
<1>1. /\ RB \subseteq Entries
      /\ \A e \in RB : lastId < e /\ e <= lastId'
      /\ \A e \in Entries : lastId < e /\ e <= lastId' => e \in RB \/ e <= trimmed
  BY XReadGroupType DEF ReadBatch, TypeOK
<1>2. \A e \in Entries : owner'[e] = IF e \in RB THEN w ELSE owner[e]
  BY DEF XReadGroup
<1>3. w # NoWorker
  BY RedisAssumption
<1> HIDE DEF RB
<1>4. \A v \in Workers : batch[v] \subseteq Entries
  BY DEF TypeOK
<1>5. \A v \in Workers : batch'[v] \subseteq batch[v] \cup (IF v = w THEN RB ELSE {})
  BY DEF RB
<1>e. Entries \subseteq Nat
  BY DEF Entries
<1>6. HeldIsDelivered'
  <2> SUFFICES ASSUME NEW v \in Workers, NEW e \in (batch[v] \cup Live(v))' PROVE e <= lastId'
    BY DEF HeldIsDelivered
  <2>1. e \in batch[v] \cup Live(v) \/ e \in RB
    BY <1>5 DEF Live
  <2>2. e \in Entries
    BY <1>1, <1>4, <2>1 DEF Live
  <2> QED
    BY <1>0, <1>1, <1>e, <2>1, <2>2 DEF HeldIsDelivered
<1>7. \A v \in Workers : \A e \in batch[v] \cup Live(v) : e \notin RB
  BY <1>0, <1>1, <1>4 DEF HeldIsDelivered, Live, Entries
<1>8. HeldOnce'
  BY <1>5, <1>7 DEF HeldOnce, Live
<1>9. \A e \in RB : runs[e] = 0
  <2> SUFFICES ASSUME NEW e \in RB PROVE runs[e] = 0
    OBVIOUS
  <2>1. e \in Entries /\ e \in Nat /\ ~(e <= lastId)
    BY <1>0, <1>1, <1>e
  <2>2. runs[e] \in Nat /\ runs[e] <= 1 /\ runs[e] # 1
    BY <2>1 DEF RecordAgrees, TypeOK
  <2> QED
    BY <2>2
<1>10. StageAgrees'
  <2> SUFFICES ASSUME NEW v \in Workers, NEW e \in Entries
               PROVE  StageAgrees!(v, e)'
    BY DEF StageAgrees
  <2>1. e \in batch'[v] => e \in batch[v] \/ e \in RB
    BY <1>5
  <2> QED
    BY <1>0, <1>2, <1>3, <1>9, <2>1 DEF StageAgrees, At
<1>11. RecordAgrees'
  <2> SUFFICES ASSUME NEW e \in Entries PROVE RecordAgrees!(e)'
    BY DEF RecordAgrees
  <2>1. e \in Nat
    BY DEF Entries
  <2>2. DeadLettered(stream[e].job)' <=> DeadLettered(stream[e].job)
    BY <1>0 DEF DeadLettered
  <2> QED
    BY <1>0, <1>1, <1>2, <1>3, <2>1, <2>2 DEF RecordAgrees
<1> QED
  BY <1>6, <1>8, <1>10, <1>11

LEMMA InvApi ==
  ASSUME Inv, ApiWarmup \/ \E j \in Jobs : CheckDepth(j) \/ Enqueue(j) \/ EnqueueError(j)
  PROVE  LeaseInvariant'
<1>1. TypeOK'
  BY TypeApi DEF Inv, LeaseInvariant
<1>2. UNCHANGED <<batch, task, owner, lastId, dlq, historyVars>>
  BY DEF ApiWarmup, CheckDepth, Enqueue, EnqueueError, EnsureGroup, Publish, XAdd, redisVars, workerVars
<1> DEFINE Grows == trimmed <= trimmed' /\ \A e \in 1 .. Len(stream) : stream'[e] = stream[e]
<1>3. Grows
  <2>0. trimmed \in Nat
    BY DEF Inv, TypeOK, RedisTypeOK
  <2>1. CASE UNCHANGED <<stream, trimmed>>
    BY <2>0, <2>1
  <2>2. ASSUME NEW j \in Jobs, Publish(j) PROVE Grows
    <3>1. RedisTypeOK /\ MaxQueueDepth + TrimSlack \in Nat /\ 0 \in Nat
      BY DeliveryAssumption DEF Inv, TypeOK
    <3>2. XAdd(j, 0, MaxQueueDepth + TrimSlack)
      BY <2>2 DEF Publish
    <3> QED
      BY <3>1, <3>2, XAddType
  <2> QED
    BY <2>1, <2>2 DEF ApiWarmup, CheckDepth, Enqueue, EnqueueError, EnsureGroup, redisVars
<1>4. Shrinks
  BY <1>2 DEF Shrinks
<1> QED
  BY <1>1, <1>2, <1>3, <1>4, Frame

\* An XREADGROUP that is cut off either did nothing or is Reading.
LEMMA CutOff ==
  ASSUME Inv, TypeOK', NEW w \in Workers, ReadInFlight(w), UNCHANGED historyVars, Shrinks
  PROVE  LeaseInvariant'
<1>1. CASE UNCHANGED redisVars
  <2>1. trimmed \in Nat
    BY DEF Inv, TypeOK, RedisTypeOK
  <2> QED
    BY <1>1, <2>1, Frame DEF redisVars
<1>2. CASE XReadGroup(w, PollBatch)
  BY <1>2, Reading DEF Shrinks
<1> QED
  BY <1>1, <1>2 DEF ReadInFlight

LEMMA InvDispatch ==
  ASSUME Inv, TypeOK', NEW w \in Workers, Dispatch(w)
  PROVE  LeaseInvariant'
<1> USE DEF Inv, LeaseInvariant
<1>1. PICK e \in batch[w] :
        /\ task'  = [task EXCEPT ![w][e] = "created"]
        /\ batch' = [batch EXCEPT ![w] = @ \ {e}]
  BY DEF Dispatch
<1>2. e \in Entries
  BY DEF TypeOK
<1>3. UNCHANGED <<redisVars, historyVars>>
  BY DEF Dispatch
<1>4. /\ batch'[w] = batch[w] \ {e}
      /\ \A v \in Workers : v # w => batch'[v] = batch[v]
      /\ task'[w][e] = "created"
      /\ \A v \in Workers, f \in Entries : v # w \/ f # e => task'[v][f] = task[v][f]
  BY <1>1, <1>2 DEF TypeOK
<1>5. \A v \in Workers : (batch[v] \cup Live(v))' = batch[v] \cup Live(v)
  BY <1>1, <1>2, <1>4 DEF Live
<1>6. HeldIsDelivered'
  BY <1>3, <1>5 DEF HeldIsDelivered, redisVars
<1>7. HeldOnce'
  BY <1>1, <1>4, <1>5 DEF HeldOnce, Live
<1>8. StageAgrees'
  BY <1>1, <1>3, <1>4 DEF StageAgrees, At, redisVars, historyVars
<1>9. RecordAgrees'
  BY <1>3 DEF RecordAgrees, redisVars, historyVars, DeadLettered
<1> QED
  BY <1>6, <1>7, <1>8, <1>9

\* A claim changes owners, and drops the lease of evicted entries only.
LEMMA InvClaim ==
  ASSUME Inv, NEW w \in Workers, ClaimStale(w)
  PROVE  LeaseInvariant'
<1> USE DEF Inv, LeaseInvariant
<1>1. PICK S \in SUBSET Pending : XAutoClaim(w, S)
  BY DEF ClaimStale
<1>2. /\ UNCHANGED <<stream, trimmed, lastId, dlq, batch, task, historyVars>>
      /\ \A e \in Entries : \/ owner'[e] = owner[e]
                            \/ owner[e] # NoWorker /\ (owner'[e] = w \/ e <= trimmed)
  BY <1>1 DEF ClaimStale, XAutoClaim, workerVars, Pending
<1>3. w # NoWorker
  BY RedisAssumption
<1>4. HeldIsDelivered' /\ HeldOnce'
  BY <1>2 DEF HeldIsDelivered, HeldOnce, Live
<1>5. StageAgrees'
  BY <1>2, <1>3 DEF StageAgrees, At, historyVars
<1>6. RecordAgrees'
  BY <1>2, <1>3 DEF RecordAgrees, DeadLettered, historyVars
<1> QED
  BY <1>4, <1>5, <1>6

LEMMA InvWorker ==
  ASSUME Inv, NEW w \in Workers, WorkerStep(w)
  PROVE  LeaseInvariant'
<1>0. TypeOK'
  BY TypeWorker DEF Inv, LeaseInvariant
<1>1. trimmed \in Nat
  BY DEF Inv, TypeOK, RedisTypeOK
<1>2. ASSUME UNCHANGED <<stream, trimmed, owner, lastId, dlq, historyVars>>, Shrinks
      PROVE  LeaseInvariant'
  BY <1>0, <1>1, <1>2, Frame
<1>3. UNCHANGED <<batch, task>> => Shrinks
  BY DEF Shrinks
<1>4. Reset(w) => Shrinks
  BY DEF Shrinks, Reset, NoTasks, Inv, TypeOK
<1>5. CASE Start(w)
  BY <1>2, <1>3, <1>5 DEF Start, EnsureGroup
<1>6. CASE AdmissionSleep(w)
  BY <1>2, <1>3, <1>6 DEF AdmissionSleep, vars, redisVars, workerVars
<1>7. CASE BeginRead(w)
  BY <1>2, <1>3, <1>7 DEF BeginRead, redisVars
<1>8. CASE ReadGroup(w)
  <2>1. \A v \in Workers : batch'[v] \subseteq batch[v] \cup (IF v = w THEN ReadBatch(PollBatch) ELSE {})
    BY <1>8 DEF ReadGroup, Inv, TypeOK
  <2> QED
    BY <1>0, <1>8, <2>1, Reading DEF ReadGroup
<1>9. CASE ReadTimeout(w)
  BY <1>2, <1>3, <1>9 DEF ReadTimeout, redisVars
<1>10. CASE PollError(w)
  BY <1>0, <1>3, <1>10, CutOff DEF PollError
<1>11. CASE Dispatch(w)
  BY <1>0, <1>11, InvDispatch
<1>12. CASE ClaimStale(w)
  BY <1>12, InvClaim
<1>13. CASE RequestShutdown(w)
  BY <1>2, <1>3, <1>13 DEF RequestShutdown, redisVars
<1>14. CASE LoopExit(w)
  BY <1>2, <1>3, <1>14 DEF LoopExit, redisVars
<1>15. CASE CancelRun(w)
  <2>1. Shrinks
    BY <1>15 DEF CancelRun, Shrinks, Inv, TypeOK
  <2> QED
    BY <1>0, <1>15, <2>1, CutOff DEF CancelRun
<1>16. CASE DrainTimeout(w)
  BY <1>2, <1>3, <1>16 DEF DrainTimeout, redisVars
<1>17. CASE Exit(w)
  BY <1>2, <1>4, <1>17 DEF Exit, redisVars
<1>18. CASE Crash(w)
  BY <1>0, <1>4, <1>18, CutOff DEF Crash
<1> QED
  BY <1>5, <1>6, <1>7, <1>8, <1>9, <1>10, <1>11, <1>12, <1>13, <1>14, <1>15, <1>16, <1>17, <1>18
     DEF WorkerStep

\* A task step touches the history of its own entry only, and the DLQ grows.
LEMMA TaskHistory ==
  ASSUME Inv, NEW w \in Workers, NEW e \in Entries, TaskStep(w, e)
  PROVE  /\ \A f \in Entries : f # e => /\ runs'[f] = runs[f]
                                        /\ f \in succeeded' <=> f \in succeeded
                                        /\ f \in buried' <=> f \in buried
         /\ \A j : DeadLettered(j) => DeadLettered(j)'
<1>1. \A f \in Entries : f # e => runs'[f] = runs[f]
  BY DEF Inv, TypeOK, TaskStep, Begin, HandlerReturns, HandlerFails, Ack, AckError, Bury, BuryError,
         Finish, CancelTask, historyVars
<1>2. \A f \in Entries : f # e => (f \in succeeded' <=> f \in succeeded) /\ (f \in buried' <=> f \in buried)
  BY DEF TaskStep, Begin, HandlerReturns, HandlerFails, Ack, AckError, Bury, BuryError,
         Finish, CancelTask, historyVars, WriteDlq
<1>3. ASSUME WriteDlq(e), NEW j, DeadLettered(j) PROVE DeadLettered(j)'
  <2>1. e <= Len(stream)
    BY TaskLocal DEF Inv, LeaseInvariant, HeldIsDelivered, TypeOK, RedisTypeOK, Entries
  <2>2. /\ Len(dlq') = Len(dlq) + 1
        /\ \A i \in 1 .. Len(dlq) : dlq'[i] = dlq[i]
        /\ dlq' \in Seq(Body) /\ dlq \in Seq(Body)
    BY <1>3, <2>1, BodyType, XAddDlqType DEF WriteDlq, Inv, TypeOK, RedisTypeOK
  <2> QED
    BY <1>3, <2>2 DEF DeadLettered
<1>4. ASSUME NEW j, DeadLettered(j) PROVE DeadLettered(j)'
  <2>1. UNCHANGED dlq \/ WriteDlq(e)
    BY DEF TaskStep, Begin, HandlerReturns, HandlerFails, Ack, AckError, Bury, BuryError,
           Finish, CancelTask, redisVars, XAck
  <2> QED
    BY <1>3, <1>4, <2>1 DEF DeadLettered
<1> QED
  BY <1>1, <1>2, <1>4

\* So LeaseInvariant is to be checked for that entry in that worker alone.
LEMMA TaskFrame ==
  ASSUME Inv, NEW w \in Workers, NEW e \in Entries, TaskStep(w, e),
         StageAgrees!(w, e)', RecordAgrees!(e)'
  PROVE  LeaseInvariant'
<1> USE DEF Inv, LeaseInvariant
<1>0. TypeOK
  OBVIOUS
<1>1. \A v \in Workers : batch'[v] = batch[v] /\ (Live(v))' \subseteq Live(v)
  BY TaskLocal DEF Live
<1>2. HeldIsDelivered' /\ HeldOnce'
  BY <1>1, TaskLocal DEF HeldIsDelivered, HeldOnce
<1>3. StageAgrees'
  <2> SUFFICES ASSUME NEW v \in Workers, NEW f \in Entries PROVE StageAgrees!(v, f)'
    BY DEF StageAgrees
  <2>1. CASE v = w /\ f = e
    BY <2>1
  <2>2. CASE v # w /\ f = e
    <3>1. e \in Live(w) /\ e \notin batch'[v] /\ task'[v][e] = "none"
      BY <2>2, TaskLocal DEF HeldOnce, Live
    <3> QED
      BY <2>2, <3>1 DEF At
  <2>3. CASE f # e
    <3>1. /\ batch'[v] = batch[v] /\ task'[v][f] = task[v][f] /\ owner'[f] = owner[f]
          /\ trimmed' = trimmed
      BY <2>3, TaskLocal
    <3>2. /\ runs'[f] = runs[f]
          /\ f \in succeeded' <=> f \in succeeded
          /\ f \in buried' <=> f \in buried
      BY <2>3, TaskHistory
    <3> QED
      BY <3>1, <3>2 DEF StageAgrees, At
  <2> QED
    BY <2>1, <2>2, <2>3
<1>4. RecordAgrees'
  <2> SUFFICES ASSUME NEW f \in Entries, f # e PROVE RecordAgrees!(f)'
    BY DEF RecordAgrees
  <2>1. owner'[f] = owner[f] /\ UNCHANGED <<stream, trimmed, lastId>>
    BY TaskLocal
  <2>2. /\ runs'[f] = runs[f]
        /\ f \in succeeded' <=> f \in succeeded
        /\ f \in buried' <=> f \in buried
        /\ DeadLettered(stream[f].job) => DeadLettered(stream[f].job)'
    BY <2>1, TaskHistory
  <2> QED
    BY <2>1, <2>2 DEF RecordAgrees
<1> QED
  BY <1>2, <1>3, <1>4

\* After the write the DLQ has the job of the entry.
LEMMA WriteDlqRecords ==
  ASSUME Inv, NEW w \in Workers, NEW e \in Entries, TaskStep(w, e), WriteDlq(e)
  PROVE  DeadLettered(stream[e].job)' /\ e \in buried' /\ owner' = owner
<1>1. e <= Len(stream)
  BY TaskLocal DEF Inv, LeaseInvariant, HeldIsDelivered, TypeOK, RedisTypeOK, Entries
<1>2. /\ dlq'[Len(dlq')] = Serialise(stream[e].job, stream[e].attempts + 1)
      /\ Len(dlq') = Len(dlq) + 1
      /\ dlq' \in Seq(Body) /\ dlq \in Seq(Body)
  <2>1. RedisTypeOK
    BY DEF Inv, TypeOK
  <2>2. stream[e].job \in Jobs /\ stream[e].attempts + 1 \in Nat
    BY <1>1, <2>1, BodyType
  <2>3. XAddDlq(stream[e].job, stream[e].attempts + 1)
    BY DEF WriteDlq
  <2> QED
    BY <2>1, <2>2, <2>3, XAddDlqType DEF RedisTypeOK
<1>3. stream' = stream
  BY DEF WriteDlq, XAddDlq
<1>4. DeadLettered(stream[e].job)'
  BY <1>2, <1>3 DEF DeadLettered, Serialise
<1> QED
  BY <1>4 DEF WriteDlq, XAddDlq

LEMMA InvTask ==
  ASSUME Inv, NEW w \in Workers, NEW e \in Entries, TaskStep(w, e)
  PROVE  LeaseInvariant'
<1> DEFINE Local == StageAgrees!(w, e)' /\ RecordAgrees!(e)'
<1> SUFFICES Local
  BY TaskFrame
<1>0. /\ e \in Live(w) /\ e \notin batch'[w]
      /\ UNCHANGED <<stream, trimmed, lastId>>
      /\ e \in Nat /\ e <= lastId /\ runs[e] \in Nat
      /\ task[w][e] \in TaskState
  <2>1. TypeOK
    BY DEF Inv
  <2>2. e \in Live(w) /\ UNCHANGED <<batch, stream, trimmed, lastId>>
    BY <2>1, TaskLocal
  <2>3. e \notin batch[w] /\ e <= lastId
    BY <2>2 DEF Inv, LeaseInvariant, HeldOnce, HeldIsDelivered
  <2>4. e \in Nat
    BY DEF Entries
  <2>5. runs[e] \in Nat /\ task[w][e] \in TaskState
    BY <2>1 DEF TypeOK
  <2> QED
    BY <2>2, <2>3, <2>4, <2>5
<1>1. StageAgrees!(w, e) /\ RecordAgrees!(e)
  BY DEF Inv, LeaseInvariant, StageAgrees, RecordAgrees
<1>2. ASSUME NEW s, Goto(w, e, s) PROVE task'[w][e] = s
  BY <1>2 DEF Goto, Inv, TypeOK
<1>3. End(w, e) => task'[w][e] = "none"
  BY DEF End, Inv, TypeOK
<1>4. XAck(e) => owner'[e] = NoWorker /\ UNCHANGED dlq
  BY DEF XAck, Inv, TypeOK, RedisTypeOK
<1>5. UNCHANGED dlq => (DeadLettered(stream[e].job)' <=> DeadLettered(stream[e].job))
  BY <1>0 DEF DeadLettered
<1>6. CASE Begin(w, e)
  <2>1. task'[w][e] = "handler" /\ runs'[e] = runs[e] + 1 /\ UNCHANGED <<owner, dlq, succeeded, buried>>
    BY <1>2, <1>6 DEF Begin, redisVars, Inv, TypeOK
  <2>2. runs'[e] = 1 /\ runs[e] = 0
    BY <1>0, <1>1, <1>6, <2>1 DEF Begin, At
  <2> QED
    BY <1>0, <1>1, <1>5, <2>1, <2>2 DEF At
<1>7. CASE HandlerReturns(w, e)
  <2>1. task'[w][e] = "ack" /\ e \in succeeded' /\ UNCHANGED <<owner, dlq, runs, buried>> /\ task[w][e] = "handler"
    BY <1>2, <1>7 DEF HandlerReturns, redisVars, At
  <2> QED
    BY <1>0, <1>1, <1>5, <2>1 DEF At
<1>8. CASE HandlerFails(w, e)
  <2>1. task'[w][e] \in {"dlq", "none"} /\ UNCHANGED <<owner, dlq, runs, succeeded, buried>> /\ task[w][e] = "handler"
    BY <1>2, <1>3, <1>8 DEF HandlerFails, redisVars, historyVars, At
  <2> QED
    BY <1>0, <1>1, <1>5, <2>1 DEF At
<1>9. CASE Ack(w, e)
  <2>1. task'[w][e] = "done" /\ owner'[e] = NoWorker /\ UNCHANGED <<dlq, runs, succeeded, buried>> /\ task[w][e] \in {"ack", "dlqack"}
    BY <1>2, <1>4, <1>9 DEF Ack, historyVars
  <2> QED
    BY <1>0, <1>1, <1>5, <2>1 DEF At
<1>10. CASE AckError(w, e)
  <2>1. task'[w][e] = "done" /\ UNCHANGED <<owner, dlq, runs, succeeded, buried>> /\ task[w][e] \in {"ack", "dlqack"}
    BY <1>2, <1>10 DEF AckError, historyVars, redisVars
  <2> QED
    BY <1>0, <1>1, <1>5, <2>1 DEF At
<1>11. ASSUME WriteDlq(e), At(w, e, "dlq"), UNCHANGED <<runs, succeeded>>, task'[w][e] \in {"dlq", "dlqack", "done"}
       PROVE  Local
  <2>1. DeadLettered(stream[e].job)' /\ e \in buried' /\ owner' = owner
    BY <1>11, WriteDlqRecords
  <2> QED
    BY <1>0, <1>1, <1>11, <2>1 DEF At
<1>12. CASE Bury(w, e)
  BY <1>2, <1>11, <1>12 DEF Bury
<1>13. CASE BuryError(w, e)
  <2>1. task'[w][e] \in {"dlq", "done"} /\ UNCHANGED <<runs, succeeded>> /\ At(w, e, "dlq")
    BY <1>2, <1>13 DEF BuryError, At
  <2>2. CASE UNCHANGED <<redisVars, buried>>
    BY <1>0, <1>1, <1>5, <2>1, <2>2 DEF At, redisVars
  <2>3. CASE WriteDlq(e)
    BY <1>11, <2>1, <2>3
  <2> QED
    BY <1>13, <2>2, <2>3 DEF BuryError
<1>14. ASSUME End(w, e), UNCHANGED <<redisVars, historyVars>> PROVE Local
  BY <1>0, <1>1, <1>3, <1>5, <1>14 DEF At, redisVars, historyVars
<1>15. CASE Finish(w, e)
  BY <1>14, <1>15 DEF Finish
<1>16. CASE CancelTask(w, e)
  BY <1>14, <1>16 DEF CancelTask
<1> QED
  BY <1>6, <1>7, <1>8, <1>9, <1>10, <1>12, <1>13, <1>15, <1>16 DEF TaskStep

LEMMA InvNext == Inv /\ [Next]_vars => Inv'
<1> SUFFICES ASSUME Inv, [Next]_vars PROVE Inv'
  OBVIOUS
<1>1. TypeOK'
  BY TypeNext DEF Inv, LeaseInvariant
<1>2. CASE UNCHANGED vars
  <2>1. trimmed \in Nat /\ Shrinks
    BY <1>2 DEF Inv, TypeOK, RedisTypeOK, Shrinks, vars, workerVars
  <2> QED
    BY <1>1, <1>2, <2>1, Frame DEF Inv, vars, redisVars
<1>3. CASE Next
  BY <1>1, <1>3, InvApi, InvWorker, InvTask DEF Next, Inv
<1> QED
  BY <1>2, <1>3

\* LeaseInvariant holds in every reachable state.
THEOREM LeaseInvariantHolds == Spec => [](TypeOK /\ LeaseInvariant)
<1> QED
  BY InvInit, InvNext, PTL DEF Spec, Inv

\* No entry's handler is started twice, for any number of workers, whatever
\* fails and however often entries are claimed.
THEOREM AtMostOnce == Spec => []HandlerAtMostOnce
<1>1. Inv => HandlerAtMostOnce
  BY DEF Inv, LeaseInvariant, RecordAgrees, HandlerAtMostOnce
<1> QED
  BY <1>1, InvInit, InvNext, PTL DEF Spec

\* An entry leaves the pending list only with its outcome on record.
THEOREM SettledHasOutcome == Spec => []SettledOnlyAfterOutcome
<1>1. Inv => SettledOnlyAfterOutcome
  <2> SUFFICES ASSUME Inv, NEW e \in 1 .. lastId, owner[e] = NoWorker
               PROVE  e \in succeeded \/ DeadLettered(stream[e].job) \/ e <= trimmed
    BY DEF SettledOnlyAfterOutcome
  <2>1. e \in Entries /\ e <= lastId
    BY RedisAssumption DEF Inv, TypeOK, RedisTypeOK, Entries
  <2> QED
    BY <2>1 DEF Inv, LeaseInvariant, RecordAgrees
<1> QED
  BY <1>1, InvInit, InvNext, PTL DEF Spec

\* The only step that starts a handler is Begin, and only of an entry that is
\* still leased or was evicted.
LEMMA StartsStep ==
  ASSUME Inv, [Next]_vars, NEW e \in Entries, runs'[e] > runs[e]
  PROVE  e \in Pending \/ e <= trimmed
<1>0. runs[e] \in Nat /\ runs' # runs
  BY DEF Inv, TypeOK
<1>1. PICK w \in Workers, f \in Entries : TaskStep(w, f)
  BY <1>0 DEF Next, vars, historyVars, ApiWarmup, CheckDepth, Enqueue, EnqueueError, WorkerStep,
     Start, AdmissionSleep, BeginRead, ReadGroup, ReadTimeout, PollError, Dispatch, ClaimStale,
     RequestShutdown, LoopExit, CancelRun, DrainTimeout, Exit, Crash
<1>2. f = e
  BY <1>0, <1>1, TaskHistory
<1>3. Begin(w, e)
  BY <1>0, <1>1, <1>2 DEF TaskStep, HandlerReturns, HandlerFails, Ack, AckError, Bury, BuryError,
     Finish, CancelTask, historyVars
<1> QED
  BY <1>3 DEF Begin, Inv, LeaseInvariant, StageAgrees, Pending

\* A handler is never started on an entry that was already settled.
THEOREM StartsUnsettled == Spec => StartsOnlyUnsettled
<1>1. Inv /\ [Next]_vars =>
        [\A e \in Entries : runs'[e] > runs[e] => e \in Pending \/ e <= trimmed]_vars
  BY StartsStep
<1> QED
  BY <1>1, InvInit, InvNext, PTL DEF Spec, StartsOnlyUnsettled

-----------------------------------------------------------------------------
(* Nothing comes back to an entry that is in nobody's hands *)

\* A step of run(), recovery or shutdown gives a worker nothing it had not read
\* before, except entries that are delivered by that very step.
LEMMA WorkerTakes ==
  ASSUME Inv, NEW w \in Workers, WorkerStep(w)
  PROVE  /\ lastId \in Nat /\ lastId' \in Nat /\ lastId <= lastId'
         /\ UNCHANGED historyVars
         /\ \A v \in Workers, e \in Entries :
              e \in (batch[v] \cup Live(v))' => e \in batch[v] \cup Live(v) \/ e > lastId
<1> DEFINE Takes == \A v \in Workers, e \in Entries :
              e \in (batch[v] \cup Live(v))' => e \in batch[v] \cup Live(v) \/ e > lastId
<1>0. RedisTypeOK /\ lastId \in Nat /\ Entries \subseteq Nat
  BY DEF Inv, TypeOK, RedisTypeOK, Entries
<1>1. UNCHANGED historyVars
  BY DEF WorkerStep, Start, AdmissionSleep, BeginRead, ReadGroup, ReadTimeout, PollError, Dispatch,
         ClaimStale, RequestShutdown, LoopExit, CancelRun, DrainTimeout, Exit, Crash, vars
<1>2. XReadGroup(w, PollBatch) => lastId' \in Nat /\ lastId <= lastId'
  BY <1>0, XReadGroupType DEF RedisTypeOK
<1>3. UNCHANGED lastId \/ XReadGroup(w, PollBatch)
  BY DEF WorkerStep, Start, EnsureGroup, AdmissionSleep, BeginRead, ReadGroup, ReadTimeout, PollError,
         Dispatch, ClaimStale, XAutoClaim, RequestShutdown, LoopExit, CancelRun, DrainTimeout, Exit,
         Crash, ReadInFlight, vars, redisVars
<1>4. lastId' \in Nat /\ lastId <= lastId'
  BY <1>0, <1>2, <1>3
<1>5. ASSUME Shrinks PROVE Takes
  BY <1>5 DEF Shrinks, Live
<1>6. ASSUME ReadGroup(w) PROVE Takes
  <2>1. task' = task /\ XReadGroup(w, PollBatch) /\ batch' = [batch EXCEPT ![w] = ReadBatch(PollBatch)]
    BY <1>6 DEF ReadGroup
  <2>2. \A e \in Entries : e \in ReadBatch(PollBatch) => e > lastId
    BY <1>0, <2>1, XReadGroupType
  <2> QED
    BY <2>1, <2>2 DEF Live, Inv, TypeOK
<1>7. ASSUME Dispatch(w) PROVE Takes
  <2>1. PICK e \in batch[w] :
          /\ task'  = [task EXCEPT ![w][e] = "created"]
          /\ batch' = [batch EXCEPT ![w] = @ \ {e}]
    BY <1>7 DEF Dispatch
  <2> QED
    BY <2>1 DEF Live, Inv, TypeOK
<1>8. Shrinks \/ ReadGroup(w) \/ Dispatch(w)
  <2>1. UNCHANGED <<batch, task>> => Shrinks
    BY DEF Shrinks
  <2>2. Reset(w) => Shrinks
    BY DEF Shrinks, Reset, NoTasks, Inv, TypeOK
  <2>3. CancelRun(w) => Shrinks
    BY DEF CancelRun, Shrinks, Inv, TypeOK
  <2> QED
    BY <2>1, <2>2, <2>3 DEF WorkerStep, Start, AdmissionSleep, BeginRead, ReadTimeout, PollError,
       ClaimStale, RequestShutdown, LoopExit, DrainTimeout, Exit, Crash, vars, workerVars
<1> QED
  BY <1>0, <1>1, <1>4, <1>5, <1>6, <1>7, <1>8

LEMMA LetGoStep ==
  ASSUME Inv, [Next]_vars, NEW e \in Entries, LetGo(e)
  PROVE  /\ LetGo(e)' /\ runs'[e] = runs[e]
         /\ e \in succeeded' => e \in succeeded
         /\ e \in buried' => e \in buried
<1> DEFINE Sealed == /\ LetGo(e)' /\ runs'[e] = runs[e]
                     /\ e \in succeeded' => e \in succeeded
                     /\ e \in buried' => e \in buried
<1> SUFFICES Sealed
  OBVIOUS
<1> USE DEF LetGo
<1>1. CASE UNCHANGED <<lastId, batch, task, historyVars>>
  BY <1>1 DEF Live, historyVars
<1>2. ASSUME NEW w \in Workers, WorkerStep(w) PROVE Sealed
  <2>1. e \in Nat /\ ~(e > lastId)
    BY DEF Inv, TypeOK, RedisTypeOK, Entries
  <2> QED
    BY <1>2, <2>1, WorkerTakes DEF historyVars
<1>3. ASSUME NEW w \in Workers, NEW f \in Entries, TaskStep(w, f) PROVE Sealed
  <2>1. f \in Live(w) /\ UNCHANGED <<batch, lastId>> /\ f # e
    BY <1>3, TaskLocal DEF Inv
  <2>2. \A v \in Workers : task'[v][e] = task[v][e]
    BY <1>3, <2>1, TaskLocal DEF Inv
  <2> QED
    BY <1>3, <2>1, <2>2, TaskHistory DEF Live
<1>4. CASE ApiWarmup \/ \E j \in Jobs : CheckDepth(j) \/ Enqueue(j) \/ EnqueueError(j)
  BY <1>1, <1>4 DEF ApiWarmup, CheckDepth, Enqueue, EnqueueError, EnsureGroup, Publish, XAdd,
     redisVars, workerVars
<1>5. CASE UNCHANGED vars
  BY <1>1, <1>5 DEF vars, redisVars, workerVars
<1> HIDE DEF Sealed
<1> QED
  BY <1>2, <1>3, <1>4, <1>5 DEF Next

\* Whatever crashes, stops, fails or is claimed, an entry that was delivered and
\* is in nobody's hands is out of the system's reach: no step takes it up again.
THEOREM LetGoForGood == Spec => LetGoIsFinal
<1>1. Inv /\ [Next]_vars => LetGoIsFinal!1
  BY LetGoStep
<1> QED
  BY <1>1, InvInit, InvNext, PTL DEF Spec, LetGoIsFinal

\* Hence the fate of such an entry is sealed for the rest of the behaviour: if
\* its handler has not been started it never will be.
THEOREM NeverRedelivered ==
  ASSUME NEW e \in Entries
  PROVE  Spec => [](LetGo(e) /\ runs[e] = 0 => [](LetGo(e) /\ runs[e] = 0))
<1>1. Inv /\ [Next]_vars => ((LetGo(e) /\ runs[e] = 0) => (LetGo(e) /\ runs[e] = 0)')
  BY LetGoStep
<1> QED
  BY <1>1, InvInit, InvNext, PTL DEF Spec

\* A pending entry that was started and has no task is in nobody's hands.
LEMMA StartedIsLetGo ==
  ASSUME Inv, NEW e \in Entries, e \in Pending, runs[e] >= 1,
         \A w \in Workers : At(w, e, "none")
  PROVE  LetGo(e) /\ runs[e] = 1
<1>1. runs[e] = 1 /\ e <= lastId
  BY DEF Inv, TypeOK, LeaseInvariant, RecordAgrees, Pending
<1>2. \A w \in Workers : e \notin batch[w] /\ e \notin Live(w)
  BY <1>1 DEF Inv, LeaseInvariant, StageAgrees, At, Live
<1> QED
  BY <1>1, <1>2 DEF LetGo

\* And an attempt that ended without an outcome was the entry's last: the handler
\* is not started on it again and never succeeds.
THEOREM NeverRetried ==
  ASSUME NEW e \in Entries
  PROVE  Spec => [](AttemptOver(e) => [](runs[e] = 1 /\ e \notin succeeded))
<1> DEFINE Over == LetGo(e) /\ runs[e] = 1 /\ e \notin succeeded
<1>1. Inv /\ AttemptOver(e) => Over
  BY StartedIsLetGo DEF AttemptOver
<1>2. Inv /\ [Next]_vars /\ Over => Over'
  <2> SUFFICES ASSUME Inv, [Next]_vars, Over PROVE Over'
    OBVIOUS
  <2>1. e \notin succeeded'
    BY LetGoStep
  <2> QED
    BY <2>1, LetGoStep
<1>3. Over => runs[e] = 1 /\ e \notin succeeded
  OBVIOUS
<1> HIDE DEF Over
<1> QED
  BY <1>1, <1>2, <1>3, InvInit, InvNext, PTL DEF Spec

\* Nor does the handler run again after a success whose XACK was cut off, failed
\* or lost, with the entry left in the pending list.
THEOREM NeverRunAgain ==
  ASSUME NEW e \in Entries
  PROVE  Spec => [](UnackedSuccess(e) => [](runs[e] = 1))
<1> DEFINE Over == LetGo(e) /\ runs[e] = 1
<1>1. Inv /\ UnackedSuccess(e) => Over
  <2> SUFFICES ASSUME Inv, UnackedSuccess(e) PROVE Over
    OBVIOUS
  <2>1. runs[e] >= 1
    BY DEF UnackedSuccess, Inv, TypeOK, LeaseInvariant, RecordAgrees
  <2> QED
    BY <2>1, StartedIsLetGo DEF UnackedSuccess
<1>2. Inv /\ [Next]_vars /\ Over => Over'
  BY LetGoStep
<1>3. Over => runs[e] = 1
  OBVIOUS
<1> HIDE DEF Over
<1> QED
  BY <1>1, <1>2, <1>3, InvInit, InvNext, PTL DEF Spec
=============================================================================

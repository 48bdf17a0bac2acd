------------------------- MODULE DeliveryRefinement -------------------------
(***************************************************************************)
(* Delivery implements DeliveryContract: every step of the API, of a       *)
(* worker or of a task is a step of the contract or leaves it unchanged.   *)
(***************************************************************************)
EXTENDS DeliverySafetyProofs

Executed == {e \in Entries : runs[e] >= 1}

\* Two steps that agree on what the contract sees.
LEMMA Stutter ==
  ASSUME UNCHANGED <<stream, trimmed, lastId, owner, historyVars>>
  PROVE  UNCHANGED Contract!cvars
<1>1. UNCHANGED Pending
  BY DEF Pending
<1>2. UNCHANGED Executed
  BY DEF Executed, historyVars
<1> QED
  BY <1>1, <1>2 DEF Contract!cvars, historyVars, Executed

LEMMA InitRefines == Init => Contract!Init
<1> SUFFICES ASSUME Init PROVE Contract!Init
  OBVIOUS
<1>1. Len(stream) = 0 /\ trimmed = 0 /\ lastId = 0 /\ succeeded = {} /\ buried = {}
  BY DEF Init, RedisInit
<1>2. Pending = {}
  BY DEF Init, RedisInit, Pending
<1>3. {e \in Entries : runs[e] >= 1} = {}
  BY DEF Init
<1> QED
  BY <1>1, <1>2, <1>3 DEF Contract!Init

\* XADD is Publish.
LEMMA XAddRefines ==
  ASSUME Inv, NEW j \in Jobs, Publish(j), UNCHANGED historyVars
  PROVE  Contract!Publish
<1>1. RedisTypeOK /\ MaxQueueDepth + TrimSlack \in Nat /\ 0 \in Nat
  BY DeliveryAssumption DEF Inv, TypeOK
<1>2. XAdd(j, 0, MaxQueueDepth + TrimSlack)
  BY DEF Publish
<1>3. RedisTypeOK' /\ Len(stream') = Len(stream) + 1 /\ trimmed <= trimmed'
  BY <1>1, <1>2, XAddType
<1>4. trimmed' \in trimmed .. Len(stream')
  BY <1>1, <1>3 DEF RedisTypeOK
<1>5. UNCHANGED <<lastId, owner>>
  BY <1>2 DEF XAdd
<1>6. UNCHANGED Pending
  BY <1>5 DEF Pending
<1> QED
  BY <1>3, <1>4, <1>5, <1>6 DEF Contract!Publish, historyVars

\* XREADGROUP is Deliver, whoever gets to see the reply.
LEMMA XReadGroupRefines ==
  ASSUME Inv, NEW w \in Workers, XReadGroup(w, PollBatch), UNCHANGED historyVars
  PROVE  Contract!Deliver
<1> DEFINE RB == ReadBatch(PollBatch)
<1>1. RedisTypeOK /\ RedisTypeOK'
  BY XReadGroupType DEF Inv, TypeOK
<1>2. /\ lastId < lastId'
      /\ \A e \in Entries : e \in RB => lastId < e /\ e <= lastId'
      /\ \A e \in Entries : lastId < e /\ e <= lastId' => e \in RB \/ e <= trimmed
  BY <1>1, XReadGroupType
<1>3. /\ lastId \in Nat /\ lastId' \in Nat /\ trimmed \in Nat /\ Len(stream) \in Nat
      /\ lastId' <= Len(stream) /\ UNCHANGED <<stream, trimmed>>
      /\ Len(stream) <= MaxEntries
  BY <1>1 DEF RedisTypeOK, XReadGroup
<1>4. \A e \in RB : e > trimmed /\ e \in Entries
  BY <1>3 DEF ReadBatch, NextId, Entries
<1>5. PICK b : b \in RB
  BY DEF XReadGroup
<1>6. lastId' \in lastId + 1 .. Len(stream) /\ lastId' > trimmed
  BY <1>2, <1>3, <1>4, <1>5 DEF Entries
<1>7. RB = {e \in lastId + 1 .. lastId' : e > trimmed}
  <2> HIDE DEF RB
  <2>1. ASSUME NEW e \in RB PROVE e \in lastId + 1 .. lastId' /\ e > trimmed
    BY <1>2, <1>3, <1>4 DEF Entries
  <2>2. ASSUME NEW e \in lastId + 1 .. lastId', e > trimmed PROVE e \in RB
    <3>1. e \in Entries
      BY <1>3, RedisAssumption DEF Entries
    <3> QED
      BY <1>2, <1>3, <2>2, <3>1
  <2> QED
    BY <2>1, <2>2
<1>8. Pending' = Pending \cup RB
  <2>1. w # NoWorker /\ RB \subseteq Entries
    BY <1>4, RedisAssumption
  <2>2. \A e \in Entries : owner'[e] = IF e \in RB THEN w ELSE owner[e]
    BY DEF XReadGroup
  <2> HIDE DEF RB
  <2> QED
    BY <2>1, <2>2 DEF Pending
<1>9. UNCHANGED Executed
  BY DEF Executed, historyVars
<1> QED
  BY <1>3, <1>6, <1>7, <1>8, <1>9 DEF Contract!Deliver, historyVars, Executed

\* XAUTOCLAIM is Expire: it gives up the leases of evicted entries.
LEMMA ClaimRefines ==
  ASSUME Inv, NEW w \in Workers, ClaimStale(w)
  PROVE  Contract!Expire
<1>1. PICK S \in SUBSET Pending : XAutoClaim(w, S)
  BY DEF ClaimStale
<1> DEFINE D == {e \in S : e <= trimmed}
<1>2. D \in SUBSET {e \in Pending : e <= trimmed}
  OBVIOUS
<1>3. Pending' = Pending \ D
  BY <1>1, RedisAssumption DEF XAutoClaim, Pending
<1>4. UNCHANGED <<stream, trimmed, lastId, historyVars>>
  BY <1>1 DEF XAutoClaim, ClaimStale
<1>5. UNCHANGED Executed
  BY <1>4 DEF Executed, historyVars
<1> QED
  BY <1>2, <1>3, <1>4, <1>5 DEF Contract!Expire, historyVars, Executed

LEMMA ApiRefines ==
  ASSUME Inv, ApiWarmup \/ \E j \in Jobs : CheckDepth(j) \/ Enqueue(j) \/ EnqueueError(j)
  PROVE  [Contract!Next]_Contract!cvars
<1>1. UNCHANGED historyVars
  BY DEF ApiWarmup, CheckDepth, Enqueue, EnqueueError
<1>2. CASE \E j \in Jobs : Publish(j)
  BY <1>1, <1>2, XAddRefines DEF Contract!Next
<1>3. CASE UNCHANGED <<stream, trimmed, lastId, owner>>
  BY <1>1, <1>3, Stutter
<1> QED
  BY <1>2, <1>3 DEF ApiWarmup, CheckDepth, Enqueue, EnqueueError, EnsureGroup, redisVars

LEMMA WorkerRefines ==
  ASSUME Inv, NEW w \in Workers, WorkerStep(w)
  PROVE  [Contract!Next]_Contract!cvars
<1>1. CASE ClaimStale(w)
  BY <1>1, ClaimRefines DEF Contract!Next
<1>2. CASE ~ClaimStale(w)
  <2>1. UNCHANGED historyVars
    BY <1>2 DEF WorkerStep, Start, AdmissionSleep, BeginRead, ReadGroup, ReadTimeout, PollError,
       Dispatch, RequestShutdown, LoopExit, CancelRun, DrainTimeout, Exit, Crash, vars
  <2>2. XReadGroup(w, PollBatch) \/ UNCHANGED <<stream, trimmed, lastId, owner>>
    BY <1>2 DEF WorkerStep, Start, AdmissionSleep, BeginRead, ReadGroup, ReadTimeout, PollError,
       Dispatch, RequestShutdown, LoopExit, CancelRun, DrainTimeout, Exit, Crash, vars,
       ReadInFlight, EnsureGroup, redisVars
  <2> QED
    BY <2>1, <2>2, XReadGroupRefines, Stutter DEF Contract!Next
<1> QED
  BY <1>1, <1>2

LEMMA TaskRefines ==
  ASSUME Inv, NEW w \in Workers, NEW e \in Entries, TaskStep(w, e)
  PROVE  [Contract!Next]_Contract!cvars
<1>0. /\ TypeOK
      /\ e \in Live(w)
      /\ UNCHANGED <<stream, trimmed, lastId>>
      /\ StageAgrees!(w, e) /\ RecordAgrees!(e)
  BY TaskLocal DEF Inv, LeaseInvariant, StageAgrees, RecordAgrees
<1>1. e \in 1 .. lastId /\ e \in 1 .. Len(stream)
  <2>1. e <= lastId /\ lastId <= Len(stream) /\ lastId \in Nat /\ Len(stream) \in Nat /\ e \in Nat /\ 1 <= e
    BY <1>0 DEF Inv, LeaseInvariant, HeldIsDelivered, TypeOK, RedisTypeOK, Entries
  <2> QED
    BY <2>1
<1>2. UNCHANGED owner => UNCHANGED Pending
  BY DEF Pending
<1>3. UNCHANGED runs => UNCHANGED Executed
  BY DEF Executed
<1>4. runs[e] = 1 => e \in Executed
  BY DEF Executed
<1>5. CASE Begin(w, e)
  <2>1. runs[e] = 0 /\ (e \in Pending \/ e <= trimmed)
    BY <1>0, <1>5 DEF Begin, At, Pending
  <2>2. e \notin Executed
    BY <2>1 DEF Executed
  <2>3. Executed' = Executed \cup {e}
    BY <1>0, <1>5, <2>1 DEF Begin, Executed, TypeOK
  <2>4. Contract!Execute(e)
    BY <1>0, <1>1, <1>2, <1>5, <2>1, <2>2, <2>3 DEF Contract!Execute, Begin, redisVars, Executed
  <2> QED
    BY <1>1, <2>4 DEF Contract!Next
<1>6. CASE HandlerReturns(w, e)
  <2>1. Contract!Succeed(e)
    BY <1>0, <1>2, <1>3, <1>4, <1>6 DEF Contract!Succeed, HandlerReturns, redisVars, At, Executed
  <2> QED
    BY <1>1, <2>1 DEF Contract!Next
<1>7. ASSUME WriteDlq(e), At(w, e, "dlq"), UNCHANGED <<runs, succeeded>>
      PROVE  [Contract!Next]_Contract!cvars
  <2>1. UNCHANGED owner /\ buried' = buried \cup {e}
    BY <1>7 DEF WriteDlq, XAddDlq
  <2>2. CASE e \in buried
    BY <1>0, <1>7, <2>1, <2>2, Stutter DEF historyVars
  <2>3. CASE e \notin buried
    <3>1. Contract!Bury(e)
      BY <1>0, <1>2, <1>3, <1>4, <1>7, <2>1, <2>3 DEF Contract!Bury, At, Executed
    <3> QED
      BY <1>1, <3>1 DEF Contract!Next
  <2> QED
    BY <2>2, <2>3
<1>8. CASE Ack(w, e)
  <2>1. Pending' = Pending \ {e}
    BY <1>0, <1>8 DEF Ack, XAck, Pending, TypeOK, RedisTypeOK
  <2>2. UNCHANGED historyVars
    BY <1>8 DEF Ack
  <2>3. CASE e \in Pending
    <3>1. Contract!Settle(e)
      BY <1>0, <1>3, <1>8, <2>1, <2>2, <2>3 DEF Contract!Settle, Ack, At, historyVars, Executed
    <3> QED
      BY <1>1, <3>1 DEF Contract!Next
  <2>4. CASE e \notin Pending
    BY <1>0, <1>3, <2>1, <2>2, <2>4 DEF Contract!cvars, historyVars, Executed
  <2> QED
    BY <2>3, <2>4
<1>9. CASE Bury(w, e)
  BY <1>7, <1>9 DEF Bury
<1>10. CASE BuryError(w, e)
  <2>1. CASE WriteDlq(e)
    BY <1>7, <1>10, <2>1 DEF BuryError
  <2>2. CASE UNCHANGED <<redisVars, buried>>
    BY <1>10, <2>2, Stutter DEF BuryError, historyVars, redisVars
  <2> QED
    BY <1>10, <2>1, <2>2 DEF BuryError
<1>11. CASE HandlerFails(w, e) \/ AckError(w, e) \/ Finish(w, e) \/ CancelTask(w, e)
  BY <1>11, Stutter DEF HandlerFails, AckError, Finish, CancelTask, redisVars
<1> QED
  BY <1>5, <1>6, <1>8, <1>9, <1>10, <1>11 DEF TaskStep

LEMMA NextRefines == Inv /\ [Next]_vars => [Contract!Next]_Contract!cvars
<1> SUFFICES ASSUME Inv, [Next]_vars PROVE [Contract!Next]_Contract!cvars
  OBVIOUS
<1>1. CASE UNCHANGED vars
  BY <1>1, Stutter DEF vars, redisVars
<1>2. CASE Next
  BY <1>2, ApiRefines, WorkerRefines, TaskRefines DEF Next
<1> QED
  BY <1>1, <1>2

\* Every behaviour of the API, the workers and recovery over the Redis stream is
\* a behaviour of the delivery contract.
THEOREM Refinement == Spec => ImplementsContract
<1> QED
  BY InitRefines, NextRefines, InvInit, InvNext, PTL DEF Spec, ImplementsContract, Contract!Spec
=============================================================================

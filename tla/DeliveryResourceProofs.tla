----------------------- MODULE DeliveryResourceProofs -----------------------
(***************************************************************************)
(* What Delivery keeps count of: the permits of a worker's semaphore, the  *)
(* records in the dead-letter stream, the entries in the hands of workers  *)
(* that stop, and the room that MAXLEN leaves.                              *)
(***************************************************************************)
EXTENDS DeliverySafetyProofs, FiniteSetTheorems

LEMMA EntriesFinite == \A S \in SUBSET Entries : IsFiniteSet(S) /\ Cardinality(S) \in Nat
<1>1. IsFiniteSet(Entries)
  BY FS_Interval, RedisAssumption DEF Entries
<1> QED
  BY <1>1, FS_Subset, FS_CardinalityType

-----------------------------------------------------------------------------
(* Permits *)

\* A worker's permits stay right in a step that leaves its tasks alone, ...
LEMMA PermitsKept ==
  ASSUME SemaphoreConserved, NEW v \in Workers, sem'[v] = sem[v], (Live(v))' = Live(v)
  PROVE  SemaphoreConserved!(v)'
BY DEF SemaphoreConserved

\* ... in one that creates a task for a permit, ...
LEMMA PermitTaken ==
  ASSUME TypeOK, SemaphoreConserved, NEW v \in Workers, NEW e \in Entries, e \notin Live(v),
         sem[v] > 0, sem'[v] = sem[v] - 1, (Live(v))' = Live(v) \cup {e}
  PROVE  SemaphoreConserved!(v)'
<1>1. Live(v) \in SUBSET Entries
  BY DEF Live
<1>2. /\ Cardinality(Live(v)) \in Nat
      /\ Cardinality(Live(v) \cup {e}) = Cardinality(Live(v)) + 1
  BY <1>1, EntriesFinite, FS_AddElement
<1>3. sem[v] \in Nat /\ sem[v] + Cardinality(Live(v)) = MaxConcurrency
  BY DEF TypeOK, SemaphoreConserved
<1> QED
  BY <1>2, <1>3

\* ... and in one that ends a task and gives its permit back.
LEMMA PermitReleased ==
  ASSUME TypeOK, SemaphoreConserved, NEW v \in Workers, NEW e \in Live(v),
         sem'[v] = sem[v] + 1, (Live(v))' = Live(v) \ {e}
  PROVE  SemaphoreConserved!(v)'
<1>1. Live(v) \in SUBSET Entries
  BY DEF Live
<1>2. /\ Cardinality(Live(v)) \in Nat
      /\ Cardinality(Live(v) \ {e}) = Cardinality(Live(v)) - 1
  BY <1>1, EntriesFinite, FS_RemoveElement
<1>3. sem[v] \in Nat /\ sem[v] + Cardinality(Live(v)) = MaxConcurrency
  BY DEF TypeOK, SemaphoreConserved
<1> QED
  BY <1>2, <1>3

LEMMA SemInit == Init => SemaphoreConserved
<1> SUFFICES ASSUME Init, NEW v \in Workers PROVE SemaphoreConserved!(v)
  BY DEF SemaphoreConserved
<1>1. Live(v) = {} /\ sem[v] = MaxConcurrency
  BY DEF Init, Live, NoTasks
<1>2. Cardinality(Live(v)) = 0
  BY <1>1, FS_EmptySet
<1> QED
  BY <1>1, <1>2, DeliveryAssumption

LEMMA SemTask ==
  ASSUME Inv, SemaphoreConserved, NEW w \in Workers, NEW e \in Entries, TaskStep(w, e)
  PROVE  SemaphoreConserved'
<1> SUFFICES ASSUME NEW v \in Workers PROVE SemaphoreConserved!(v)'
  BY DEF SemaphoreConserved
<1>0. TypeOK /\ e \in Live(w) /\ \A u \in Workers, f \in Entries : u # w \/ f # e => task'[u][f] = task[u][f]
  BY TaskLocal DEF Inv
<1>1. CASE End(w, e)
  <2>1. task'[w][e] = "none" /\ sem'[w] = sem[w] + 1 /\ \A u \in Workers : u # w => sem'[u] = sem[u]
    BY <1>0, <1>1 DEF End, TypeOK
  <2>2. v = w => (Live(v))' = Live(v) \ {e}
    BY <1>0, <2>1 DEF Live
  <2>3. v # w => (Live(v))' = Live(v)
    BY <1>0 DEF Live
  <2> QED
    BY <1>0, <2>1, <2>2, <2>3, PermitsKept, PermitReleased
<1>2. CASE UNCHANGED sem /\ task'[w][e] # "none"
  <2>1. (Live(v))' = Live(v)
    BY <1>0, <1>2 DEF Live
  <2> QED
    BY <1>2, <2>1, PermitsKept
<1>3. ASSUME NEW s, Goto(w, e, s) PROVE task'[w][e] = s
  BY <1>0, <1>3 DEF Goto, TypeOK
<1>4. End(w, e) \/ (UNCHANGED sem /\ task'[w][e] # "none")
  BY <1>0, <1>3 DEF TaskStep, Begin, HandlerReturns, HandlerFails, Ack, AckError, Bury, BuryError,
                    Finish, CancelTask, At
<1> QED
  BY <1>1, <1>2, <1>4

LEMMA SemWorker ==
  ASSUME Inv, SemaphoreConserved, NEW w \in Workers, WorkerStep(w)
  PROVE  SemaphoreConserved'
<1> SUFFICES ASSUME NEW v \in Workers PROVE SemaphoreConserved!(v)'
  BY DEF SemaphoreConserved
<1>0. TypeOK
  BY DEF Inv
<1>1. CASE UNCHANGED <<sem, task>>
  BY <1>1, PermitsKept DEF Live
<1>2. CASE Reset(w)
  <2>1. v # w => sem'[v] = sem[v] /\ (Live(v))' = Live(v)
    BY <1>0, <1>2 DEF Reset, Live, TypeOK
  <2>2. v = w => sem'[v] = MaxConcurrency /\ (Live(v))' = {}
    BY <1>0, <1>2 DEF Reset, Live, NoTasks, TypeOK
  <2>3. v = w => sem'[v] + Cardinality((Live(v))') = MaxConcurrency
    BY <2>2, FS_EmptySet, DeliveryAssumption
  <2> QED
    BY <2>1, <2>3, PermitsKept
<1>3. CASE Dispatch(w)
  <2>1. PICK e \in batch[w] : task' = [task EXCEPT ![w][e] = "created"]
    BY <1>3 DEF Dispatch
  <2>2. e \in Entries /\ e \notin Live(w)
    BY <1>0 DEF Inv, LeaseInvariant, HeldOnce, TypeOK
  <2>3. sem[w] > 0 /\ sem' = [sem EXCEPT ![w] = @ - 1]
    BY <1>3 DEF Dispatch
  <2>4. v = w => (Live(v))' = Live(v) \cup {e} /\ sem'[v] = sem[v] - 1
    BY <1>0, <2>1, <2>2, <2>3 DEF Live, TypeOK
  <2>5. v # w => (Live(v))' = Live(v) /\ sem'[v] = sem[v]
    BY <1>0, <2>1, <2>2, <2>3 DEF Live, TypeOK
  <2> QED
    BY <1>0, <2>2, <2>3, <2>4, <2>5, PermitsKept, PermitTaken
<1>4. UNCHANGED <<sem, task>> \/ Reset(w) \/ Dispatch(w)
  BY DEF WorkerStep, Start, AdmissionSleep, BeginRead, ReadGroup, ReadTimeout, PollError, ClaimStale,
         RequestShutdown, LoopExit, CancelRun, DrainTimeout, Exit, Crash, vars, workerVars
<1> QED
  BY <1>1, <1>2, <1>3, <1>4

\* Every permit is given back by exactly one task, for any number of permits,
\* workers and entries and whichever way tasks end.
THEOREM PermitsConserved == Spec => []SemaphoreConserved
<1>1. Inv /\ SemaphoreConserved /\ [Next]_vars => SemaphoreConserved'
  <2> SUFFICES ASSUME Inv, SemaphoreConserved, [Next]_vars PROVE SemaphoreConserved'
    OBVIOUS
  <2>1. CASE UNCHANGED <<sem, task>>
    BY <2>1 DEF SemaphoreConserved, Live
  <2>2. CASE Next
    BY <2>1, <2>2, SemWorker, SemTask
       DEF Next, ApiWarmup, CheckDepth, Enqueue, EnqueueError, workerVars
  <2> QED
    BY <2>1, <2>2 DEF vars, workerVars
<1> QED
  BY <1>1, SemInit, InvInit, InvNext, PTL DEF Spec

-----------------------------------------------------------------------------
(* Stopping *)

\* A batch is in hand only inside the for loop, and when drain() cancels tasks
\* all of them have started.
StoppingAgrees ==
  /\ \A w \in Workers : batch[w] # {} => pc[w] = "dispatch"
  /\ \A w \in Workers, e \in Entries : pc[w] = "cancel" => ~At(w, e, "created")

StopInv == StoppingAgrees /\ GracefulStopStrandsNothing

\* Entry e is with a worker that has not started it.
InHand(e) == \E w \in Workers : e \in batch[w] \/ At(w, e, "created")

LEMMA StopTask ==
  ASSUME Inv, StopInv, NEW w \in Workers, NEW e \in Entries, TaskStep(w, e)
  PROVE  StopInv'
<1>0. /\ TypeOK /\ UNCHANGED <<pc, batch>> /\ e \in Live(w)
      /\ \A u \in Workers, f \in Entries : u # w \/ f # e => task'[u][f] = task[u][f]
      /\ \A f \in Entries : f # e => owner'[f] = owner[f] /\ runs'[f] = runs[f]
  BY TaskLocal, TaskHistory DEF Inv
<1>1. task'[w][e] # "created"
  BY <1>0 DEF TaskStep, Begin, HandlerReturns, HandlerFails, Ack, AckError, Bury, BuryError,
              Finish, CancelTask, At, Goto, End, TypeOK
<1>2. StoppingAgrees'
  BY <1>0, <1>1 DEF StopInv, StoppingAgrees, At
<1>3. runs'[e] # 0
  <2>1. runs[e] \in Nat /\ task[w][e] \in TaskState /\ task[w][e] # "none"
    BY <1>0 DEF TypeOK, Live
  <2>2. CASE Begin(w, e)
    BY <1>0, <2>1, <2>2 DEF Begin, TypeOK
  <2>3. CASE task[w][e] # "created" /\ UNCHANGED runs
    BY <2>1, <2>3 DEF Inv, LeaseInvariant, StageAgrees, TaskState
  <2>4. Begin(w, e) \/ (task[w][e] # "created" /\ UNCHANGED runs)
    BY DEF TaskStep, HandlerReturns, HandlerFails, Ack, AckError, Bury, BuryError,
           Finish, CancelTask, At, historyVars, StopInv, StoppingAgrees
  <2> QED
    BY <2>2, <2>3, <2>4
<1>4. faults \in Nat /\ crashes = crashes' /\ (faults' = faults \/ faults' = faults + 1)
  BY <1>0 DEF TaskStep, Begin, HandlerReturns, HandlerFails, Ack, AckError, Bury, BuryError,
              Finish, CancelTask, Fault, budgetVars, TypeOK
<1>5. GracefulStopStrandsNothing'
  <2> SUFFICES ASSUME (faults + crashes)' = 0, NEW f \in Pending', runs'[f] = 0
               PROVE  InHand(f)'
    BY DEF GracefulStopStrandsNothing, InHand
  <2>1. faults + crashes = 0
    BY <1>0, <1>4 DEF TypeOK
  <2>2. f \in Entries /\ f # e
    BY <1>3 DEF Pending
  <2>3. f \in Pending /\ runs[f] = 0
    BY <1>0, <2>2 DEF Pending
  <2>4. InHand(f)
    BY <2>1, <2>3 DEF StopInv, GracefulStopStrandsNothing, InHand
  <2> QED
    BY <1>0, <2>2, <2>4 DEF InHand, At
<1> QED
  BY <1>2, <1>5 DEF StopInv

\* Steps that take nothing out of a worker's hands and lease nothing.
LEMMA StopFrame ==
  ASSUME Inv, StopInv, StoppingAgrees', UNCHANGED <<faults, crashes, runs>>,
         \A e \in Entries : owner'[e] # NoWorker => owner[e] # NoWorker,
         \A e \in Entries : InHand(e) => InHand(e)'
  PROVE  StopInv'
BY DEF StopInv, GracefulStopStrandsNothing, Pending, InHand

\* Once a Redis call has failed or a process has died, nothing is promised.
LEMMA StopFault ==
  ASSUME TypeOK, StoppingAgrees', faults' + crashes' = faults + crashes + 1
  PROVE  StopInv'
<1>1. faults' + crashes' # 0
  BY DEF TypeOK
<1> QED
  BY <1>1 DEF StopInv, GracefulStopStrandsNothing

LEMMA StopWorker ==
  ASSUME Inv, StopInv, NEW w \in Workers, WorkerStep(w)
  PROVE  StopInv'
<1> USE DEF StoppingAgrees
<1>0. TypeOK /\ StoppingAgrees /\ \A v \in Workers : batch[v] \subseteq Entries
  BY DEF Inv, StopInv, TypeOK
<1>1. UNCHANGED <<batch, task>> => \A e \in Entries : InHand(e) => InHand(e)'
  BY DEF InHand, At
<1>2. Fault \/ Kill => faults' + crashes' = faults + crashes + 1
  BY <1>0 DEF Fault, Kill, TypeOK
<1>3. CASE Start(w)
  <2>1. StoppingAgrees'
    BY <1>0, <1>3 DEF Start, At, TypeOK
  <2> QED
    BY <1>1, <1>3, <2>1, StopFrame DEF Start, EnsureGroup, budgetVars, historyVars
<1>4. CASE AdmissionSleep(w)
  <2>1. StoppingAgrees'
    BY <1>0, <1>4 DEF AdmissionSleep, vars, workerVars, At
  <2> QED
    BY <1>1, <1>4, <2>1, StopFrame DEF AdmissionSleep, vars, redisVars, workerVars, budgetVars, historyVars
<1>5. CASE BeginRead(w)
  <2>1. StoppingAgrees'
    BY <1>0, <1>5 DEF BeginRead, At, TypeOK
  <2> QED
    BY <1>1, <1>5, <2>1, StopFrame DEF BeginRead, redisVars, budgetVars, historyVars
<1>6. CASE ReadGroup(w)
  <2>1. /\ batch[w] = {} /\ batch'[w] = ReadBatch(PollBatch) /\ pc'[w] = "dispatch"
        /\ \A v \in Workers : v # w => batch'[v] = batch[v] /\ pc'[v] = pc[v]
        /\ UNCHANGED <<task, runs, faults, crashes>>
    BY <1>0, <1>6 DEF ReadGroup, TypeOK, budgetVars, historyVars
  <2>2. StoppingAgrees'
    BY <1>0, <2>1 DEF At
  <2>3. \A e \in Entries : owner'[e] = IF e \in ReadBatch(PollBatch) THEN w ELSE owner[e]
    BY <1>6 DEF ReadGroup, XReadGroup
  <2>4. \A e \in Entries : InHand(e) \/ e \in ReadBatch(PollBatch) => InHand(e)'
    BY <2>1 DEF InHand, At
  <2>5. GracefulStopStrandsNothing'
    BY <2>1, <2>3, <2>4 DEF StopInv, GracefulStopStrandsNothing, Pending, InHand
  <2> QED
    BY <2>2, <2>5 DEF StopInv
<1>7. CASE ReadTimeout(w)
  <2>1. StoppingAgrees'
    BY <1>0, <1>7 DEF ReadTimeout, At, TypeOK
  <2> QED
    BY <1>1, <1>7, <2>1, StopFrame DEF ReadTimeout, redisVars, budgetVars, historyVars
<1>8. CASE PollError(w)
  <2>1. StoppingAgrees'
    BY <1>0, <1>8 DEF PollError, At, TypeOK
  <2> QED
    BY <1>0, <1>2, <1>8, <2>1, StopFault DEF PollError
<1>9. CASE Dispatch(w)
  <2>1. PICK e \in batch[w] :
          /\ task'  = [task EXCEPT ![w][e] = "created"]
          /\ batch' = [batch EXCEPT ![w] = @ \ {e}]
          /\ pc'    = [pc EXCEPT ![w] = IF batch[w] = {e} THEN "poll" ELSE "dispatch"]
    BY <1>9 DEF Dispatch
  <2>2. e \in Entries
    BY <1>0
  <2>3. /\ batch'[w] = batch[w] \ {e} /\ task'[w][e] = "created"
        /\ pc'[w] = IF batch[w] = {e} THEN "poll" ELSE "dispatch"
        /\ \A v \in Workers : v # w => batch'[v] = batch[v] /\ pc'[v] = pc[v]
        /\ \A v \in Workers, f \in Entries : v # w \/ f # e => task'[v][f] = task[v][f]
    BY <1>0, <2>1, <2>2 DEF TypeOK
  <2>4. StoppingAgrees'
    BY <1>0, <2>2, <2>3 DEF At
  <2>5. \A f \in Entries : InHand(f) => InHand(f)'
    BY <2>2, <2>3 DEF InHand, At
  <2> QED
    BY <1>9, <2>4, <2>5, StopFrame DEF Dispatch, redisVars, budgetVars, historyVars
<1>10. CASE ClaimStale(w)
  <2>1. StoppingAgrees'
    BY <1>0, <1>10 DEF ClaimStale, workerVars, At
  <2>2. \A e \in Entries : owner'[e] # NoWorker => owner[e] # NoWorker
    BY <1>10 DEF ClaimStale, XAutoClaim, Pending
  <2> QED
    BY <1>1, <1>10, <2>1, <2>2, StopFrame DEF ClaimStale, workerVars, budgetVars, historyVars
<1>11. CASE RequestShutdown(w)
  <2>1. StoppingAgrees'
    BY <1>0, <1>11 DEF RequestShutdown, At
  <2> QED
    BY <1>1, <1>11, <2>1, StopFrame DEF RequestShutdown, redisVars, historyVars
<1>12. CASE LoopExit(w)
  <2>1. StoppingAgrees'
    BY <1>0, <1>12 DEF LoopExit, At, TypeOK
  <2> QED
    BY <1>1, <1>12, <2>1, StopFrame DEF LoopExit, redisVars, budgetVars, historyVars
<1>13. CASE CancelRun(w)
  <2>1. StoppingAgrees'
    BY <1>0, <1>13 DEF CancelRun, At, TypeOK
  <2> QED
    BY <1>0, <1>2, <1>13, <2>1, StopFault DEF CancelRun
<1>14. CASE DrainTimeout(w)
  <2>1. StoppingAgrees'
    BY <1>0, <1>14 DEF DrainTimeout, At, TypeOK, Live
  <2> QED
    BY <1>1, <1>14, <2>1, StopFrame DEF DrainTimeout, redisVars, budgetVars, historyVars
<1>15. Reset(w) => StoppingAgrees'
  BY <1>0 DEF Reset, At, TypeOK, NoTasks
<1>16. CASE Exit(w)
  <2>1. batch[w] = {} /\ \A e \in Entries : ~At(w, e, "created")
    BY <1>0, <1>16 DEF Exit, Live, At
  <2>2. \A v \in Workers : v # w => batch'[v] = batch[v] /\ task'[v] = task[v]
    BY <1>0, <1>16 DEF Exit, Reset, TypeOK
  <2>3. \A e \in Entries : InHand(e) => InHand(e)'
    BY <2>1, <2>2 DEF InHand, At
  <2> QED
    BY <1>15, <1>16, <2>3, StopFrame DEF Exit, redisVars, budgetVars, historyVars
<1>17. CASE Crash(w)
  BY <1>0, <1>2, <1>15, <1>17, StopFault DEF Crash
<1> QED
  BY <1>3, <1>4, <1>5, <1>6, <1>7, <1>8, <1>9, <1>10, <1>11, <1>12, <1>13, <1>14, <1>16, <1>17
     DEF WorkerStep

\* As long as no Redis call fails and no process dies, stopping workers leave no
\* leased entry behind whose handler was not given its chance.
THEOREM NothingStranded == Spec => []GracefulStopStrandsNothing
<1>1. Init => StopInv
  BY DEF Init, RedisInit, StopInv, StoppingAgrees, GracefulStopStrandsNothing, Pending, At, NoTasks
<1>2. Inv /\ StopInv /\ [Next]_vars => StopInv'
  <2> SUFFICES ASSUME Inv, StopInv, [Next]_vars PROVE StopInv'
    OBVIOUS
  <2>1. CASE UNCHANGED vars
    BY <2>1 DEF vars, redisVars, workerVars, budgetVars, historyVars, StopInv, StoppingAgrees,
                GracefulStopStrandsNothing, Pending, At
  <2>2. ASSUME ApiWarmup \/ \E j \in Jobs : CheckDepth(j) \/ Enqueue(j) \/ EnqueueError(j)
        PROVE  StopInv'
    <3>1. /\ UNCHANGED <<owner, runs, pc, batch, task, crashes>>
          /\ UNCHANGED faults \/ faults' = faults + 1
      BY <2>2 DEF ApiWarmup, CheckDepth, Enqueue, EnqueueError, EnsureGroup, Publish, XAdd, Fault,
                  redisVars, workerVars, budgetVars, historyVars
    <3>2. StoppingAgrees'
      BY <3>1 DEF StopInv, StoppingAgrees, At
    <3>3. \A e \in Entries : InHand(e) => InHand(e)'
      BY <3>1 DEF InHand, At
    <3>4. CASE UNCHANGED faults
      BY <3>1, <3>2, <3>3, <3>4, StopFrame
    <3>5. CASE faults' = faults + 1
      <4>1. TypeOK /\ faults' + crashes' = faults + crashes + 1
        BY <3>1, <3>5 DEF Inv, TypeOK
      <4> QED
        BY <3>2, <4>1, StopFault
    <3> QED
      BY <3>1, <3>4, <3>5
  <2> QED
    BY <2>1, <2>2, StopWorker, StopTask DEF Next
<1>3. StopInv => GracefulStopStrandsNothing
  BY DEF StopInv
<1> QED
  BY <1>1, <1>2, <1>3, InvInit, InvNext, PTL DEF Spec

-----------------------------------------------------------------------------
(* The dead-letter stream *)

\* Entries whose DLQ write took effect, lost its reply, and is sent again.
Rewriting == {e \in buried : \E w \in Workers : At(w, e, "dlq")}

\* Each of them is paid for by the fault that lost the reply.
DlqCounted == Len(dlq) + Cardinality(Rewriting) <= Cardinality(buried) + faults

LEMMA DlqSets ==
  ASSUME TypeOK
  PROVE  /\ IsFiniteSet(buried) /\ Cardinality(buried) \in Nat
         /\ IsFiniteSet(Rewriting) /\ Cardinality(Rewriting) \in Nat
         /\ Len(dlq) \in Nat /\ faults \in Nat
<1>1. buried \in SUBSET Entries /\ Rewriting \in SUBSET Entries
  BY DEF TypeOK, Rewriting
<1> QED
  BY <1>1, EntriesFinite DEF TypeOK, RedisTypeOK

\* Steps that write no dead letter and send no task to "dlq" with one written.
LEMMA DlqFrame ==
  ASSUME TypeOK, TypeOK', DlqCounted, UNCHANGED <<dlq, buried>>, faults <= faults',
         Rewriting' \subseteq Rewriting
  PROVE  DlqCounted'
<1>1. Cardinality(Rewriting') <= Cardinality(Rewriting) /\ Cardinality(Rewriting') \in Nat
  BY DlqSets, FS_Subset, FS_CardinalityType
<1>2. faults' \in Nat
  BY DEF TypeOK
<1>3. Len(dlq') = Len(dlq) /\ Cardinality(buried') = Cardinality(buried)
  OBVIOUS
<1>4. Cardinality(Rewriting)' = Cardinality(Rewriting')
  OBVIOUS
<1> QED
  BY <1>1, <1>2, <1>3, <1>4, DlqSets DEF DlqCounted

\* The write of a dead letter, by the task of entry e.
LEMMA DlqWrite ==
  ASSUME Inv, TypeOK', DlqCounted, NEW w \in Workers, NEW e \in Entries, TaskStep(w, e),
         At(w, e, "dlq"), WriteDlq(e), faults' = faults \/ faults' = faults + 1,
         faults' = faults => task'[w][e] # "dlq"
  PROVE  DlqCounted'
<1>0. TypeOK /\ TypeOK'
  BY DEF Inv
<1>1. e <= Len(stream) /\ RedisTypeOK
  <2>1. e \in Live(w) /\ e \in Nat
    BY <1>0, TaskLocal DEF Entries
  <2>2. e <= lastId
    BY <2>1 DEF Inv, LeaseInvariant, HeldIsDelivered
  <2>3. RedisTypeOK
    BY <1>0 DEF TypeOK
  <2> QED
    BY <2>1, <2>2, <2>3 DEF RedisTypeOK
<1>2. Len(dlq') = Len(dlq) + 1 /\ buried' = buried \cup {e}
  <2>1. stream[e].job \in Jobs /\ stream[e].attempts + 1 \in Nat
    BY <1>1, BodyType
  <2>2. XAddDlq(stream[e].job, stream[e].attempts + 1) /\ buried' = buried \cup {e}
    BY DEF WriteDlq
  <2> QED
    BY <1>1, <2>1, <2>2, XAddDlqType
<1>3. Cardinality(buried') = IF e \in buried THEN Cardinality(buried) ELSE Cardinality(buried) + 1
  BY <1>0, <1>2, DlqSets, FS_AddElement
<1>4. /\ \A v \in Workers, f \in Entries : v # w \/ f # e => task'[v][f] = task[v][f]
      /\ \A v \in Workers : v # w => task'[v][e] = "none"
  BY <1>0, TaskLocal DEF Inv, LeaseInvariant, HeldOnce, Live
<1>5. buried \subseteq Entries
  BY <1>0 DEF TypeOK
<1>6. CASE task'[w][e] = "dlq"
  <2>1. Rewriting' = Rewriting \cup {e}
    BY <1>2, <1>4, <1>5, <1>6 DEF Rewriting, At
  <2>2. e \in Rewriting <=> e \in buried
    BY DEF Rewriting
  <2>3. Cardinality(Rewriting') = IF e \in buried THEN Cardinality(Rewriting) ELSE Cardinality(Rewriting) + 1
    BY <1>0, <2>1, <2>2, DlqSets, FS_AddElement
  <2>4. faults' = faults + 1
    BY <1>6
  <2> QED
    BY <1>0, <1>2, <1>3, <2>3, <2>4, DlqSets DEF DlqCounted
<1>7. CASE task'[w][e] # "dlq"
  <2>1. Rewriting' = Rewriting \ {e}
    BY <1>2, <1>4, <1>5, <1>7 DEF Rewriting, At
  <2>2. e \in Rewriting <=> e \in buried
    BY DEF Rewriting
  <2>3. Cardinality(Rewriting') = IF e \in buried THEN Cardinality(Rewriting) - 1 ELSE Cardinality(Rewriting)
    BY <1>0, <2>1, <2>2, DlqSets, FS_RemoveElement
  <2> QED
    BY <1>0, <1>2, <1>3, <2>3, DlqSets DEF DlqCounted
<1> QED
  BY <1>6, <1>7

LEMMA DlqTask ==
  ASSUME Inv, TypeOK', DlqCounted, NEW w \in Workers, NEW e \in Entries, TaskStep(w, e)
  PROVE  DlqCounted'
<1>0. TypeOK /\ task[w][e] \in TaskState
      /\ \A v \in Workers, f \in Entries : v # w \/ f # e => task'[v][f] = task[v][f]
  BY TaskLocal DEF Inv, TypeOK
<1>1. ASSUME NEW s, Goto(w, e, s) PROVE task'[w][e] = s
  BY <1>0, <1>1 DEF Goto, TypeOK
<1>2. End(w, e) => task'[w][e] = "none"
  BY <1>0 DEF End, TypeOK
<1>3. /\ faults \in Nat /\ (faults' = faults \/ faults' = faults + 1)
  BY <1>0 DEF TaskStep, Begin, HandlerReturns, HandlerFails, Ack, AckError, Bury, BuryError,
              Finish, CancelTask, Fault, budgetVars, TypeOK
<1>4. ASSUME UNCHANGED <<dlq, buried>>,
             task'[w][e] = "dlq" => task[w][e] = "dlq" \/ e \notin buried
      PROVE  DlqCounted'
  <2>1. Rewriting' \subseteq Rewriting
    BY <1>0, <1>4 DEF Rewriting, At, TypeOK
  <2> QED
    BY <1>0, <1>3, <1>4, <2>1, DlqFrame
<1>5. CASE Bury(w, e)
  BY <1>1, <1>3, <1>5, DlqWrite DEF Bury
<1>6. CASE BuryError(w, e)
  <2>1. At(w, e, "dlq") /\ faults' = faults + 1
    BY <1>6 DEF BuryError, Fault
  <2>2. CASE UNCHANGED <<redisVars, buried>>
    BY <1>4, <2>1, <2>2 DEF redisVars, At
  <2>3. CASE WriteDlq(e)
    BY <1>3, <2>1, <2>3, DlqWrite
  <2> QED
    BY <1>6, <2>2, <2>3 DEF BuryError
<1>7. CASE HandlerFails(w, e)
  <2>1. UNCHANGED <<dlq, buried>> /\ e \notin buried
    BY <1>7 DEF HandlerFails, redisVars, historyVars, Inv, LeaseInvariant, StageAgrees
  <2> QED
    BY <1>4, <2>1
<1>8. CASE Begin(w, e) \/ HandlerReturns(w, e) \/ Ack(w, e) \/ AckError(w, e) \/ Finish(w, e) \/ CancelTask(w, e)
  <2>1. UNCHANGED <<dlq, buried>> /\ task'[w][e] # "dlq"
    BY <1>1, <1>2, <1>8
       DEF Begin, HandlerReturns, Ack, AckError, Finish, CancelTask, redisVars, XAck, historyVars
  <2> QED
    BY <1>4, <2>1
<1> QED
  BY <1>5, <1>6, <1>7, <1>8 DEF TaskStep

\* The DLQ has one record per dead entry and one more for each lost reply at
\* most, and no success is among them, for any number of tasks and faults.
THEOREM DeadLettersCounted == Spec => []DlqFaithful
<1>1. Init => DlqCounted
  <2> SUFFICES ASSUME Init PROVE DlqCounted
    OBVIOUS
  <2>1. Len(dlq) = 0 /\ Rewriting = {} /\ buried = {} /\ faults = 0
    BY DEF Init, RedisInit, Rewriting
  <2>2. Cardinality(Rewriting) = 0 /\ Cardinality(buried) = 0
    BY <2>1, FS_EmptySet
  <2> QED
    BY <2>1, <2>2 DEF DlqCounted
<1>2. Inv /\ DlqCounted /\ [Next]_vars => DlqCounted'
  <2> SUFFICES ASSUME Inv, DlqCounted, [Next]_vars PROVE DlqCounted'
    OBVIOUS
  <2>0. TypeOK /\ TypeOK'
    BY InvNext DEF Inv
  <2>1. ASSUME UNCHANGED <<dlq, buried>>, faults <= faults',
               \A v \in Workers, f \in Entries : task'[v][f] = task[v][f] \/ task'[v][f] # "dlq"
        PROVE  DlqCounted'
    <3>1. Rewriting' \subseteq Rewriting
      BY <2>0, <2>1 DEF Rewriting, At, TypeOK
    <3> QED
      BY <2>0, <2>1, <3>1, DlqFrame
  <2>2. faults \in Nat /\ (faults' = faults \/ faults' = faults + 1 => faults <= faults')
    BY <2>0 DEF TypeOK
  <2>3. CASE UNCHANGED vars
    BY <2>1, <2>2, <2>3 DEF vars, redisVars, workerVars, budgetVars, historyVars
  <2>4. ASSUME ApiWarmup \/ \E j \in Jobs : CheckDepth(j) \/ Enqueue(j) \/ EnqueueError(j)
        PROVE  DlqCounted'
    <3>1. UNCHANGED <<dlq, buried, task>> /\ (faults' = faults \/ faults' = faults + 1)
      BY <2>4 DEF ApiWarmup, CheckDepth, Enqueue, EnqueueError, EnsureGroup, Publish, XAdd, Fault,
                  redisVars, workerVars, budgetVars, historyVars
    <3> QED
      BY <2>1, <2>2, <3>1
  <2>5. ASSUME NEW w \in Workers, WorkerStep(w) PROVE DlqCounted'
    <3>1. UNCHANGED <<dlq, buried>> /\ (faults' = faults \/ faults' = faults + 1)
      BY <2>5 DEF WorkerStep, Start, AdmissionSleep, BeginRead, ReadGroup, ReadTimeout, PollError,
         Dispatch, ClaimStale, RequestShutdown, LoopExit, CancelRun, DrainTimeout, Exit, Crash,
         EnsureGroup, ReadInFlight, XReadGroup, XAutoClaim, Fault, Kill,
         vars, redisVars, budgetVars, historyVars
    <3>2. Reset(w) \/ Dispatch(w) \/ UNCHANGED task
      BY <2>5 DEF WorkerStep, Start, AdmissionSleep, BeginRead, ReadGroup, ReadTimeout, PollError,
         ClaimStale, RequestShutdown, LoopExit, CancelRun, DrainTimeout, Exit, Crash, vars, workerVars
    <3>3. \A v \in Workers, f \in Entries : task'[v][f] = task[v][f] \/ task'[v][f] # "dlq"
      <4>1. CASE Reset(w)
        BY <2>0, <4>1 DEF Reset, NoTasks, TypeOK
      <4>2. CASE Dispatch(w)
        BY <2>0, <4>2 DEF Dispatch, TypeOK
      <4> QED
        BY <3>2, <4>1, <4>2
    <3> QED
      BY <2>1, <2>2, <3>1, <3>3
  <2> QED
    BY <2>0, <2>3, <2>4, <2>5, DlqTask DEF Next
<1>3. Inv /\ DlqCounted => DlqFaithful
  <2> SUFFICES ASSUME Inv, DlqCounted PROVE DlqFaithful
    OBVIOUS
  <2>1. TypeOK
    BY DEF Inv
  <2>2. Len(dlq) <= Cardinality(buried) + faults
    BY <2>1, DlqSets DEF DlqCounted
  <2>3. buried \cap succeeded = {}
    BY <2>1 DEF Inv, LeaseInvariant, RecordAgrees, TypeOK
  <2> QED
    BY <2>2, <2>3 DEF DlqFaithful
<1> QED
  BY <1>1, <1>2, <1>3, InvInit, InvNext, PTL DEF Spec

-----------------------------------------------------------------------------
(* Waiting *)

\* The for loop has a batch and nothing else has; only a started worker polls.
LoopAgrees ==
  \A w \in Workers :
    /\ pc[w] # "down" => group
    /\ batch[w] # {} <=> pc[w] = "dispatch"

LEMMA LoopWorker ==
  ASSUME TypeOK, LoopAgrees, NEW w \in Workers, WorkerStep(w)
  PROVE  LoopAgrees'
<1> DEFINE Mine == (pc'[w] # "down" => group') /\ (batch'[w] # {} <=> pc'[w] = "dispatch")
<1>0. /\ pc \in [Workers -> Loc] /\ batch \in [Workers -> SUBSET Entries]
      /\ pc[w] # "down" => group
      /\ batch[w] # {} <=> pc[w] = "dispatch"
  BY DEF TypeOK, LoopAgrees
<1>1. \A v \in Workers : v # w => pc'[v] = pc[v] /\ batch'[v] = batch[v]
  BY <1>0 DEF WorkerStep, Start, AdmissionSleep, BeginRead, ReadGroup, ReadTimeout, PollError, Dispatch,
     ClaimStale, RequestShutdown, LoopExit, CancelRun, DrainTimeout, Exit, Crash, Reset, vars, workerVars
<1>2. group => group'
  BY DEF WorkerStep, Start, AdmissionSleep, BeginRead, ReadGroup, ReadTimeout, PollError, Dispatch,
     ClaimStale, RequestShutdown, LoopExit, CancelRun, DrainTimeout, Exit, Crash, EnsureGroup,
     ReadInFlight, XReadGroup, XAutoClaim, vars, redisVars
<1>3. ASSUME Mine PROVE LoopAgrees'
  BY <1>1, <1>2, <1>3 DEF LoopAgrees
<1>4. CASE Start(w)
  BY <1>0, <1>3, <1>4 DEF Start, EnsureGroup
<1>5. CASE AdmissionSleep(w) \/ ClaimStale(w) \/ RequestShutdown(w)
  BY <1>0, <1>2, <1>3, <1>5 DEF AdmissionSleep, ClaimStale, RequestShutdown, vars, workerVars
<1>6. CASE BeginRead(w) \/ ReadTimeout(w) \/ LoopExit(w) \/ DrainTimeout(w)
  BY <1>0, <1>2, <1>3, <1>6 DEF BeginRead, ReadTimeout, LoopExit, DrainTimeout
<1>7. CASE ReadGroup(w)
  BY <1>0, <1>2, <1>3, <1>7 DEF ReadGroup, XReadGroup
<1>8. CASE PollError(w)
  BY <1>0, <1>2, <1>3, <1>8 DEF PollError
<1>9. CASE Dispatch(w)
  <2>1. PICK e \in batch[w] :
          /\ batch' = [batch EXCEPT ![w] = @ \ {e}]
          /\ pc'    = [pc EXCEPT ![w] = IF batch[w] = {e} THEN "poll" ELSE "dispatch"]
    BY <1>9 DEF Dispatch
  <2>2. batch[w] \ {e} # {} <=> batch[w] # {e}
    OBVIOUS
  <2> QED
    BY <1>0, <1>2, <1>3, <2>1, <2>2
<1>10. CASE CancelRun(w)
  BY <1>0, <1>2, <1>3, <1>10 DEF CancelRun, Looping
<1>11. CASE Exit(w) \/ Crash(w)
  BY <1>0, <1>3, <1>11 DEF Exit, Crash, Reset
<1> QED
  BY <1>4, <1>5, <1>6, <1>7, <1>8, <1>9, <1>10, <1>11 DEF WorkerStep

\* For any batch size and number of permits, whatever run() waits for will come:
\* what remains to be assumed for its progress is that tasks and Redis move.
THEOREM WaitersAreServed == Spec => []WaitsAreServed
<1>1. Init => LoopAgrees
  BY DEF Init, LoopAgrees
<1>2. TypeOK /\ LoopAgrees /\ [Next]_vars => LoopAgrees'
  <2> SUFFICES ASSUME TypeOK, LoopAgrees, [Next]_vars PROVE LoopAgrees'
    OBVIOUS
  <2>1. ASSUME UNCHANGED <<pc, batch>>, group => group' PROVE LoopAgrees'
    BY <2>1 DEF LoopAgrees
  <2>2. CASE ApiWarmup \/ \E j \in Jobs : CheckDepth(j) \/ Enqueue(j) \/ EnqueueError(j)
    BY <2>1, <2>2 DEF ApiWarmup, CheckDepth, Enqueue, EnqueueError, EnsureGroup, Publish, XAdd,
                      redisVars, workerVars
  <2>3. ASSUME NEW w \in Workers, NEW e \in Entries, TaskStep(w, e) PROVE LoopAgrees'
    BY <2>1, <2>3, TaskLocal
  <2>4. CASE UNCHANGED vars
    BY <2>1, <2>4 DEF vars, redisVars, workerVars
  <2> QED
    BY <2>2, <2>3, <2>4, LoopWorker DEF Next
<1>3. LoopAgrees /\ SemaphoreConserved => WaitsAreServed
  <2> SUFFICES ASSUME LoopAgrees, SemaphoreConserved, NEW w \in Workers PROVE WaitsAreServed!(w)
    BY DEF WaitsAreServed
  <2>1. sem[w] = 0 => Live(w) # {}
    <3> SUFFICES ASSUME sem[w] = 0, Live(w) = {} PROVE FALSE
      OBVIOUS
    <3>1. Cardinality(Live(w)) = 0
      BY FS_EmptySet
    <3>2. sem[w] + Cardinality(Live(w)) = MaxConcurrency
      BY DEF SemaphoreConserved
    <3> HIDE DEF Live
    <3> QED
      BY <3>1, <3>2, DeliveryAssumption
  <2> QED
    BY <2>1 DEF LoopAgrees
<1> QED
  BY <1>1, <1>2, <1>3, PermitsConserved, TypeInit, TypeNext, PTL DEF Spec

-----------------------------------------------------------------------------
(* Back-pressure *)

\* A request is admitted while the stream is shorter than MaxQueueDepth, beside
\* fewer than MaxInFlight others; afterwards an entry more is a request less, or
\* a fault that had the XADD sent again.
DepthBounded ==
  \/ Len(stream) = 0 /\ Cardinality(Admitted) = 0
  \/ Len(stream) + Cardinality(Admitted) < MaxQueueDepth + MaxInFlight + faults

EnoughSlack == MaxInFlight + MaxFaults <= TrimSlack + 1

DepthInv ==
  /\ IsFiniteSet(Admitted)
  /\ faults <= MaxFaults
  /\ EnoughSlack => DepthBounded /\ trimmed = 0

\* The XADD of an admitted request evicts nothing.
LEMMA PublishEvictsNothing ==
  ASSUME TypeOK, DepthInv, EnoughSlack, NEW j \in Jobs, req[j] = "admitted", Publish(j)
  PROVE  trimmed' = 0 /\ Len(stream') = Len(stream) + 1
<1>1. Cardinality(Admitted) \in Nat /\ Cardinality(Admitted) # 0
  <2>1. j \in Admitted
    BY DEF Admitted
  <2> QED
    BY <2>1, FS_EmptySet, FS_CardinalityType DEF DepthInv
<1>2. Len(stream) \in Nat /\ faults \in Nat /\ trimmed = 0
  BY DEF TypeOK, RedisTypeOK, DepthInv
<1>3. Len(stream) + 1 <= MaxQueueDepth + TrimSlack
  BY <1>1, <1>2, DeliveryAssumption DEF DepthInv, DepthBounded, EnoughSlack
<1>4. trimmed' \in 0 .. 0
  BY <1>2, <1>3, DeliveryAssumption DEF Publish, XAdd
<1>5. Len(stream') = Len(stream) + 1
  <2>1. XAdd(j, 0, MaxQueueDepth + TrimSlack) /\ RedisTypeOK /\ MaxQueueDepth + TrimSlack \in Nat
    BY DeliveryAssumption DEF Publish, TypeOK
  <2> QED
    BY <2>1, XAddType
<1> QED
  BY <1>4, <1>5

LEMMA DepthApi ==
  ASSUME TypeOK, DepthInv,
         ApiWarmup \/ \E j \in Jobs : CheckDepth(j) \/ Enqueue(j) \/ EnqueueError(j)
  PROVE  DepthInv'
<1> USE DeliveryAssumption
<1> DEFINE A == Admitted
<1>0. /\ Len(stream) \in Nat /\ faults \in Nat /\ Cardinality(A) \in Nat
      /\ req \in [Jobs -> ReqState] /\ IsFiniteSet(A)
  BY FS_CardinalityType DEF TypeOK, RedisTypeOK, DepthInv
<1>1. ASSUME NEW j \in Jobs, req[j] = "admitted", NEW s, s # "admitted", req' = [req EXCEPT ![j] = s]
      PROVE  Admitted' = A \ {j} /\ IsFiniteSet(Admitted') /\ Cardinality(Admitted') = Cardinality(A) - 1
  <2>1. Admitted' = A \ {j} /\ j \in A
    BY <1>0, <1>1 DEF Admitted
  <2> QED
    BY <1>0, <2>1, FS_RemoveElement
<1>2. CASE ApiWarmup
  BY <1>2 DEF ApiWarmup, EnsureGroup, budgetVars, DepthInv, DepthBounded, Admitted
<1>3. ASSUME NEW j \in Jobs, CheckDepth(j) PROVE DepthInv'
  <2>1. UNCHANGED <<stream, trimmed, faults>> /\ req[j] = "new" /\ Cardinality(A) < MaxInFlight
    BY <1>3 DEF CheckDepth, redisVars, budgetVars
  <2>2. CASE StreamLength >= MaxQueueDepth
    <3>1. Admitted' = A
      BY <1>0, <1>3, <2>2 DEF CheckDepth, Admitted
    <3> QED
      BY <2>1, <3>1 DEF DepthInv, DepthBounded
  <2>3. CASE ~(StreamLength >= MaxQueueDepth)
    <3>1. Admitted' = A \cup {j} /\ j \notin A
      BY <1>0, <1>3, <2>1, <2>3 DEF CheckDepth, Admitted
    <3>2. IsFiniteSet(Admitted') /\ Cardinality(Admitted') = Cardinality(A) + 1
      BY <1>0, <3>1, FS_AddElement
    <3>3. EnoughSlack => trimmed = 0
      BY DEF DepthInv
    <3>4. EnoughSlack => Len(stream) < MaxQueueDepth
      BY <1>0, <2>3, <3>3 DEF StreamLength
    <3>5. Cardinality(A) + 1 <= MaxInFlight
      BY <1>0, <2>1
    <3>6. EnoughSlack => DepthBounded'
      BY <1>0, <2>1, <3>2, <3>4, <3>5 DEF DepthBounded
    <3> QED
      BY <2>1, <3>2, <3>3, <3>6 DEF DepthInv, EnoughSlack
  <2> QED
    BY <2>2, <2>3
<1>4. ASSUME NEW j \in Jobs, Enqueue(j) PROVE DepthInv'
  <2>1. req[j] = "admitted" /\ Publish(j) /\ UNCHANGED faults /\ req' = [req EXCEPT ![j] = "accepted"]
    BY <1>4 DEF Enqueue, budgetVars
  <2>2. IsFiniteSet(Admitted') /\ Cardinality(Admitted') = Cardinality(A) - 1
    BY <1>1, <2>1
  <2>3. EnoughSlack => trimmed' = 0 /\ Len(stream') = Len(stream) + 1
    BY <2>1, PublishEvictsNothing
  <2>4. EnoughSlack => DepthBounded'
    <3>1. Cardinality(A) # 0
      <4>1. j \in A
        BY <2>1 DEF Admitted
      <4> QED
        BY <1>0, <4>1, FS_EmptySet
    <3>2. EnoughSlack => Len(stream) + Cardinality(A) < MaxQueueDepth + MaxInFlight + faults
      BY <3>1 DEF DepthInv, DepthBounded
    <3> QED
      BY <1>0, <2>1, <2>2, <2>3, <3>2 DEF DepthBounded
  <2> QED
    BY <2>1, <2>2, <2>3, <2>4 DEF DepthInv, EnoughSlack
<1>5. ASSUME NEW j \in Jobs, EnqueueError(j) PROVE DepthInv'
  <2>1. /\ req[j] = "admitted" /\ faults < MaxFaults /\ faults' = faults + 1
        /\ UNCHANGED redisVars \/ Publish(j)
        /\ UNCHANGED req \/ req' = [req EXCEPT ![j] = "failed"]
    BY <1>5 DEF EnqueueError, Fault
  <2>2. /\ IsFiniteSet(Admitted')
        /\ Cardinality(Admitted') = Cardinality(A) \/ Cardinality(Admitted') = Cardinality(A) - 1
    <3>1. CASE UNCHANGED req
      BY <1>0, <3>1 DEF Admitted
    <3>2. CASE req' = [req EXCEPT ![j] = "failed"]
      BY <1>1, <2>1, <3>2
    <3> QED
      BY <2>1, <3>1, <3>2
  <2>3. EnoughSlack => trimmed' = 0 /\ (Len(stream') = Len(stream) \/ Len(stream') = Len(stream) + 1)
    <3>1. CASE UNCHANGED redisVars
      BY <3>1 DEF redisVars, DepthInv
    <3>2. CASE Publish(j)
      BY <2>1, <3>2, PublishEvictsNothing
    <3> QED
      BY <2>1, <3>1, <3>2
  <2>4. EnoughSlack => DepthBounded'
    <3>1. Cardinality(A) # 0
      <4>1. j \in A
        BY <2>1 DEF Admitted
      <4> QED
        BY <1>0, <4>1, FS_EmptySet
    <3>2. EnoughSlack => Len(stream) + Cardinality(A) < MaxQueueDepth + MaxInFlight + faults
      BY <3>1 DEF DepthInv, DepthBounded
    <3> QED
      BY <1>0, <2>1, <2>2, <2>3, <3>2 DEF DepthBounded
  <2>5. faults' <= MaxFaults
    BY <1>0, <2>1
  <2> QED
    BY <2>2, <2>3, <2>4, <2>5 DEF DepthInv, EnoughSlack
<1> QED
  BY <1>2, <1>3, <1>4, <1>5

\* Only the API writes to the stream and answers requests: any other step leaves
\* both alone and spends at most one fault.
LEMMA OnlyApiWrites ==
  ASSUME TypeOK, [Next]_vars,
         ~(ApiWarmup \/ \E j \in Jobs : CheckDepth(j) \/ Enqueue(j) \/ EnqueueError(j))
  PROVE  /\ UNCHANGED <<stream, trimmed, req>>
         /\ faults' = faults \/ (faults < MaxFaults /\ faults' = faults + 1)
<1>1. CASE UNCHANGED vars
  BY <1>1 DEF vars, redisVars, budgetVars
<1>2. ASSUME NEW w \in Workers, WorkerStep(w)
      PROVE  /\ UNCHANGED <<stream, trimmed, req>>
             /\ faults' = faults \/ (faults < MaxFaults /\ faults' = faults + 1)
  <2>1. UNCHANGED <<stream, trimmed, req>>
    BY <1>2 DEF WorkerStep, Start, AdmissionSleep, BeginRead, ReadGroup, ReadTimeout, PollError,
       Dispatch, ClaimStale, RequestShutdown, LoopExit, CancelRun, DrainTimeout, Exit, Crash,
       EnsureGroup, ReadInFlight, XReadGroup, XAutoClaim, vars, redisVars
  <2>2. faults' = faults \/ (faults < MaxFaults /\ faults' = faults + 1)
    BY <1>2 DEF WorkerStep, Start, AdmissionSleep, BeginRead, ReadGroup, ReadTimeout, PollError,
       Dispatch, ClaimStale, RequestShutdown, LoopExit, CancelRun, DrainTimeout, Exit, Crash,
       Fault, Kill, vars, budgetVars
  <2> QED
    BY <2>1, <2>2
<1>3. ASSUME NEW w \in Workers, NEW e \in Entries, TaskStep(w, e)
      PROVE  /\ UNCHANGED <<stream, trimmed, req>>
             /\ faults' = faults \/ (faults < MaxFaults /\ faults' = faults + 1)
  <2>1. faults' = faults \/ (faults < MaxFaults /\ faults' = faults + 1)
    BY <1>3 DEF TaskStep, Begin, HandlerReturns, HandlerFails, Ack, AckError, Bury, BuryError,
                Finish, CancelTask, Fault, budgetVars
  <2> QED
    BY <1>3, <2>1, TaskLocal
<1> QED
  BY <1>1, <1>2, <1>3 DEF Next

\* For every queue depth and every number of requests that pass the depth check
\* together, a slack that covers them and the faults keeps XADD from evicting.
THEOREM SlackSuffices == Spec => []NothingEvicted
<1>1. Init => DepthInv
  <2> SUFFICES ASSUME Init PROVE DepthInv
    OBVIOUS
  <2>1. Admitted = {} /\ Len(stream) = 0 /\ trimmed = 0 /\ faults = 0
    BY DEF Init, RedisInit, Admitted
  <2> QED
    BY <2>1, FS_EmptySet, DeliveryAssumption DEF DepthInv, DepthBounded
<1>2. TypeOK /\ HeldIsDelivered /\ DepthInv /\ [Next]_vars => DepthInv'
  <2> SUFFICES ASSUME TypeOK, HeldIsDelivered, DepthInv, [Next]_vars PROVE DepthInv'
    OBVIOUS
  <2>0. faults \in Nat /\ Len(stream) \in Nat /\ Cardinality(Admitted) \in Nat
    BY FS_CardinalityType DEF TypeOK, RedisTypeOK, DepthInv
  <2>1. ASSUME UNCHANGED <<stream, trimmed, req>>,
               faults' = faults \/ (faults < MaxFaults /\ faults' = faults + 1)
        PROVE  DepthInv'
    <3>1. Admitted' = Admitted
      BY <2>1 DEF Admitted
    <3>2. faults' <= MaxFaults /\ faults <= faults' /\ faults' \in Nat
      BY <2>0, <2>1, DeliveryAssumption DEF DepthInv
    <3>3. DepthBounded => DepthBounded'
      BY <2>0, <2>1, <3>1, <3>2, DeliveryAssumption DEF DepthBounded
    <3> QED
      BY <2>1, <3>1, <3>2, <3>3 DEF DepthInv, EnoughSlack
  <2> QED
    BY <2>1, DepthApi, OnlyApiWrites
<1>3. DepthInv => NothingEvicted
  BY DEF DepthInv, EnoughSlack, NothingEvicted
<1> QED
  BY <1>1, <1>2, <1>3, TypeInit, TypeNext, PTL DEF Spec

-----------------------------------------------------------------------------
(* Answers and entries *)

\* The XADD of job j adds one entry to that job and none to another.
LEMMA PublishAdds ==
  ASSUME TypeOK, NEW j \in Jobs, Publish(j)
  PROVE  /\ EntriesOf(j)' # {}
         /\ Cardinality(EntriesOf(j)') = Cardinality(EntriesOf(j)) + 1
         /\ \A i \in Jobs : i # j => EntriesOf(i)' = EntriesOf(i)
<1> DEFINE n == Len(stream) + 1
<1>1. /\ RedisTypeOK /\ MaxQueueDepth + TrimSlack \in Nat /\ MaxEntries \in Nat
      /\ XAdd(j, 0, MaxQueueDepth + TrimSlack)
  BY DeliveryAssumption, RedisAssumption DEF TypeOK, Publish
<1>2. /\ Len(stream') = n /\ Len(stream) \in Nat /\ n \in Entries
      /\ \A e \in 1 .. Len(stream) : stream'[e] = stream[e]
      /\ stream'[n].job = j
  BY <1>1, XAddType DEF XAdd, RedisTypeOK, Entries, Serialise
<1>3. \A e \in Entries : e <= Len(stream') <=> e <= Len(stream) \/ e = n
  BY <1>2 DEF Entries
<1>4. \A e \in Entries : e <= Len(stream) => stream'[e] = stream[e] /\ e # n
  BY <1>2 DEF Entries
<1> HIDE DEF n
<1>5. EntriesOf(j)' = EntriesOf(j) \cup {n} /\ n \notin EntriesOf(j)
  BY <1>2, <1>3, <1>4 DEF EntriesOf
<1>6. \A i \in Jobs : i # j => EntriesOf(i)' = EntriesOf(i)
  BY <1>2, <1>3, <1>4 DEF EntriesOf
<1>7. EntriesOf(j) \in SUBSET Entries
  BY DEF EntriesOf
<1> QED
  BY <1>5, <1>6, <1>7, EntriesFinite, FS_AddElement

\* For any number of jobs and lost replies, what a POST was answered agrees with
\* what the stream holds of its job.
THEOREM AnswersAgree == Spec => []AnswersMatchStream
<1>1. Init => AnswersMatchStream
  <2> SUFFICES ASSUME Init, NEW j \in Jobs PROVE AnswersMatchStream!(j)
    BY DEF AnswersMatchStream
  <2>1. EntriesOf(j) = {} /\ req[j] = "new" /\ faults = 0
    BY DEF Init, RedisInit, EntriesOf, Entries
  <2> QED
    BY <2>1, FS_EmptySet
<1>2. TypeOK /\ AnswersMatchStream /\ [Next]_vars => AnswersMatchStream'
  <2> SUFFICES ASSUME TypeOK, AnswersMatchStream, [Next]_vars, NEW j \in Jobs
               PROVE  AnswersMatchStream!(j)'
    BY DEF AnswersMatchStream
  <2>0. /\ faults \in Nat /\ Cardinality(EntriesOf(j)) \in Nat /\ req \in [Jobs -> ReqState]
        /\ AnswersMatchStream!(j)
    BY EntriesFinite DEF TypeOK, EntriesOf, AnswersMatchStream
  <2>1. ASSUME UNCHANGED stream, faults' \in Nat, faults <= faults',
               req'[j] = req[j] \/ (req[j] # "accepted" /\ req'[j] # "accepted")
        PROVE  AnswersMatchStream!(j)'
    <3>1. EntriesOf(j)' = EntriesOf(j)
      BY <2>1 DEF EntriesOf
    <3> QED
      BY <2>0, <2>1, <3>1
  <2>2. CASE ApiWarmup
    BY <2>0, <2>1, <2>2 DEF ApiWarmup, EnsureGroup, budgetVars
  <2>3. ASSUME NEW i \in Jobs, CheckDepth(i) PROVE AnswersMatchStream!(j)'
    BY <2>0, <2>1, <2>3 DEF CheckDepth, redisVars, budgetVars
  <2>4. ASSUME NEW i \in Jobs, req[i] = "admitted", Publish(i),
               \/ faults' = faults /\ req' = [req EXCEPT ![i] = "accepted"]
               \/ faults' = faults + 1 /\ (UNCHANGED req \/ req' = [req EXCEPT ![i] = "failed"])
        PROVE  AnswersMatchStream!(j)'
    <3>1. CASE i = j
      BY <2>0, <2>4, <3>1, PublishAdds
    <3>2. CASE i # j
      <4>1. EntriesOf(j)' = EntriesOf(j) /\ req'[j] = req[j]
        BY <2>0, <2>4, <3>2, PublishAdds
      <4> QED
        BY <2>0, <2>4, <4>1
    <3> QED
      BY <3>1, <3>2
  <2>5. ASSUME NEW i \in Jobs, Enqueue(i) PROVE AnswersMatchStream!(j)'
    BY <2>4, <2>5 DEF Enqueue, budgetVars
  <2>6. ASSUME NEW i \in Jobs, EnqueueError(i) PROVE AnswersMatchStream!(j)'
    <3>1. CASE Publish(i)
      BY <2>4, <2>6, <3>1 DEF EnqueueError, Fault
    <3>2. CASE UNCHANGED redisVars
      BY <2>0, <2>1, <2>6, <3>2 DEF EnqueueError, Fault, redisVars
    <3> QED
      BY <2>6, <3>1, <3>2 DEF EnqueueError
  <2>7. CASE ~(ApiWarmup \/ \E i \in Jobs : CheckDepth(i) \/ Enqueue(i) \/ EnqueueError(i))
    BY <2>0, <2>1, <2>7, OnlyApiWrites
  <2> QED
    BY <2>2, <2>3, <2>5, <2>6, <2>7
<1> QED
  BY <1>1, <1>2, TypeInit, TypeNext, PTL DEF Spec

-----------------------------------------------------------------------------
(* Admission control *)

\* XLEN falls below AdmissionDepth in no step once it has reached it.
LEMMA BlockedStep ==
  ASSUME TypeOK, [Next]_vars, AdmissionDepth <= MaxQueueDepth + TrimSlack, ~Admits
  PROVE  ~Admits'
<1>0. /\ Len(stream) \in Nat /\ trimmed \in Nat /\ StreamLength >= AdmissionDepth /\ HasAdmission
      /\ AdmissionDepth \in Nat /\ MaxQueueDepth + TrimSlack \in Nat
  BY DeliveryAssumption DEF TypeOK, RedisTypeOK, Admits, StreamLength
<1>1. CASE UNCHANGED <<stream, trimmed>>
  BY <1>1 DEF Admits, StreamLength
<1>2. ASSUME NEW j \in Jobs, Publish(j) PROVE ~Admits'
  <2>1. RedisTypeOK /\ 0 \in Nat /\ XAdd(j, 0, MaxQueueDepth + TrimSlack)
    BY <1>2 DEF TypeOK, Publish
  <2>2. Len(stream') = Len(stream) + 1
    BY <1>0, <2>1, XAddType
  <2>3. trimmed' \in Nat /\ (trimmed' <= trimmed \/ trimmed' <= Len(stream) + 1 - (MaxQueueDepth + TrimSlack))
    BY <1>0, <2>1 DEF XAdd
  <2>4. StreamLength' >= AdmissionDepth
    BY <1>0, <2>2, <2>3 DEF StreamLength
  <2> QED
    BY <1>0, <2>2, <2>3, <2>4 DEF Admits, StreamLength
<1>3. UNCHANGED <<stream, trimmed>> \/ \E j \in Jobs : Publish(j)
  BY OnlyApiWrites DEF ApiWarmup, EnsureGroup, CheckDepth, Enqueue, EnqueueError, redisVars
<1> QED
  BY <1>1, <1>2, <1>3

\* The admission controller never lets go, at any depth that MAXLEN keeps.
THEOREM NeverReleased == Spec => BlockedStaysBlocked
<1>1. TypeOK /\ [Next]_vars => BlockedStaysBlocked!1
  BY BlockedStep
<1> QED
  BY <1>1, TypeInit, TypeNext, PTL DEF Spec, BlockedStaysBlocked

\* Hence from the first time it blocks, polling stays paused for ever.
THEOREM BlockedForGood ==
  ASSUME AdmissionDepth <= MaxQueueDepth + TrimSlack
  PROVE  Spec => [](~Admits => []~Admits)
<1>1. TypeOK /\ [Next]_vars => (~Admits => ~Admits')
  BY BlockedStep
<1> QED
  BY <1>1, TypeInit, TypeNext, PTL DEF Spec
=============================================================================

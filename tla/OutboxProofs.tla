---------------------------- MODULE OutboxProofs ----------------------------
(***************************************************************************)
(* The outbox for every number of processes, requests, keys and faults:    *)
(* types, one published job per key, no transaction left open by enqueue,  *)
(* true statuses, and the refinement of the outbox contract.                *)
(***************************************************************************)
EXTENDS Outbox, TLAPS

\* The stages of a request whose transaction is open.
Writing == {"insert", "commit"}

\* A request that is writing holds the lock, and its snapshot is the committed
\* table, with its own row once that is inserted.
TxnAgrees ==
  \A r \in Requests :
    /\ req[r] \in Writing => lock = Home[r]
    /\ req[r] = "insert"  => snap[Home[r]] = db
    /\ req[r] = "commit"  =>
         /\ r \in Jobs /\ db[r] = "absent" /\ SameKey(db, r) = {}
         /\ snap[Home[r]] = [db EXCEPT ![r] = "pending"]

\* The lock is held for one request at a time.
OneWriter == \A r, s \in Requests : req[r] \in Writing /\ req[s] \in Writing => r = s

\* Only inserts are ever committed.
OnlyPending == \A j \in Jobs : db[j] \in {"absent", "pending"}

KeyClaimedOnce ==
  \A i, j \in Jobs :
    db[i] # "absent" /\ db[j] # "absent" /\ Key[i] = Key[j] /\ Key[i] # NoKey => i = j

StoreInv == StoreTypeOK /\ TxnAgrees /\ OneWriter /\ OnlyPending /\ KeyClaimedOnce

\* With the store, a row is committed before its job is published.
ClaimedFirst ==
  EnqueuerStore =>
    /\ \A j \in Jobs : req[j] = "xadd" => db[j] # "absent"
    /\ \A j \in Published : db[j] # "absent"

\* Where the execution of an entry is agrees with what has happened to it.
ExecAgrees(e) ==
  /\ task[e] # "none" => e <= lastId
  /\ task[e] \in Running => host[e] \in Procs
  /\ task[e] \in {"none", "handler"} => e \notin succeeded \cup failed \cup acked
  /\ task[e] = "ack" => e \in succeeded \ failed
  /\ task[e] \in {"dlq", "dlqack"} => e \in failed /\ Exhausted(e)
  /\ task[e] = "dlqack" => DeadLettered(stream[e])

TaskAgrees == \A e \in Entries : ExecAgrees(e)

Inv ==
  /\ TypeOK
  /\ StoreInv
  /\ ClaimedFirst
  /\ TaskAgrees
  /\ StatusIsTrue
  /\ EnqueueReleasesLock

-----------------------------------------------------------------------------
(* What the store's operations preserve *)

LEMMA RowsType ==
  ASSUME StoreTypeOK, NEW p \in Procs
  PROVE  Rows(p) \in Table
BY DEF StoreTypeOK, Rows

\* A SELECT changes nothing that anyone reads.
LEMMA SelectKeeps ==
  ASSUME StoreTypeOK, NEW p \in Procs, Select(p)
  PROVE  /\ StoreTypeOK'
         /\ UNCHANGED <<db, lock, inTx>>
         /\ \A q \in Procs : Rows(q)' = Rows(q)
         /\ \A q \in Procs : q # p => snap'[q] = snap[q]
<1>1. Rows(p) \in Table /\ Empty \in Table
  BY RowsType DEF Empty, Table
<1>2. UNCHANGED <<db, lock, inTx>>
  BY DEF Select
<1>3. pinned' = [pinned EXCEPT ![p] = inTx[p]]
  BY DEF Select
<1>4. snap' = [snap EXCEPT ![p] = IF inTx[p] THEN Rows(p) ELSE Empty]
  BY DEF Select
<1>5. pinned' \in [Procs -> BOOLEAN] /\ snap' \in [Procs -> Table]
  BY <1>1, <1>3, <1>4 DEF StoreTypeOK
<1>6. \A q \in Procs : (pinned'[q] => inTx'[q]) /\ (lock' = q => pinned'[q])
  BY <1>2, <1>3 DEF StoreTypeOK
<1>7. StoreTypeOK'
  BY <1>2, <1>5, <1>6 DEF StoreTypeOK
<1>8. \A q \in Procs : Rows(q)' = Rows(q)
  BY <1>2, <1>3, <1>4 DEF StoreTypeOK, Rows
<1> QED
  BY <1>2, <1>4, <1>7, <1>8 DEF StoreTypeOK

\* An UPDATE changes one row of what its own connection reads, or nothing.  It
\* takes the lock from nobody.
LEMMA UpdateKeeps ==
  ASSUME StoreTypeOK, NEW p \in Procs, NEW j \in Jobs, NEW s \in JobStatus, UpdateStatus(p, j, s)
  PROVE  /\ StoreTypeOK'
         /\ db' = db
         /\ lock # NoProc => lock' = lock
         /\ inTx'[p]
         /\ \A q \in Procs : q # p => inTx'[q] = inTx[q]
         /\ \A q \in Procs : q # p => Rows(q)' = Rows(q) /\ snap'[q] = snap[q]
         /\ \A i \in Jobs : i # j => Rows(p)'[i] = Rows(p)[i]
         /\ Rows(p)'[j] \in {s, Rows(p)[j]}
         /\ Rows(p)[j] = "absent" => Rows(p)'[j] = "absent"
<1>1. Rows(p) \in Table
  BY RowsType
<1>2. inTx' = [inTx EXCEPT ![p] = TRUE] /\ db' = db
  BY DEF UpdateStatus
<1>3. inTx' \in [Procs -> BOOLEAN] /\ inTx'[p] /\ \A q \in Procs : q # p => inTx'[q] = inTx[q]
  BY <1>2 DEF StoreTypeOK
<1>4. CASE CanWrite(p)
  <2> DEFINE new == [Rows(p) EXCEPT ![j] = IF @ = "absent" THEN @ ELSE s]
  <2>1. new \in Table
    BY <1>1 DEF Table
  <2>2. /\ lock' = p
        /\ pinned' = [pinned EXCEPT ![p] = TRUE]
        /\ snap' = [snap EXCEPT ![p] = new]
    BY <1>4 DEF UpdateStatus
  <2> HIDE DEF new
  <2>3. pinned' \in [Procs -> BOOLEAN] /\ snap' \in [Procs -> Table]
    BY <2>1, <2>2 DEF StoreTypeOK
  <2>4. pinned'[p] /\ snap'[p] = new /\ \A q \in Procs : q # p => pinned'[q] = pinned[q] /\ snap'[q] = snap[q]
    BY <2>2 DEF StoreTypeOK
  <2>5. StoreTypeOK'
    BY <1>2, <1>3, <2>2, <2>3, <2>4 DEF StoreTypeOK
  <2>6. Rows(p)' = new /\ \A q \in Procs : q # p => Rows(q)' = Rows(q)
    BY <1>2, <2>4 DEF Rows
  <2>7. /\ new[j] \in {s, Rows(p)[j]} /\ (Rows(p)[j] = "absent" => new[j] = "absent")
        /\ \A i \in Jobs : i # j => new[i] = Rows(p)[i]
    BY <1>1 DEF new, Table
  <2>8. lock # NoProc => lock' = lock
    BY <1>4, <2>2 DEF CanWrite
  <2> QED
    BY <1>2, <1>3, <2>4, <2>5, <2>6, <2>7, <2>8
<1>5. CASE ~CanWrite(p)
  <2>1. UNCHANGED <<lock, pinned, snap, db>>
    BY <1>5 DEF UpdateStatus
  <2>2. StoreTypeOK'
    BY <2>1, <1>3 DEF StoreTypeOK
  <2>3. \A q \in Procs : Rows(q)' = Rows(q)
    BY <2>1 DEF Rows
  <2> QED
    BY <1>3, <2>1, <2>2, <2>3
<1> QED
  BY <1>4, <1>5

LEMMA BeginKeeps ==
  ASSUME StoreTypeOK, NEW p \in Procs, BeginImmediate(p)
  PROVE  /\ StoreTypeOK'
         /\ db' = db
         /\ lock = NoProc /\ lock' = p
         /\ inTx'[p] /\ snap'[p] = db
         /\ \A q \in Procs : q # p => inTx'[q] = inTx[q]
         /\ \A q \in Procs : Rows(q)' = Rows(q)
<1>1. /\ lock = NoProc /\ lock' = p /\ db' = db /\ ~inTx[p]
      /\ inTx' = [inTx EXCEPT ![p] = TRUE]
      /\ pinned' = [pinned EXCEPT ![p] = TRUE]
      /\ snap' = [snap EXCEPT ![p] = db]
  BY DEF BeginImmediate, CanBegin
<1>2. /\ inTx'[p] /\ pinned'[p] /\ snap'[p] = db
      /\ \A q \in Procs : q # p => inTx'[q] = inTx[q] /\ pinned'[q] = pinned[q] /\ snap'[q] = snap[q]
  BY <1>1 DEF StoreTypeOK
<1>3. StoreTypeOK'
  BY <1>1, <1>2 DEF StoreTypeOK
<1>4. \A q \in Procs : Rows(q)' = Rows(q)
  BY <1>1, <1>2 DEF Rows, StoreTypeOK
<1> QED
  BY <1>1, <1>2, <1>3, <1>4

\* The end of a transaction, whatever it leaves in the table.
LEMMA ReleaseKeeps ==
  ASSUME StoreTypeOK, NEW p \in Procs, Release(p), db' \in Table
  PROVE  /\ StoreTypeOK'
         /\ ~inTx'[p] /\ lock' # p
         /\ lock # p => lock' = lock
         /\ Rows(p)' = db'
         /\ \A q \in Procs : q # p => /\ inTx'[q] = inTx[q]
                                      /\ snap'[q] = snap[q] /\ pinned'[q] = pinned[q]
<1>1. /\ lock' = (IF lock = p THEN NoProc ELSE lock)
      /\ inTx' = [inTx EXCEPT ![p] = FALSE]
      /\ pinned' = [pinned EXCEPT ![p] = FALSE]
      /\ snap' = [snap EXCEPT ![p] = Empty]
  BY DEF Release
<1>2. Empty \in Table
  BY DEF Empty, Table
<1>3. /\ ~inTx'[p] /\ ~pinned'[p]
      /\ \A q \in Procs : q # p => inTx'[q] = inTx[q] /\ pinned'[q] = pinned[q] /\ snap'[q] = snap[q]
  BY <1>1 DEF StoreTypeOK
<1>4. lock' # p /\ (lock # p => lock' = lock) /\ lock' \in Procs \cup {NoProc}
  BY <1>1, StoreAssumption DEF StoreTypeOK
<1>5. inTx' \in [Procs -> BOOLEAN] /\ pinned' \in [Procs -> BOOLEAN] /\ snap' \in [Procs -> Table]
  BY <1>1, <1>2 DEF StoreTypeOK
<1>6. \A q \in Procs : (pinned'[q] => inTx'[q]) /\ (lock' = q => pinned'[q])
  BY <1>1, <1>3, <1>4, StoreAssumption DEF StoreTypeOK
<1>7. StoreTypeOK'
  BY <1>4, <1>5, <1>6 DEF StoreTypeOK
<1> QED
  BY <1>3, <1>4, <1>7 DEF Rows

-----------------------------------------------------------------------------
(* Frames: the parts of Inv that a step does not disturb *)

ReqStages == {"new"} \cup Underway \cup Ended
Stages    == Running \cup {"none", "done", "lost"}
Live      == Running \cup {"done"}

\* The stream only grows, at its end.
StreamGrows ==
  \/ stream' = stream
  \/ \E j \in Jobs : Len(stream) < MaxEntries /\ stream' = Append(stream, j)

LEMMA GrowsKeeps ==
  ASSUME TypeOK, StreamGrows
  PROVE  /\ stream' \in Seq(Jobs) /\ Len(stream') <= MaxEntries
         /\ Len(stream) <= Len(stream')
         /\ \A e \in 1 .. Len(stream) : stream'[e] = stream[e]
         /\ Published \subseteq Published'
<1>0. stream \in Seq(Jobs) /\ Len(stream) \in Nat /\ MaxEntries \in Nat /\ Len(stream) <= MaxEntries
  BY OutboxAssumption DEF TypeOK
<1>1. CASE stream' = stream
  BY <1>0, <1>1 DEF Published
<1>2. ASSUME NEW j \in Jobs, Len(stream) < MaxEntries, stream' = Append(stream, j)
      PROVE  /\ stream' \in Seq(Jobs) /\ Len(stream') <= MaxEntries
             /\ Len(stream) <= Len(stream')
             /\ \A e \in 1 .. Len(stream) : stream'[e] = stream[e]
  BY <1>0, <1>2
<1>3. ASSUME NEW j \in Jobs, Len(stream) < MaxEntries, stream' = Append(stream, j)
      PROVE  Published \subseteq Published'
  BY <1>0, <1>2, <1>3 DEF Published
<1> QED
  BY <1>1, <1>2, <1>3 DEF StreamGrows

\* A step in which no request begins to write or goes on writing.
LEMMA StoreFrame ==
  ASSUME StoreInv, StoreTypeOK', db' = db,
         \A r \in Requests : req'[r] \in Writing => req'[r] = req[r],
         \A r \in Requests : req'[r] \in Writing =>
                                lock' = lock /\ snap'[Home[r]] = snap[Home[r]]
  PROVE  StoreInv'
<1> USE DEF StoreInv
<1>1. OnlyPending' /\ KeyClaimedOnce'
  BY DEF OnlyPending, KeyClaimedOnce
<1>2. OneWriter'
  BY DEF OneWriter
<1>3. TxnAgrees'
  <2> SUFFICES ASSUME NEW r \in Requests, req'[r] \in Writing
               PROVE  /\ lock' = Home[r]
                      /\ req'[r] = "insert" => snap'[Home[r]] = db'
                      /\ req'[r] = "commit" =>
                           /\ r \in Jobs /\ db'[r] = "absent" /\ SameKey(db', r) = {}
                           /\ snap'[Home[r]] = [db' EXCEPT ![r] = "pending"]
    BY DEF TxnAgrees, Writing, SameKey
  <2>1. req'[r] = req[r] /\ lock' = lock /\ snap'[Home[r]] = snap[Home[r]]
    OBVIOUS
  <2> QED
    BY <2>1 DEF TxnAgrees, SameKey
<1> QED
  BY <1>1, <1>2, <1>3

\* What happens to an entry after a status has told the truth about it: nothing
\* is undone, and no failed entry with retries left is acknowledged.
OutcomesGrow ==
  /\ lastId <= lastId' /\ lastId' \in Nat
  /\ \A e \in 1 .. lastId : stream'[e] = stream[e]
  /\ succeeded \subseteq succeeded' /\ failed \subseteq failed'
  /\ acked \subseteq acked' /\ logged \subseteq logged'
  /\ \A e \in failed : e \in acked' => e \in acked \/ Exhausted(e)
  /\ \A j \in Jobs : DeadLettered(j) => DeadLettered(j)'

LEMMA StillTrue ==
  ASSUME TypeOK, OutcomesGrow, NEW j \in Jobs, NEW s \in Tracked, TrueStatus(j, s)
  PROVE  TrueStatus(j, s)'
<1>1. PICK e \in 1 .. lastId : stream[e] = j /\ Tells(e, s)
  BY DEF TrueStatus
<1>2. lastId \in Nat /\ e \in 1 .. lastId' /\ stream'[e] = j
  BY <1>1 DEF OutcomesGrow, TypeOK
<1>3. Exhausted(e)' <=> Exhausted(e)
  BY <1>1, <1>2 DEF Exhausted
<1>4. DeadLettered(stream[e]) => DeadLettered(stream[e])'
  <2>1. DeadLettered(j) => DeadLettered(j)'
    BY DEF OutcomesGrow
  <2> QED
    BY <1>1, <1>2, <2>1 DEF DeadLettered
<1>5. Tells(e, s)'
  BY <1>1, <1>3, <1>4 DEF Tells, OutcomesGrow
<1> QED
  BY <1>2, <1>5 DEF TrueStatus

\* Statuses stay true if those that are newly reported are.
LEMMA StatusFrame ==
  ASSUME TypeOK, StatusIsTrue, OutcomesGrow,
         \A j \in Jobs, s \in Tracked : Reported(j, s)' => Reported(j, s) \/ TrueStatus(j, s)'
  PROVE  StatusIsTrue'
BY StillTrue DEF StatusIsTrue

LEMMA GrowthFrame ==
  ASSUME TypeOK, StreamGrows, UNCHANGED taskVars
  PROVE  OutcomesGrow
<1>1. UNCHANGED <<lastId, acked, dlq, succeeded, failed, logged>>
  BY DEF taskVars, outcomes
<1>2. lastId \in Nat /\ \A e \in 1 .. lastId : stream'[e] = stream[e]
  BY GrowsKeeps DEF TypeOK
<1> QED
  BY <1>1, <1>2 DEF OutcomesGrow, DeadLettered

\* A step after which every connection reads what it read before.
LEMMA SameReads ==
  ASSUME TypeOK, StatusIsTrue, StreamGrows, UNCHANGED taskVars,
         db' = db, \A q \in Procs : Rows(q)' = Rows(q)
  PROVE  StatusIsTrue'
<1>1. \A j \in Jobs, s \in Tracked : Reported(j, s)' => Reported(j, s)
  BY DEF Reported
<1> QED
  BY <1>1, GrowthFrame, StatusFrame

\* A connection that is in a transaction still has the cause it had.
LEMMA LockFrame ==
  ASSUME EnqueueReleasesLock,
         \A p \in Procs : inTx'[p] => inTx[p],
         \A r \in Requests : req[r] \in Writing => req'[r] \in Writing \/ ~inTx'[Home[r]],
         \A e \in Entries : task[e] \in Live => (task'[e] \in Live /\ host'[e] = host[e])
                                             \/ ~inTx'[host[e]]
  PROVE  EnqueueReleasesLock'
BY DEF EnqueueReleasesLock, Writing, Live

LEMMA TaskFrame ==
  ASSUME TypeOK, TaskAgrees, StreamGrows, UNCHANGED taskVars
  PROVE  TaskAgrees'
<1>1. UNCHANGED <<lastId, task, host, acked, dlq, succeeded, failed>>
  BY DEF taskVars, outcomes
<1>2. \A e \in Entries : e <= lastId => stream'[e] = stream[e]
  BY GrowsKeeps DEF TypeOK, Entries
<1> SUFFICES ASSUME NEW e \in Entries PROVE ExecAgrees(e)'
  BY DEF TaskAgrees
<1>3. ExecAgrees(e)
  BY DEF TaskAgrees
<1>4. CASE task[e] = "none"
  BY <1>1, <1>3, <1>4 DEF ExecAgrees, Running
<1>5. CASE task[e] # "none"
  BY <1>1, <1>2, <1>3, <1>5 DEF ExecAgrees, Exhausted, DeadLettered
<1> QED
  BY <1>4, <1>5

LEMMA TypeFrame ==
  ASSUME TypeOK, StoreTypeOK', StreamGrows, UNCHANGED taskVars,
         req' \in [Requests -> ReqStages], faults' \in 0 .. MaxFaults
  PROVE  TypeOK'
<1>1. UNCHANGED <<lastId, task, host, acked, dlq, succeeded, failed, logged>>
  BY DEF taskVars, outcomes
<1>2. lastId' \in 0 .. Len(stream')
  BY <1>1, GrowsKeeps DEF TypeOK
<1> QED
  BY <1>1, <1>2, GrowsKeeps DEF TypeOK, ReqStages

-----------------------------------------------------------------------------
(* Requests *)

\* Every step of a request, and GET /jobs, that leaves the transactions alone.
LEMMA QuietStep ==
  ASSUME Inv, UNCHANGED taskVars, faults' \in 0 .. MaxFaults,
         req' \in [Requests -> ReqStages],
         \A r \in Requests : req'[r] # req[r] =>
            /\ req[r] \notin Writing /\ req'[r] \notin Writing
            /\ r \in Jobs /\ req'[r] = "xadd" => ~EnqueuerStore,
         UNCHANGED storeVars \/ \E p \in Procs : ~Blocked(p) /\ Select(p),
         \/ stream' = stream
         \/ \E r \in Jobs : req[r] = "xadd" /\ Len(stream) < MaxEntries /\ stream' = Append(stream, r)
  PROVE  Inv'
<1> USE DEF Inv
<1>1. StreamGrows
  BY DEF StreamGrows
<1>2. /\ StoreTypeOK' /\ UNCHANGED <<db, lock, inTx>>
      /\ \A q \in Procs : Rows(q)' = Rows(q)
      /\ \A r \in Requests : req[r] \in Writing => snap'[Home[r]] = snap[Home[r]]
  <2>1. CASE UNCHANGED storeVars
    BY <2>1 DEF storeVars, StoreInv, StoreTypeOK, Rows
  <2>2. ASSUME NEW p \in Procs, ~Blocked(p), Select(p)
        PROVE  /\ StoreTypeOK' /\ UNCHANGED <<db, lock, inTx>>
               /\ \A q \in Procs : Rows(q)' = Rows(q)
               /\ \A r \in Requests : req[r] \in Writing => snap'[Home[r]] = snap[Home[r]]
    <3>1. \A r \in Requests : req[r] \in Writing => Home[r] # p
      BY <2>2 DEF Blocked, Blocking, Writing
    <3>2. \A r \in Requests : Home[r] \in Procs
      BY OutboxAssumption
    <3> QED
      BY <2>2, <3>1, <3>2, SelectKeeps DEF StoreInv
  <2> QED
    BY <2>1, <2>2
<1>3. TypeOK'
  BY <1>1, <1>2, TypeFrame
<1>4. StoreInv'
  BY <1>2, StoreFrame
<1>5. TaskAgrees'
  BY <1>1, TaskFrame
<1>6. StatusIsTrue'
  BY <1>1, <1>2, SameReads
<1>7. EnqueueReleasesLock'
  <2>1. UNCHANGED <<task, host>>
    BY DEF taskVars
  <2>2. \A r \in Requests : req[r] \in Writing => req'[r] \in Writing
    OBVIOUS
  <2> QED
    BY <1>2, <2>1, <2>2, LockFrame
<1>8. ClaimedFirst'
  <2> SUFFICES ASSUME EnqueuerStore
               PROVE  /\ \A j \in Jobs : req'[j] = "xadd" => db'[j] # "absent"
                      /\ \A j \in Published' : db'[j] # "absent"
    BY DEF ClaimedFirst
  <2>1. \A j \in Jobs : req'[j] = "xadd" => db'[j] # "absent"
    BY <1>2 DEF ClaimedFirst, Requests
  <2>2. CASE stream' = stream
    BY <1>2, <2>1, <2>2 DEF ClaimedFirst, Published
  <2>3. ASSUME NEW r \in Jobs, req[r] = "xadd", stream' = Append(stream, r)
        PROVE  \A j \in Published' : db'[j] # "absent"
    <3>1. Published' \subseteq Published \cup {r}
      BY <2>3 DEF Published, TypeOK
    <3> QED
      BY <1>2, <2>3, <3>1 DEF ClaimedFirst
  <2> QED
    BY <2>1, <2>2, <2>3
<1> QED
  BY <1>3, <1>4, <1>5, <1>6, <1>7, <1>8

LEMMA GotoType ==
  ASSUME TypeOK, NEW r \in Requests, NEW s \in ReqStages, Goto(r, s)
  PROVE  /\ req' \in [Requests -> ReqStages]
         /\ req'[r] = s
         /\ \A q \in Requests : q # r => req'[q] = req[q]
BY DEF TypeOK, Goto, ReqStages

LEMMA BeginStep ==
  ASSUME Inv, NEW r \in Requests, req[r] = "begin", BeginImmediate(Home[r]), Goto(r, "insert"),
         UNCHANGED <<stream, taskVars, faults>>
  PROVE  Inv'
<1> USE DEF Inv
<1>0. Home[r] \in Procs
  BY OutboxAssumption
<1>1. /\ req' \in [Requests -> ReqStages] /\ req'[r] = "insert"
      /\ \A q \in Requests : q # r => req'[q] = req[q]
  BY GotoType DEF ReqStages, Underway, Blocking
<1>2. /\ StoreTypeOK' /\ db' = db
      /\ lock = NoProc /\ lock' = Home[r]
      /\ inTx'[Home[r]] /\ snap'[Home[r]] = db
      /\ \A q \in Procs : q # Home[r] => inTx'[q] = inTx[q]
      /\ \A q \in Procs : Rows(q)' = Rows(q)
  BY <1>0, BeginKeeps DEF StoreInv
<1>g. StreamGrows
  BY DEF StreamGrows
<1>3. TypeOK'
  BY <1>1, <1>2, <1>g, TypeFrame DEF TypeOK
<1>4. \A q \in Requests : req[q] \notin Writing
  <2>1. \A q \in Requests : Home[q] # NoProc
    BY OutboxAssumption, StoreAssumption
  <2> QED
    BY <1>2, <2>1 DEF StoreInv, TxnAgrees
<1>5. StoreInv'
  <2>1. \A q \in Requests : req'[q] \in Writing => q = r
    BY <1>1, <1>4
  <2>2. OneWriter'
    BY <2>1 DEF OneWriter
  <2>3. TxnAgrees'
    BY <1>1, <1>2, <2>1 DEF TxnAgrees, Writing
  <2>4. OnlyPending' /\ KeyClaimedOnce'
    BY <1>2 DEF StoreInv, OnlyPending, KeyClaimedOnce
  <2> QED
    BY <1>2, <2>2, <2>3, <2>4 DEF StoreInv
<1>6. TaskAgrees'
  BY <1>g, TaskFrame
<1>7. StatusIsTrue'
  BY <1>2, <1>g, SameReads
<1>8. EnqueueReleasesLock'
  <2> SUFFICES ASSUME NEW p \in Procs, inTx'[p]
               PROVE  \/ \E q \in Requests : Home[q] = p /\ req'[q] \in {"insert", "commit"}
                      \/ ExecutorStore /\ \E e \in Entries : host'[e] = p /\ task'[e] \in Running \cup {"done"}
    BY DEF EnqueueReleasesLock
  <2>1. CASE p = Home[r]
    BY <1>1, <2>1
  <2>2. CASE p # Home[r]
    BY <1>2, <1>4, <2>2 DEF EnqueueReleasesLock, Writing, taskVars
  <2> QED
    BY <2>1, <2>2
<1>9. ClaimedFirst'
  BY <1>1, <1>2 DEF ClaimedFirst, Published, Requests
<1> QED
  BY <1>3, <1>5, <1>6, <1>7, <1>8, <1>9

LEMMA InsertStep ==
  ASSUME Inv, NEW r \in Requests, req[r] = "insert", r \in Jobs, ~Violates(Home[r], r),
         InsertOutbox(Home[r], r), Goto(r, "commit"), UNCHANGED <<stream, taskVars, faults>>
  PROVE  Inv'
<1> USE DEF Inv
<1>0. Home[r] \in Procs
  BY OutboxAssumption
<1>1. /\ req' \in [Requests -> ReqStages] /\ req'[r] = "commit"
      /\ \A q \in Requests : q # r => req'[q] = req[q]
  BY GotoType DEF ReqStages, Underway, Blocking
<1>2. lock = Home[r] /\ snap[Home[r]] = db /\ pinned[Home[r]]
  BY <1>0 DEF StoreInv, StoreTypeOK, TxnAgrees, Writing
<1>3. /\ UNCHANGED <<db, lock, inTx, pinned>>
      /\ snap' = [snap EXCEPT ![Home[r]][r] = "pending"]
  BY DEF InsertOutbox
<1>4. /\ db[r] = "absent" /\ SameKey(db, r) = {}
  BY <1>2 DEF Violates
<1>5. /\ snap'[Home[r]] = [db EXCEPT ![r] = "pending"]
      /\ \A q \in Procs : q # Home[r] => snap'[q] = snap[q]
      /\ snap' \in [Procs -> Table]
  BY <1>0, <1>2, <1>3 DEF StoreInv, StoreTypeOK, Table, JobStatus
<1>6. StoreTypeOK'
  BY <1>3, <1>5 DEF StoreInv, StoreTypeOK
<1>g. StreamGrows
  BY DEF StreamGrows
<1>7. TypeOK'
  BY <1>1, <1>6, <1>g, TypeFrame DEF TypeOK
<1>8. \A q \in Requests : req[q] \in Writing => q = r
  BY DEF StoreInv, OneWriter, Writing
<1>9. StoreInv'
  <2>1. \A q \in Requests : req'[q] \in Writing => q = r
    BY <1>1, <1>8
  <2>2. OneWriter'
    BY <2>1 DEF OneWriter
  <2>3. TxnAgrees'
    <3>1. lock' = Home[r] /\ db' = db /\ SameKey(db', r) = {} /\ req'[r] = "commit"
      BY <1>1, <1>2, <1>3, <1>4
    <3>2. snap'[Home[r]] = [db' EXCEPT ![r] = "pending"]
      BY <1>3, <1>5
    <3>3. \A q \in Requests : q # r => req'[q] \notin Writing
      BY <2>1
    <3> QED
      <4> SUFFICES ASSUME NEW q \in Requests, req'[q] \in Writing
                   PROVE  /\ lock' = Home[q]
                          /\ req'[q] = "insert" => snap'[Home[q]] = db'
                          /\ req'[q] = "commit" =>
                               /\ q \in Jobs /\ db'[q] = "absent" /\ SameKey(db', q) = {}
                               /\ snap'[Home[q]] = [db' EXCEPT ![q] = "pending"]
        BY DEF TxnAgrees, Writing, SameKey
      <4>1. q = r
        BY <3>3
      <4> QED
        BY <1>4, <3>1, <3>2, <4>1
  <2>4. OnlyPending' /\ KeyClaimedOnce'
    BY <1>3 DEF StoreInv, OnlyPending, KeyClaimedOnce
  <2> QED
    BY <1>6, <2>2, <2>3, <2>4 DEF StoreInv
<1>10. TaskAgrees'
  BY <1>g, TaskFrame
<1>11. StatusIsTrue'
  <2>1. \A q \in Procs : q # Home[r] => Rows(q)' = Rows(q)
    BY <1>3, <1>5 DEF Rows
  <2>2. Rows(Home[r])' = [db EXCEPT ![r] = "pending"]
    BY <1>2, <1>3, <1>5 DEF Rows
  <2>3. \A j \in Jobs : Rows(Home[r])'[j] \in {"pending", db[j]}
    BY <2>2 DEF TypeOK, StoreTypeOK, Table
  <2>4. \A j \in Jobs, s \in Tracked : Reported(j, s)' => Reported(j, s)
    BY <1>3, <2>1, <2>3 DEF Reported, Tracked
  <2> QED
    BY <1>g, <2>4, GrowthFrame, StatusFrame
<1>12. EnqueueReleasesLock'
  BY <1>1, <1>3, <1>8, LockFrame DEF taskVars, Writing
<1>13. ClaimedFirst'
  BY <1>1, <1>3 DEF ClaimedFirst, Published, Requests
<1> QED
  BY <1>7, <1>9, <1>10, <1>11, <1>12, <1>13

\* Committing the row of r claims its key for r alone.
LEMMA CommitStep ==
  ASSUME Inv, NEW r \in Requests, CommitRow(r)
  PROVE  /\ Inv'
         /\ r \in Jobs /\ db[r] = "absent" /\ SameKey(db, r) = {}
         /\ db' = [db EXCEPT ![r] = "pending"]
<1> USE DEF Inv
<1>0. Home[r] \in Procs /\ req[r] = "commit"
  BY OutboxAssumption DEF CommitRow
<1>1. /\ req' \in [Requests -> ReqStages] /\ req'[r] = "xadd"
      /\ \A q \in Requests : q # r => req'[q] = req[q]
  BY GotoType DEF CommitRow, ReqStages, Underway
<1>2. /\ lock = Home[r] /\ r \in Jobs /\ db[r] = "absent" /\ SameKey(db, r) = {}
      /\ snap[Home[r]] = [db EXCEPT ![r] = "pending"]
  BY <1>0 DEF StoreInv, TxnAgrees, Writing
<1>3. db' = [db EXCEPT ![r] = "pending"] /\ Release(Home[r])
  BY <1>2 DEF CommitRow, Commit
<1>4. db' \in Table /\ db'[r] = "pending" /\ \A j \in Jobs : j # r => db'[j] = db[j]
  BY <1>2, <1>3 DEF StoreInv, StoreTypeOK, Table, JobStatus
<1>5. /\ StoreTypeOK'
      /\ ~inTx'[Home[r]]
      /\ Rows(Home[r])' = db'
      /\ \A q \in Procs : q # Home[r] =>
            inTx'[q] = inTx[q] /\ snap'[q] = snap[q] /\ pinned'[q] = pinned[q]
  BY <1>0, <1>3, <1>4, ReleaseKeeps DEF StoreInv
<1>u. UNCHANGED <<stream, taskVars, faults>>
  BY DEF CommitRow
<1>g. StreamGrows
  BY <1>u DEF StreamGrows
<1>6. TypeOK'
  BY <1>1, <1>5, <1>u, <1>g, TypeFrame DEF TypeOK
<1>7. \A q \in Requests : req[q] \in Writing => q = r
  BY <1>0 DEF StoreInv, OneWriter, Writing
<1>8. \A q \in Requests : req'[q] \notin Writing
  BY <1>1, <1>7 DEF Writing
<1>9. StoreInv'
  <2>1. OneWriter' /\ TxnAgrees'
    BY <1>8 DEF OneWriter, TxnAgrees, Writing
  <2>2. OnlyPending'
    BY <1>4 DEF StoreInv, OnlyPending
  <2>3. KeyClaimedOnce'
    <3>1. \A i \in Jobs : db[i] # "absent" /\ Key[i] = Key[r] => Key[r] = NoKey
      BY <1>2 DEF SameKey
    <3> QED
      BY <1>4, <3>1 DEF StoreInv, KeyClaimedOnce
  <2> QED
    BY <1>5, <2>1, <2>2, <2>3 DEF StoreInv
<1>10. TaskAgrees'
  BY <1>g, <1>u, TaskFrame
<1>11. StatusIsTrue'
  <2>1. \A j \in Jobs : db'[j] \in {"pending", db[j]}
    BY <1>4 DEF TypeOK, StoreTypeOK, Table
  <2>2. ASSUME NEW q \in Procs PROVE Rows(q)' = db' \/ Rows(q)' = Rows(q)
    BY <1>5 DEF Rows
  <2>3. \A j \in Jobs, s \in Tracked : Reported(j, s)' => Reported(j, s)
    BY <2>1, <2>2 DEF Reported, Tracked
  <2> QED
    BY <1>g, <1>u, <2>3, GrowthFrame, StatusFrame
<1>12. EnqueueReleasesLock'
  <2>1. \A q \in Requests : req[q] \in Writing => ~inTx'[Home[q]]
    BY <1>5, <1>7
  <2>2. \A p \in Procs : inTx'[p] => inTx[p]
    BY <1>5
  <2> QED
    BY <1>u, <2>1, <2>2, LockFrame DEF taskVars
<1>13. ClaimedFirst'
  <2>1. Published' = Published /\ Published \subseteq Jobs
    BY <1>u DEF Published, TypeOK
  <2>2. \A j \in Jobs : db[j] # "absent" => db'[j] # "absent"
    BY <1>4
  <2>3. \A j \in Jobs : req'[j] = "xadd" => req[j] = "xadd" \/ j = r
    BY <1>1 DEF Requests
  <2> QED
    BY <1>4, <2>1, <2>2, <2>3 DEF ClaimedFirst
<1> QED
  BY <1>2, <1>3, <1>6, <1>9, <1>10, <1>11, <1>12, <1>13

\* Rolling back the transaction of r.
LEMMA RollbackStep ==
  ASSUME Inv, NEW r \in Requests, req[r] = "insert", Rollback(Home[r]), Goto(r, "error"),
         UNCHANGED <<stream, taskVars, faults>>
  PROVE  Inv'
<1> USE DEF Inv
<1>0. Home[r] \in Procs
  BY OutboxAssumption
<1>1. /\ req' \in [Requests -> ReqStages] /\ req'[r] = "error"
      /\ \A q \in Requests : q # r => req'[q] = req[q]
  BY GotoType DEF ReqStages, Ended
<1>2. db' = db /\ Release(Home[r]) /\ db' \in Table
  BY DEF Rollback, StoreInv, StoreTypeOK
<1>3. lock = Home[r] /\ snap[Home[r]] = db /\ pinned[Home[r]]
  BY <1>0 DEF StoreInv, StoreTypeOK, TxnAgrees, Writing
<1>5. /\ StoreTypeOK'
      /\ ~inTx'[Home[r]]
      /\ Rows(Home[r])' = db'
      /\ \A q \in Procs : q # Home[r] =>
            inTx'[q] = inTx[q] /\ snap'[q] = snap[q] /\ pinned'[q] = pinned[q]
  BY <1>0, <1>2, ReleaseKeeps DEF StoreInv
<1>g. StreamGrows
  BY DEF StreamGrows
<1>6. TypeOK'
  BY <1>1, <1>5, <1>g, TypeFrame DEF TypeOK
<1>7. \A q \in Requests : req[q] \in Writing => q = r
  BY DEF StoreInv, OneWriter, Writing
<1>8. \A q \in Requests : req'[q] \notin Writing
  BY <1>1, <1>7 DEF Writing
<1>9. StoreInv'
  BY <1>2, <1>5, <1>8, StoreFrame
<1>10. TaskAgrees'
  BY <1>g, TaskFrame
<1>11. StatusIsTrue'
  <2>1. \A q \in Procs : Rows(q)' = Rows(q)
    BY <1>2, <1>3, <1>5 DEF Rows
  <2> QED
    BY <1>2, <1>g, <2>1, SameReads
<1>12. EnqueueReleasesLock'
  <2>1. \A q \in Requests : req[q] \in Writing => ~inTx'[Home[q]]
    BY <1>5, <1>7
  <2>2. \A p \in Procs : inTx'[p] => inTx[p]
    BY <1>5
  <2> QED
    BY <2>1, <2>2, LockFrame DEF taskVars
<1>13. ClaimedFirst'
  BY <1>1, <1>2 DEF ClaimedFirst, Published, Requests
<1> QED
  BY <1>6, <1>9, <1>10, <1>11, <1>12, <1>13

-----------------------------------------------------------------------------
(* Executions *)

\* update_status disturbs no request that is writing, and no other connection.
LEMMA TrackKeeps ==
  ASSUME Inv, NEW p \in Procs, ~Blocked(p), NEW j \in Jobs, NEW s \in JobStatus,
         Track(p, j, s), req' = req
  PROVE  /\ StoreInv' /\ db' = db
         /\ \A q \in Procs : inTx'[q] => inTx[q] \/ (q = p /\ ExecutorStore)
         /\ \A q \in Procs : q # p => Rows(q)' = Rows(q)
         /\ \A i \in Jobs : i # j => Rows(p)'[i] = Rows(p)[i]
         /\ Rows(p)'[j] \in {s, Rows(p)[j]}
<1> USE DEF Inv
<1>1. CASE ExecutorStore
  <2>1. UpdateStatus(p, j, s)
    BY <1>1 DEF Track
  <2>2. /\ StoreTypeOK' /\ db' = db /\ (lock # NoProc => lock' = lock)
        /\ \A q \in Procs : q # p => inTx'[q] = inTx[q]
        /\ \A q \in Procs : q # p => Rows(q)' = Rows(q) /\ snap'[q] = snap[q]
        /\ \A i \in Jobs : i # j => Rows(p)'[i] = Rows(p)[i]
        /\ Rows(p)'[j] \in {s, Rows(p)[j]}
    BY <2>1, UpdateKeeps DEF StoreInv
  <2>3. \A r \in Requests : req[r] \in Writing => Home[r] # p /\ Home[r] \in Procs /\ lock = Home[r]
    BY OutboxAssumption DEF Blocked, Blocking, Writing, StoreInv, TxnAgrees
  <2>4. \A r \in Requests : req'[r] \in Writing => lock' = lock /\ snap'[Home[r]] = snap[Home[r]]
    BY <2>2, <2>3, StoreAssumption
  <2>5. StoreInv'
    BY <2>2, <2>4, StoreFrame
  <2> QED
    BY <1>1, <2>2, <2>5
<1>2. CASE ~ExecutorStore
  <2>1. UNCHANGED <<db, lock, inTx, pinned, snap>>
    BY <1>2 DEF Track, storeVars
  <2>2. StoreTypeOK'
    BY <2>1 DEF StoreInv, StoreTypeOK
  <2>3. StoreInv'
    BY <2>1, <2>2, StoreFrame
  <2>4. \A q \in Procs : Rows(q)' = Rows(q)
    BY <2>1 DEF Rows
  <2> QED
    BY <2>1, <2>3, <2>4
<1> QED
  BY <1>1, <1>2

\* What it writes is true, so what is read stays true.
LEMMA TrackStatus ==
  ASSUME Inv, NEW p \in Procs, ~Blocked(p), NEW j \in Jobs, NEW s \in Tracked,
         Track(p, j, s), req' = req, TrueStatus(j, s)', OutcomesGrow
  PROVE  StatusIsTrue'
<1>1. /\ db' = db
      /\ \A q \in Procs : q # p => Rows(q)' = Rows(q)
      /\ \A i \in Jobs : i # j => Rows(p)'[i] = Rows(p)[i]
      /\ Rows(p)'[j] \in {s, Rows(p)[j]}
  BY TrackKeeps DEF Tracked, JobStatus
<1>2. ASSUME NEW i \in Jobs, NEW t \in Tracked, Reported(i, t)'
      PROVE  Reported(i, t) \/ TrueStatus(i, t)'
  <2>1. Reported(i, t) \/ (i = j /\ t = s)
    BY <1>1, <1>2 DEF Reported
  <2> QED
    BY <2>1
<1> QED
  BY <1>2, StatusFrame DEF Inv

\* A step of the execution of entry e, from one await to the next.
LEMMA ExecutionStep ==
  ASSUME Inv, NEW e \in Entries, task[e] \in Running, ~Blocked(host[e]),
         NEW s \in Live, Step(e, s),
         UNCHANGED <<req, stream, lastId, host>>, dlq' \in Seq(Jobs), faults' \in 0 .. MaxFaults,
         acked' \in {acked, acked \cup {e}}, logged' \in {logged, logged \cup {e}},
         succeeded' \in {succeeded, succeeded \cup {e}}, failed' \in {failed, failed \cup {e}},
         OutcomesGrow,
         \/ UNCHANGED storeVars
         \/ \E st \in Tracked : Track(host[e], stream[e], st) /\ TrueStatus(stream[e], st)',
         ExecAgrees(e)'
  PROVE  Inv'
<1> USE DEF Inv
<1>0. host[e] \in Procs /\ e <= lastId /\ stream[e] \in Jobs
  BY DEF TaskAgrees, ExecAgrees, TypeOK, Entries, Running
<1>1. /\ task' \in [Entries -> Stages] /\ task'[e] = s
      /\ \A d \in Entries : d # e => task'[d] = task[d]
  BY DEF TypeOK, Step, Stages, Live
<1>2. /\ StoreInv' /\ db' = db
      /\ \A q \in Procs : inTx'[q] => inTx[q] \/ (q = host[e] /\ ExecutorStore)
  <2>1. CASE UNCHANGED storeVars
    <3>1. UNCHANGED <<db, lock, inTx, pinned, snap>>
      BY <2>1 DEF storeVars
    <3>2. StoreTypeOK'
      BY <3>1 DEF StoreInv, StoreTypeOK
    <3> QED
      BY <3>1, <3>2, StoreFrame
  <2>2. CASE \E st \in Tracked : Track(host[e], stream[e], st)
    BY <1>0, <2>2, TrackKeeps DEF Tracked, JobStatus
  <2> QED
    BY <2>1, <2>2
<1>3. TypeOK'
  BY <1>1, <1>2 DEF TypeOK, StoreInv, Stages
<1>4. ClaimedFirst'
  BY <1>2 DEF ClaimedFirst, Published
<1>5. TaskAgrees'
  <2> SUFFICES ASSUME NEW d \in Entries, d # e PROVE ExecAgrees(d)'
    BY DEF TaskAgrees
  <2>1. ExecAgrees(d) /\ (task[d] = "dlqack" => stream[d] \in Jobs)
    BY DEF TaskAgrees, ExecAgrees, TypeOK, Entries
  <2>2. task[d] = "dlqack" => DeadLettered(stream[d])'
    <3>1. ASSUME NEW j \in Jobs, j = stream[d], DeadLettered(j) PROVE DeadLettered(stream[d])'
      BY <3>1 DEF OutcomesGrow, DeadLettered
    <3> QED
      BY <2>1, <3>1 DEF ExecAgrees
  <2> QED
    BY <1>1, <2>1, <2>2 DEF ExecAgrees, Exhausted
<1>6. StatusIsTrue'
  <2>1. CASE UNCHANGED storeVars
    <3>1. \A j \in Jobs, st \in Tracked : Reported(j, st)' => Reported(j, st)
      BY <2>1 DEF storeVars, Reported, Rows
    <3> QED
      BY <3>1, StatusFrame
  <2>2. CASE \E st \in Tracked : Track(host[e], stream[e], st) /\ TrueStatus(stream[e], st)'
    <3>1. PICK st \in Tracked : Track(host[e], stream[e], st) /\ TrueStatus(stream[e], st)'
      BY <2>2
    <3>2. PICK j \in Jobs : j = stream[e]
      BY <1>0
    <3>3. TrueStatus(j, st)'
      BY <3>1, <3>2 DEF TrueStatus
    <3> QED
      BY <1>0, <3>1, <3>2, <3>3, TrackStatus
  <2> QED
    BY <2>1, <2>2
<1>7. EnqueueReleasesLock'
  <2>1. \A d \in Entries : task[d] \in Live => task'[d] \in Live /\ host'[d] = host[d]
    BY <1>1
  <2>2. e \in Entries /\ host'[e] = host[e] /\ task'[e] \in Running \cup {"done"}
    BY <1>1 DEF Live
  <2> QED
    BY <1>2, <2>1, <2>2 DEF EnqueueReleasesLock, Live
<1> QED
  BY <1>2, <1>3, <1>4, <1>5, <1>6, <1>7

LEMMA StartStep ==
  ASSUME Inv, NEW p \in Procs, Start(p)
  PROVE  Inv'
<1> USE DEF Inv
<1>e. PICK e \in Entries : e = lastId + 1 /\ e \in 1 .. Len(stream)
  BY OutboxAssumption DEF Start, TypeOK, Entries
<1>0. lastId \in Nat /\ lastId' = e /\ stream[e] \in Jobs
  BY <1>e DEF Start, TypeOK
<1>u. UNCHANGED <<req, stream, acked, dlq, succeeded, failed, logged, faults>>
  BY DEF Start, outcomes
<1>1. /\ task' = [task EXCEPT ![e] = "handler"] /\ host' = [host EXCEPT ![e] = p]
      /\ Track(p, stream[e], "processing") /\ ~Blocked(p)
  BY <1>0 DEF Start, Step
<1>2. task[e] = "none"
  <2>1. ~(e <= lastId)
    BY <1>0, <1>e
  <2> QED
    BY <2>1 DEF TaskAgrees, ExecAgrees
<1>3. /\ task'[e] = "handler" /\ host'[e] = p
      /\ \A d \in Entries : d # e => task'[d] = task[d] /\ host'[d] = host[d]
      /\ task' \in [Entries -> Stages] /\ host' \in [Entries -> Procs \cup {NoProc}]
  BY <1>0, <1>1 DEF TypeOK, Stages, Running
<1>4. /\ StoreInv' /\ db' = db
      /\ \A q \in Procs : inTx'[q] => inTx[q] \/ (q = p /\ ExecutorStore)
  BY <1>0, <1>1, <1>u, TrackKeeps DEF JobStatus
<1>5. TypeOK'
  <2>1. lastId' \in 0 .. Len(stream')
    BY <1>0, <1>e, <1>u
  <2> QED
    BY <1>3, <1>4, <1>u, <2>1 DEF TypeOK, StoreInv, Stages
<1>6. ClaimedFirst'
  BY <1>4, <1>u DEF ClaimedFirst, Published
<1>7. TaskAgrees'
  <2>1. \A d \in Entries : d <= lastId => d <= lastId'
    BY <1>0, <1>e DEF Entries
  <2>2. e <= lastId'
    BY <1>0 DEF Entries
  <2> SUFFICES ASSUME NEW d \in Entries PROVE ExecAgrees(d)'
    BY DEF TaskAgrees
  <2>d. ExecAgrees(d)
    BY DEF TaskAgrees
  <2>3. CASE d = e
    BY <1>2, <1>3, <1>u, <2>2, <2>3, <2>d DEF ExecAgrees
  <2>4. CASE d # e
    BY <1>3, <1>u, <2>1, <2>4, <2>d DEF ExecAgrees, Exhausted, DeadLettered
  <2> QED
    BY <2>3, <2>4
<1>8. StatusIsTrue'
  <2>1. OutcomesGrow
    BY <1>0, <1>e, <1>u DEF OutcomesGrow, DeadLettered
  <2>2. PICK j \in Jobs : j = stream[e]
    BY <1>0
  <2>3. TrueStatus(j, "processing")'
    BY <1>0, <1>e, <1>u, <2>2 DEF TrueStatus, Tells
  <2> QED
    BY <1>0, <1>1, <1>u, <2>1, <2>2, <2>3, TrackStatus DEF Tracked
<1>9. EnqueueReleasesLock'
  <2>1. \A d \in Entries : task[d] \in Live => task'[d] \in Live /\ host'[d] = host[d]
    BY <1>2, <1>3 DEF Live, Running
  <2>2. e \in Entries /\ host'[e] = p /\ task'[e] \in Running \cup {"done"}
    BY <1>0, <1>3 DEF Running
  <2> QED
    BY <1>4, <1>u, <2>1, <2>2 DEF EnqueueReleasesLock, Live
<1> QED
  BY <1>4, <1>5, <1>6, <1>7, <1>8, <1>9

-----------------------------------------------------------------------------

\* The death of a process takes its requests, executions and transaction along.
LEMMA CrashStep ==
  ASSUME Inv, NEW p \in Procs, Crash(p)
  PROVE  Inv'
<1> USE DEF Inv
<1>u. UNCHANGED <<stream, lastId, host, acked, dlq, succeeded, failed, logged, db>> /\ Release(p)
  BY DEF Crash, Disconnect, outcomes
<1>1. /\ StoreTypeOK' /\ ~inTx'[p]
      /\ lock # p => lock' = lock
      /\ Rows(p)' = db'
      /\ \A q \in Procs : q # p => inTx'[q] = inTx[q] /\ snap'[q] = snap[q] /\ pinned'[q] = pinned[q]
  <2>1. db' \in Table
    BY <1>u DEF StoreInv, StoreTypeOK
  <2> QED
    BY <1>u, <2>1, ReleaseKeeps DEF StoreInv
<1>2. /\ req' \in [Requests -> ReqStages]
      /\ \A r \in Requests : req'[r] \in {req[r], "lost"}
      /\ \A r \in Requests : Home[r] = p /\ req[r] \in Underway => req'[r] = "lost"
      /\ \A r \in Requests : Home[r] # p => req'[r] = req[r]
  BY DEF Crash, TypeOK, ReqStages, Ended
<1>3. /\ task' \in [Entries -> Stages]
      /\ \A e \in Entries : task'[e] \in {task[e], "lost"}
      /\ \A e \in Entries : task'[e] # task[e] => task[e] \in Live
      /\ \A e \in Entries : host[e] # p => task'[e] = task[e]
  BY DEF Crash, TypeOK, Stages, Live
<1>4. TypeOK'
  <2>1. faults' \in 0 .. MaxFaults
    BY OutboxAssumption DEF Crash, Fault, TypeOK
  <2> QED
    BY <1>1, <1>2, <1>3, <1>u, <2>1 DEF TypeOK, ReqStages, Stages
<1>5. StoreInv'
  <2>1. \A r \in Requests : req'[r] \in Writing => req'[r] = req[r] /\ Home[r] # p /\ Home[r] \in Procs
    BY <1>2, OutboxAssumption DEF Writing, Underway, Blocking
  <2>2. \A r \in Requests : req'[r] \in Writing => lock = Home[r]
    BY <2>1 DEF StoreInv, TxnAgrees
  <2> QED
    BY <1>1, <1>u, <2>1, <2>2, StoreFrame
<1>6. ClaimedFirst'
  BY <1>2, <1>u DEF ClaimedFirst, Published, Requests
<1>7. TaskAgrees'
  <2> SUFFICES ASSUME NEW e \in Entries PROVE ExecAgrees(e)'
    BY DEF TaskAgrees
  <2>e. ExecAgrees(e)
    BY DEF TaskAgrees
  <2>1. CASE task'[e] = task[e]
    BY <1>u, <2>1, <2>e DEF ExecAgrees, Exhausted, DeadLettered
  <2>2. CASE task'[e] = "lost" /\ task[e] \in Live
    BY <1>u, <2>2, <2>e DEF ExecAgrees, Live, Running
  <2> QED
    BY <1>3, <2>1, <2>2
<1>8. StatusIsTrue'
  <2>1. OutcomesGrow
    BY <1>u DEF OutcomesGrow, DeadLettered, TypeOK
  <2>2. \A q \in Procs : Rows(q)' \in {db, Rows(q)}
    BY <1>1, <1>u DEF Rows
  <2>3. \A j \in Jobs, s \in Tracked : Reported(j, s)' => Reported(j, s)
    BY <1>u, <2>2 DEF Reported
  <2> QED
    BY <2>1, <2>3, StatusFrame
<1>9. EnqueueReleasesLock'
  <2> SUFFICES ASSUME NEW q \in Procs, inTx'[q]
               PROVE  \/ \E r \in Requests : Home[r] = q /\ req'[r] \in {"insert", "commit"}
                      \/ ExecutorStore /\ \E e \in Entries : host'[e] = q /\ task'[e] \in Running \cup {"done"}
    BY DEF EnqueueReleasesLock
  <2>1. q # p /\ inTx[q]
    BY <1>1
  <2>2. CASE \E r \in Requests : Home[r] = q /\ req[r] \in {"insert", "commit"}
    BY <1>2, <2>1, <2>2
  <2>3. CASE ExecutorStore /\ \E e \in Entries : host[e] = q /\ task[e] \in Running \cup {"done"}
    BY <1>3, <1>u, <2>1, <2>3
  <2> QED
    BY <2>1, <2>2, <2>3 DEF EnqueueReleasesLock
<1> QED
  BY <1>4, <1>5, <1>6, <1>7, <1>8, <1>9

LEMMA RequestInv ==
  ASSUME Inv, NEW r \in Requests, RequestStep(r) \/ XAddError(r)
  PROVE  Inv'
<1>0. /\ Home[r] \in Procs /\ TypeOK /\ faults \in 0 .. MaxFaults
      /\ req \in [Requests -> ReqStages]
  BY OutboxAssumption DEF Inv, TypeOK, ReqStages
<1>q. ASSUME NEW s \in ReqStages, Goto(r, s), req[r] \notin Writing, s \notin Writing,
             r \in Jobs /\ s = "xadd" => ~EnqueuerStore
      PROVE  /\ req' \in [Requests -> ReqStages]
             /\ \A q \in Requests : req'[q] # req[q] =>
                  /\ req[q] \notin Writing /\ req'[q] \notin Writing
                  /\ q \in Jobs /\ req'[q] = "xadd" => ~EnqueuerStore
  BY <1>0, <1>q, GotoType
<1>1. CASE Fetch(r)
  <2>1. PICK s \in {"found", "missing"} : Goto(r, s)
    BY <1>1 DEF Fetch
  <2>2. req[r] \notin Writing /\ UNCHANGED <<storeVars, stream, taskVars, faults>>
    BY <1>1 DEF Fetch, Writing
  <2>3. s \in ReqStages /\ s \notin Writing /\ s # "xadd"
    BY DEF ReqStages, Underway, Ended, Writing
  <2> QED
    BY <1>0, <1>q, <2>1, <2>2, <2>3, QuietStep
<1>2. CASE Check(r)
  <2>1. req[r] \notin Writing /\ UNCHANGED <<stream, taskVars, faults>> /\ ~Blocked(Home[r])
    BY <1>2 DEF Check, Writing
  <2>2. PICK s \in {"full", "xadd", "conflict", "begin"} :
             Goto(r, s) /\ (s = "xadd" => ~EnqueuerStore)
    BY <1>2 DEF Check
  <2>3. UNCHANGED storeVars \/ \E p \in Procs : ~Blocked(p) /\ Select(p)
    BY <1>0, <1>2, <2>1 DEF Check
  <2>4. s \in ReqStages /\ s \notin Writing
    BY DEF ReqStages, Underway, Ended, Blocking, Writing
  <2> QED
    BY <1>0, <1>q, <2>1, <2>2, <2>3, <2>4, QuietStep
<1>3. CASE Begin(r)
  <2>1. req[r] = "begin" /\ UNCHANGED <<stream, taskVars, faults>>
    BY <1>3 DEF Begin
  <2>2. CASE BeginImmediate(Home[r]) /\ Goto(r, "insert")
    BY <2>1, <2>2, BeginStep
  <2>3. CASE Goto(r, "error") /\ UNCHANGED storeVars
    <3>1. "error" \in ReqStages /\ "error" \notin Writing /\ req[r] \notin Writing
      BY <2>1 DEF ReqStages, Ended, Writing
    <3> QED
      BY <1>0, <1>q, <2>1, <2>3, <3>1, QuietStep
  <2> QED
    BY <1>3, <2>2, <2>3 DEF Begin
<1>4. CASE Insert(r)
  <2>1. req[r] = "insert" /\ UNCHANGED <<stream, taskVars, faults>>
    BY <1>4 DEF Insert
  <2>2. CASE ~InsertRaises(r) /\ InsertOutbox(Home[r], r) /\ Goto(r, "commit")
    BY <2>1, <2>2, InsertStep DEF InsertRaises
  <2>3. CASE Rollback(Home[r]) /\ Goto(r, "error")
    BY <2>1, <2>3, RollbackStep
  <2> QED
    BY <1>4, <2>2, <2>3 DEF Insert
<1>5. CASE CommitRow(r)
  BY <1>5, CommitStep
<1>6. CASE XAdd(r)
  <2>1. req[r] = "xadd" /\ UNCHANGED <<storeVars, taskVars, faults>>
    BY <1>6 DEF XAdd
  <2>2. \E s \in {"accepted", "error"} : Goto(r, s)
    BY <1>6 DEF XAdd
  <2>3. \/ stream' = stream
        \/ r \in Jobs /\ Len(stream) < MaxEntries /\ stream' = Append(stream, r)
    BY <1>6 DEF XAdd, Publish
  <2>4. PICK s \in {"accepted", "error"} : Goto(r, s)
    BY <2>2
  <2>5. s \in ReqStages /\ s \notin Writing /\ s # "xadd" /\ req[r] \notin Writing
    BY <2>1 DEF ReqStages, Ended, Writing
  <2> QED
    BY <1>0, <1>q, <2>1, <2>3, <2>4, <2>5, QuietStep
<1>7. CASE XAddError(r)
  <2>1. req[r] = "xadd" /\ UNCHANGED <<storeVars, taskVars>> /\ r \in Jobs
    BY <1>7 DEF XAddError
  <2>2. faults' \in 0 .. MaxFaults
    BY <1>0, <1>7, OutboxAssumption DEF XAddError, Fault
  <2>3. \/ stream' = stream
        \/ r \in Jobs /\ Len(stream) < MaxEntries /\ stream' = Append(stream, r)
    BY <1>7 DEF XAddError, Publish
  <2>4. "error" \in ReqStages /\ "error" \notin Writing /\ req[r] \notin Writing
    BY <2>1 DEF ReqStages, Ended, Writing
  <2>5. CASE Goto(r, "error")
    BY <1>0, <1>q, <2>1, <2>2, <2>3, <2>4, <2>5, QuietStep
  <2>6. CASE req' = req
    BY <1>0, <2>1, <2>2, <2>3, <2>6, QuietStep
  <2> QED
    BY <1>7, <2>5, <2>6 DEF XAddError
<1> QED
  BY <1>1, <1>2, <1>3, <1>4, <1>5, <1>6, <1>7 DEF RequestStep

\* Each step of an execution, in terms of ExecutionStep.
LEMMA TaskInv ==
  ASSUME Inv, NEW e \in Entries, TaskStep(e) \/ TaskError(e)
  PROVE  Inv'
<1>0. /\ faults \in 0 .. MaxFaults /\ dlq \in Seq(Jobs) /\ lastId \in Nat
      /\ acked \subseteq Entries /\ logged \subseteq Entries
      /\ succeeded \subseteq Entries /\ failed \subseteq Entries
      /\ task \in [Entries -> Stages]
  BY DEF Inv, TypeOK, Stages
<1>a. ExecAgrees(e)
  BY DEF Inv, TaskAgrees
<1>r. task[e] \in Running => e \in 1 .. lastId /\ stream[e] \in Jobs /\ host[e] \in Procs
  BY <1>a DEF Inv, TypeOK, ExecAgrees, Entries, Running
<1>l. {"ack", "dlq", "dlqack", "done"} \subseteq Live /\ {"handler", "ack", "dlq", "dlqack"} \subseteq Running
  BY DEF Live, Running
<1>d. ASSUME dlq' \in {dlq, Append(dlq, stream[e])}, stream[e] \in Jobs
      PROVE  dlq' \in Seq(Jobs) /\ \A j \in Jobs : DeadLettered(j) => DeadLettered(j)'
  <2>1. CASE dlq' = dlq
    BY <1>0, <2>1 DEF DeadLettered
  <2>2. CASE dlq' = Append(dlq, stream[e])
    <3>1. dlq' \in Seq(Jobs) /\ Len(dlq') = Len(dlq) + 1 /\ \A i \in 1 .. Len(dlq) : dlq'[i] = dlq[i]
      BY <1>0, <1>d, <2>2
    <3>2. DOMAIN dlq = 1 .. Len(dlq) /\ DOMAIN dlq' = 1 .. Len(dlq') /\ Len(dlq) \in Nat
      BY <1>0, <3>1
    <3> QED
      BY <3>1, <3>2 DEF DeadLettered
  <2> QED
    BY <1>d, <2>1, <2>2
<1>1. CASE HandlerReturns(e)
  <2>1. /\ task[e] = "handler" /\ task[e] \in Running /\ ~Blocked(host[e]) /\ Step(e, "ack")
        /\ succeeded' = succeeded \cup {e}
        /\ UNCHANGED <<storeVars, req, stream, lastId, host, acked, dlq, failed, logged, faults>>
    BY <1>1, <1>l DEF HandlerReturns, At
  <2>2. OutcomesGrow
    BY <1>0, <2>1 DEF OutcomesGrow, DeadLettered
  <2>3. task'[e] = "ack"
    BY <1>0, <2>1 DEF Step
  <2>4. ExecAgrees(e)'
    BY <1>a, <1>r, <2>1, <2>3 DEF ExecAgrees
  <2> QED
    BY <1>0, <1>l, <2>1, <2>2, <2>4, ExecutionStep
<1>2. CASE HandlerFails(e)
  <2>1. /\ task[e] = "handler" /\ task[e] \in Running /\ ~Blocked(host[e])
        /\ failed' = failed \cup {e}
        /\ UNCHANGED <<req, stream, lastId, host, acked, dlq, succeeded, logged, faults>>
    BY <1>2, <1>l DEF HandlerFails, At
  <2>2. OutcomesGrow
    BY <1>0, <2>1 DEF OutcomesGrow, DeadLettered
  <2>3. CASE Exhausted(e) /\ Step(e, "dlq") /\ UNCHANGED storeVars
    <3>1. task'[e] = "dlq" /\ Exhausted(e)'
      BY <1>0, <2>1, <2>3 DEF Step, Exhausted
    <3>2. ExecAgrees(e)'
      BY <1>a, <1>r, <2>1, <3>1 DEF ExecAgrees
    <3> QED
      BY <1>0, <1>l, <2>1, <2>2, <2>3, <3>2, ExecutionStep
  <2>4. CASE ~Exhausted(e) /\ Finish(e, "failed")
    <3>1. Step(e, "done") /\ Track(host[e], stream[e], "failed") /\ "failed" \in Tracked
      BY <2>4 DEF Finish, Tracked
    <3>2. task'[e] = "done"
      BY <1>0, <3>1 DEF Step
    <3>3. e \notin acked
      BY <1>a, <2>1 DEF ExecAgrees
    <3>4. TrueStatus(stream[e], "failed")'
      BY <1>r, <2>1, <2>4, <3>3 DEF TrueStatus, Tells, Exhausted
    <3>5. ExecAgrees(e)'
      BY <1>a, <1>r, <2>1, <3>2 DEF ExecAgrees, Running
    <3> QED
      BY <1>0, <1>l, <2>1, <2>2, <3>1, <3>4, <3>5, ExecutionStep
  <2> QED
    BY <1>2, <2>3, <2>4 DEF HandlerFails
<1>f. ASSUME Fault PROVE faults' \in 0 .. MaxFaults
  BY <1>0, <1>f, OutboxAssumption DEF Fault
<1>o. ASSUME task[e] \in {"ack", "dlq", "dlqack"}, Finish(e, Outcome(e)),
             UNCHANGED <<req, stream, lastId, host, succeeded, failed>>,
             dlq' \in {dlq, Append(dlq, stream[e])}, faults' \in 0 .. MaxFaults,
             acked' \in {acked, acked \cup {e}}, logged' \in {logged, logged \cup {e}},
             ~Blocked(host[e]),
             e \in logged' \/ (e \in acked' /\ task[e] # "dlq")
      PROVE  Inv'
  <2>1. /\ Step(e, "done") /\ Track(host[e], stream[e], Outcome(e)) /\ Outcome(e) \in Tracked
        /\ task[e] \in Running
    BY <1>o DEF Finish, Tracked, Outcome, Running
  <2>2. dlq' \in Seq(Jobs) /\ \A j \in Jobs : DeadLettered(j) => DeadLettered(j)'
    BY <1>d, <1>o, <1>r, <2>1
  <2>3. e \in failed => Exhausted(e)
    BY <1>a, <1>o DEF ExecAgrees
  <2>4. OutcomesGrow
    BY <1>0, <1>o, <2>2, <2>3 DEF OutcomesGrow
  <2>5. task'[e] = "done"
    BY <1>0, <2>1 DEF Step
  <2>6. ExecAgrees(e)'
    BY <1>a, <1>o, <1>r, <2>1, <2>5 DEF ExecAgrees, Running
  <2>7. PICK st \in Tracked : st = Outcome(e) /\ Track(host[e], stream[e], st)
    BY <2>1
  <2>8. Tells(e, st)'
    <3>1. CASE task[e] = "ack"
      BY <1>a, <1>o, <2>7, <3>1 DEF ExecAgrees, Tells, Outcome
    <3>2. CASE task[e] # "ack"
      <4>1. st = "dead" /\ e \in failed' /\ Exhausted(e)'
        BY <1>a, <1>o, <2>7, <3>2 DEF ExecAgrees, Exhausted, Outcome
      <4>2. e \in logged' \/ (e \in acked' /\ DeadLettered(stream[e])')
        <5>1. PICK j \in Jobs : j = stream[e]
          BY <1>r, <2>1
        <5>2. DeadLettered(j) => DeadLettered(j)'
          BY <2>2
        <5> QED
          BY <1>a, <1>o, <3>2, <5>1, <5>2 DEF ExecAgrees, DeadLettered
      <4> QED
        BY <4>1, <4>2 DEF Tells
    <3> QED
      BY <3>1, <3>2
  <2>9. \E s \in Tracked : Track(host[e], stream[e], s) /\ TrueStatus(stream[e], s)'
    BY <1>o, <1>r, <2>1, <2>7, <2>8 DEF TrueStatus
  <2> QED
    BY <1>l, <1>o, <2>1, <2>2, <2>4, <2>6, <2>9, ExecutionStep
<1>3. CASE Ack(e)
  <2>1. /\ task[e] \in {"ack", "dlqack"} /\ ~Blocked(host[e]) /\ Finish(e, Outcome(e))
        /\ acked' = acked \cup {e}
        /\ UNCHANGED <<req, stream, lastId, host, dlq, succeeded, failed, logged, faults>>
    BY <1>3 DEF Ack, At, outcomes
  <2> QED
    BY <1>0, <1>o, <2>1
\* A call that failed and is sent again leaves the execution where it is.
<1>s. ASSUME task[e] \in {"ack", "dlq", "dlqack"}, ~Blocked(host[e]), Fault,
             UNCHANGED <<storeVars, task, req, stream, lastId, host, succeeded, failed, logged>>,
             dlq' \in {dlq, Append(dlq, stream[e])}, acked' \in {acked, acked \cup {e}}
      PROVE  Inv'
  <2>1. task[e] \in Running /\ task[e] \in Live /\ Step(e, task[e])
    BY <1>0, <1>s DEF Running, Live, Step
  <2>2. dlq' \in Seq(Jobs) /\ \A j \in Jobs : DeadLettered(j) => DeadLettered(j)'
    BY <1>d, <1>r, <1>s, <2>1
  <2>3. e \in failed => Exhausted(e)
    BY <1>a, <1>s DEF ExecAgrees
  <2>4. OutcomesGrow
    BY <1>0, <1>s, <2>2, <2>3 DEF OutcomesGrow
  <2>5. DeadLettered(stream[e]) => DeadLettered(stream[e])'
    <3>1. PICK j \in Jobs : j = stream[e]
      BY <1>r, <2>1
    <3>2. DeadLettered(j) => DeadLettered(j)'
      BY <2>2
    <3> QED
      BY <1>s, <3>1, <3>2 DEF DeadLettered
  <2>6. ExecAgrees(e)'
    BY <1>a, <1>r, <1>s, <2>1, <2>5 DEF ExecAgrees, Exhausted
  <2> QED
    BY <1>f, <1>s, <2>1, <2>2, <2>4, <2>6, ExecutionStep
<1>4. CASE AckError(e)
  <2>1. /\ task[e] \in {"ack", "dlqack"} /\ ~Blocked(host[e]) /\ Fault /\ GoesOn(e)
        /\ acked' \in {acked, acked \cup {e}}
        /\ UNCHANGED <<req, stream, lastId, host, dlq, succeeded, failed>>
    BY <1>4 DEF AckError, At, outcomes
  <2>2. CASE Finish(e, Outcome(e)) /\ logged' = logged \cup {e}
    BY <1>f, <1>o, <2>1, <2>2
  <2>3. CASE UNCHANGED <<task, storeVars, logged>>
    BY <1>s, <2>1, <2>3
  <2> QED
    BY <2>1, <2>2, <2>3 DEF GoesOn
<1>5. CASE Bury(e)
  <2>1. /\ task[e] = "dlq" /\ task[e] \in Running /\ ~Blocked(host[e]) /\ Step(e, "dlqack")
        /\ dlq' = Append(dlq, stream[e])
        /\ UNCHANGED <<storeVars, req, stream, lastId, host, acked, succeeded, failed, logged, faults>>
    BY <1>5, <1>l DEF Bury, At, outcomes
  <2>2. dlq' \in Seq(Jobs) /\ \A j \in Jobs : DeadLettered(j) => DeadLettered(j)'
    BY <1>d, <1>r, <2>1
  <2>3. OutcomesGrow
    BY <1>0, <2>1, <2>2 DEF OutcomesGrow
  <2>4. DeadLettered(stream[e])'
    <3>1. Len(dlq) \in Nat /\ Len(dlq') = Len(dlq) + 1 /\ dlq'[Len(dlq) + 1] = stream[e]
      BY <1>0, <1>r, <2>1
    <3>2. Len(dlq) + 1 \in DOMAIN dlq'
      BY <2>2, <3>1
    <3> QED
      BY <2>1, <3>1, <3>2 DEF DeadLettered
  <2>5. task'[e] = "dlqack" /\ (Exhausted(e)' <=> Exhausted(e))
    BY <1>0, <2>1 DEF Step, Exhausted
  <2>6. ExecAgrees(e)'
    BY <1>a, <1>r, <2>1, <2>4, <2>5 DEF ExecAgrees
  <2> QED
    BY <1>0, <1>l, <2>1, <2>2, <2>3, <2>6, ExecutionStep
<1>6. CASE BuryError(e)
  <2>1. /\ task[e] = "dlq" /\ ~Blocked(host[e]) /\ Fault /\ GoesOn(e)
        /\ dlq' \in {dlq, Append(dlq, stream[e])}
        /\ UNCHANGED <<req, stream, lastId, host, acked, succeeded, failed>>
    BY <1>6 DEF BuryError, At, outcomes
  <2>2. CASE Finish(e, Outcome(e)) /\ logged' = logged \cup {e}
    BY <1>f, <1>o, <2>1, <2>2
  <2>3. CASE UNCHANGED <<task, storeVars, logged>>
    BY <1>s, <2>1, <2>3
  <2> QED
    BY <2>1, <2>2, <2>3 DEF GoesOn
<1> QED
  BY <1>1, <1>2, <1>3, <1>4, <1>5, <1>6 DEF TaskStep, TaskError

LEMMA InitInv == Init => Inv
<1> SUFFICES ASSUME Init PROVE Inv
  OBVIOUS
<1>1. StoreTypeOK
  <2>1. Empty \in Table
    BY DEF Empty, Table
  <2>2. pinned \in [Procs -> BOOLEAN] /\ inTx \in [Procs -> BOOLEAN]
        /\ \A p \in Procs : ~pinned[p] /\ ~inTx[p] /\ lock # p
    BY StoreAssumption DEF Init, StoreInit
  <2> QED
    BY <2>1, <2>2 DEF Init, StoreInit, StoreTypeOK
<1>2. TypeOK
  <2>1. stream = << >> /\ dlq = << >> /\ lastId = 0 /\ faults = 0
        /\ acked = {} /\ logged = {} /\ succeeded = {} /\ failed = {}
    BY DEF Init
  <2>2. req \in [Requests -> {"new"} \cup Underway \cup Ended]
    BY DEF Init
  <2>3. task \in [Entries -> Running \cup {"none", "done", "lost"}] /\ host \in [Entries -> Procs \cup {NoProc}]
    BY DEF Init
  <2> QED
    BY <1>1, <2>1, <2>2, <2>3, OutboxAssumption DEF TypeOK
<1>3. /\ \A j \in Jobs : db[j] = "absent"
      /\ \A r \in Requests : req[r] = "new"
      /\ \A e \in Entries : task[e] = "none"
      /\ \A p \in Procs : ~inTx[p] /\ Rows(p) = db
  BY DEF Init, StoreInit, Empty, Rows
<1>4. StoreInv
  BY <1>1, <1>3 DEF StoreInv, TxnAgrees, OneWriter, OnlyPending, KeyClaimedOnce, Writing
<1>5. Published = {}
  BY DEF Published, Init
<1>6. ClaimedFirst /\ EnqueueReleasesLock
  BY <1>3, <1>5, OutboxAssumption DEF ClaimedFirst, EnqueueReleasesLock, Requests
<1>7. TaskAgrees
  BY <1>3 DEF TaskAgrees, ExecAgrees, Init, Running
<1>8. StatusIsTrue
  BY <1>3 DEF StatusIsTrue, Reported, Tracked
<1> QED
  BY <1>2, <1>4, <1>6, <1>7, <1>8 DEF Inv

LEMMA NextInv == Inv /\ [Next]_vars => Inv'
<1> SUFFICES ASSUME Inv, [Next]_vars PROVE Inv'
  OBVIOUS
<1>t. faults \in 0 .. MaxFaults /\ req \in [Requests -> ReqStages]
  BY DEF Inv, TypeOK, ReqStages
<1>1. CASE UNCHANGED vars
  <2>1. UNCHANGED <<storeVars, req, stream, taskVars, faults>>
    BY <1>1 DEF vars
  <2> QED
    BY <1>t, <2>1, QuietStep
<1>2. CASE \E r \in Requests : RequestStep(r) \/ XAddError(r)
  BY <1>2, RequestInv
<1>3. ASSUME NEW p \in Procs, GetJob(p) PROVE Inv'
  <2>1. UNCHANGED <<req, stream, taskVars, faults>> /\ ~Blocked(p) /\ Select(p)
    BY <1>3 DEF GetJob
  <2> QED
    BY <1>t, <2>1, QuietStep
<1>4. CASE \E e \in Entries : TaskStep(e) \/ TaskError(e)
  BY <1>4, TaskInv
<1> QED
  BY <1>1, <1>2, <1>3, <1>4, StartStep, CrashStep DEF Next

LEMMA InvHolds == Spec => []Inv
BY InitInv, NextInv, PTL DEF Spec

-----------------------------------------------------------------------------

\* Requests, executions and every connection of the store stay well typed: a
\* snapshot belongs to a transaction, and the write lock to a snapshot.
THEOREM OutboxTypeCorrect == Spec => []TypeOK
<1>1. Inv => TypeOK
  BY DEF Inv
<1> QED
  BY <1>1, InvHolds, PTL

\* With the store, no two jobs of one idempotency key reach the stream.
THEOREM KeysAreUsedOnce == Spec => []KeyUsedOnce
<1>1. Inv => KeyUsedOnce
  <2> SUFFICES ASSUME Inv, EnqueuerStore, NEW i \in Published, NEW j \in Published,
                      Key[i] = Key[j], Key[i] # NoKey
               PROVE  i = j
    BY DEF KeyUsedOnce
  <2>1. i \in Jobs /\ j \in Jobs
    BY DEF Inv, TypeOK, Published
  <2> QED
    BY <2>1 DEF Inv, ClaimedFirst, StoreInv, KeyClaimedOnce
<1> QED
  BY <1>1, InvHolds, PTL

\* Whatever transaction() raises, enqueue leaves no transaction open.
THEOREM EnqueueAlwaysReleases == Spec => []EnqueueReleasesLock
<1>1. Inv => EnqueueReleasesLock
  BY DEF Inv
<1> QED
  BY <1>1, InvHolds, PTL

\* No connection ever reads an outcome that a job did not have, or one that Redis
\* does not show, unless a failed call was logged for it.
THEOREM StatusesAreTrue == Spec => []StatusIsTrue
<1>1. Inv => StatusIsTrue
  BY DEF Inv
<1> QED
  BY <1>1, InvHolds, PTL

\* As long as no XACK or DLQ write has failed and been logged, every status that is
\* read means what JobStatus says: completed is acknowledged, dead is in the DLQ.
\* The outcomes that Executor records after such a failure are the only exceptions.
THEOREM DocumentedUnlessLogged == Spec => [](logged = {} => StatusAsDocumented)
<1>1. Inv /\ logged = {} => StatusAsDocumented
  <2> SUFFICES ASSUME StatusIsTrue, logged = {}, NEW j \in Jobs
               PROVE  /\ Reported(j, "completed") => \E e \in acked : stream[e] = j
                      /\ Reported(j, "dead") => DeadLettered(j)
    BY DEF Inv, StatusAsDocumented
  <2>1. Reported(j, "completed") => TrueStatus(j, "completed")
    BY DEF StatusIsTrue, Tracked
  <2>2. Reported(j, "dead") => TrueStatus(j, "dead")
    BY DEF StatusIsTrue, Tracked
  <2> QED
    BY <2>1, <2>2 DEF TrueStatus, Tells
<1> QED
  BY <1>1, InvHolds, PTL

-----------------------------------------------------------------------------
(* The outbox contract *)

Claimed == {j \in Jobs : db[j] # "absent"}

\* Only a commit changes the table, and only an XADD of a claimed job the stream.
LEMMA StepsOfOutbox ==
  ASSUME Inv, EnqueuerStore, [Next]_vars
  PROVE  \/ db' = db /\ stream' = stream
         \/ \E r \in Requests : CommitRow(r)
         \/ db' = db /\ \E j \in Claimed : stream' = Append(stream, j)
<1>1. ASSUME NEW r \in Requests, Fetch(r) \/ Check(r) \/ Begin(r) \/ Insert(r)
      PROVE  db' = db /\ stream' = stream
  BY <1>1 DEF Fetch, Check, Begin, Insert, storeVars, Select, BeginImmediate, InsertOutbox, Rollback
<1>2. ASSUME NEW r \in Requests, XAdd(r) \/ XAddError(r)
      PROVE  db' = db /\ (stream' = stream \/ \E j \in Claimed : stream' = Append(stream, j))
  <2>1. req[r] = "xadd" /\ db' = db
    BY <1>2 DEF XAdd, XAddError, storeVars
  <2>2. stream' = stream \/ (r \in Jobs /\ stream' = Append(stream, r))
    BY <1>2 DEF XAdd, XAddError, Publish
  <2>3. r \in Jobs => r \in Claimed
    BY <2>1 DEF Inv, ClaimedFirst, Claimed
  <2> QED
    BY <2>1, <2>2, <2>3
<1>3. ASSUME NEW p \in Procs, Start(p) \/ GetJob(p) \/ Crash(p)
      PROVE  db' = db /\ stream' = stream
  BY <1>3 DEF Start, GetJob, Crash, Track, UpdateStatus, Select, Disconnect, storeVars
<1>4. ASSUME NEW e \in Entries, TaskStep(e) \/ TaskError(e)
      PROVE  db' = db /\ stream' = stream
  BY <1>4 DEF TaskStep, HandlerReturns, HandlerFails, Ack, Bury, TaskError, AckError, BuryError,
              GoesOn, Finish, Track, UpdateStatus, storeVars
<1>5. CASE UNCHANGED vars
  BY <1>5 DEF vars, storeVars
<1> QED
  BY <1>1, <1>2, <1>3, <1>4, <1>5 DEF Next, RequestStep

LEMMA ContractStep ==
  ASSUME Inv, EnqueuerStore, [Next]_vars
  PROVE  [Contract!Next]_(Contract!vars)
<1>1. CASE db' = db /\ stream' = stream
  BY <1>1 DEF Contract!vars, Published
<1>2. ASSUME NEW r \in Requests, CommitRow(r) PROVE Contract!Claim(r) /\ r \in Jobs
  <2>1. /\ r \in Jobs /\ db[r] = "absent" /\ SameKey(db, r) = {}
        /\ db' = [db EXCEPT ![r] = "pending"]
    BY <1>2, CommitStep
  <2>2. db \in [Jobs -> JobStatus \cup {"absent"}]
    BY DEF Inv, StoreInv, StoreTypeOK, Table
  <2>3. Claimed' = Claimed \cup {r} /\ r \notin Claimed
    BY <2>1, <2>2 DEF Claimed
  <2>4. Key[r] = NoKey \/ \A i \in Claimed : Key[i] # Key[r]
    BY <2>1 DEF SameKey, Claimed
  <2>5. Published' = Published
    BY <1>2 DEF CommitRow, Published
  <2> QED
    BY <2>1, <2>3, <2>4, <2>5 DEF Contract!Claim, Claimed
<1>3. ASSUME db' = db, NEW j \in Claimed, stream' = Append(stream, j)
      PROVE  Contract!Publish(j) /\ j \in Jobs
  <2>1. stream \in Seq(Jobs) /\ j \in Jobs
    BY DEF Inv, TypeOK, Claimed
  <2>2. Published' = Published \cup {j}
    <3>1. Len(stream') = Len(stream) + 1 /\ Len(stream) \in Nat
      BY <1>3, <2>1
    <3>2. \A e \in 1 .. Len(stream) : stream'[e] = stream[e]
      BY <1>3, <2>1
    <3>3. stream'[Len(stream) + 1] = j
      BY <1>3, <2>1
    <3>4. 1 .. Len(stream') = 1 .. Len(stream) \cup {Len(stream) + 1}
      BY <3>1
    <3> QED
      BY <3>2, <3>3, <3>4 DEF Published
  <2> QED
    BY <1>3, <2>1, <2>2 DEF Contract!Publish, Claimed
<1> QED
  BY <1>1, <1>2, <1>3, StepsOfOutbox DEF Contract!Next

\* With the store, whatever happens to requests, processes and Redis, a job claims
\* its key by a commit before any XADD, and the claims never collide.
THEOREM OutboxRefinement ==
  ASSUME EnqueuerStore
  PROVE  Spec => ImplementsOutboxContract
<1>1. Init => Contract!Init
  <2> SUFFICES ASSUME Init PROVE Contract!Init
    OBVIOUS
  <2>1. {j \in Jobs : db[j] # "absent"} = {}
    BY DEF Init, StoreInit, Empty
  <2>2. Published = {}
    BY DEF Init, Published
  <2> QED
    BY <2>1, <2>2 DEF Contract!Init
<1>2. Inv /\ [Next]_vars => [Contract!Next]_(Contract!vars)
  BY ContractStep
<1> QED
  BY <1>1, <1>2, InvHolds, PTL DEF Spec, ImplementsOutboxContract, Contract!Spec
=============================================================================

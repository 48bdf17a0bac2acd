------------------------- MODULE OutboxAnswerProofs -------------------------
(***************************************************************************)
(* What a POST is answered is true of the stream and the committed table.  *)
(*                                                                         *)
(* The hard case is 409.  The lookup reads the connection's snapshot, which *)
(* may be old and may hold rows that are not committed.  An old snapshot   *)
(* has no row that the table has lost, because none is ever lost; and the  *)
(* only uncommitted row a connection has seen is that of the request it is *)
(* inserting, while which its process serves no other.                      *)
(***************************************************************************)
EXTENDS OutboxProofs, FiniteSetTheorems

\* The stages before a job's row is committed or its XADD sent.
Early == {"new", "full", "conflict", "begin", "insert", "commit"}

\* A row that a connection reads is committed, or is the row it is inserting.
ReadsCommitted ==
  \A p \in Procs, i \in Jobs :
    Rows(p)[i] # "absent" => db[i] # "absent" \/ (req[i] = "commit" /\ Home[i] = p)

\* Nothing of a job is recorded or published before its own request does so.
NothingEarly == \A j \in Jobs : req[j] \in Early => db[j] = "absent" /\ j \notin Published

Answered ==
  \A j \in Jobs :
    /\ req[j] = "accepted" => j \in Published
    /\ req[j] = "conflict" => SameKey(db, j) # {}

AnswerInv == ReadsCommitted /\ NothingEarly /\ Answered

LEMMA JobsAreRequests == Jobs \subseteq Requests /\ \A r \in Requests : Home[r] \in Procs
BY OutboxAssumption DEF Requests

-----------------------------------------------------------------------------
(* What one step does to the table, the connections, the stream, a request *)

\* The table changes by the commit of a request's own row.
LEMMA TableStep ==
  ASSUME Inv, [Next]_vars
  PROVE  \/ db' = db
         \/ \E r \in Jobs : req'[r] = "xadd" /\ db' = [db EXCEPT ![r] = "pending"]
<1>1. ASSUME NEW r \in Requests, Fetch(r) \/ Check(r) \/ Begin(r) \/ Insert(r) \/ XAdd(r) \/ XAddError(r)
      PROVE  db' = db
  BY <1>1 DEF Fetch, Check, Begin, Insert, XAdd, XAddError, storeVars, Select, BeginImmediate,
              InsertOutbox, Rollback
<1>2. ASSUME NEW r \in Requests, CommitRow(r)
      PROVE  r \in Jobs /\ req'[r] = "xadd" /\ db' = [db EXCEPT ![r] = "pending"]
  BY <1>2, CommitStep DEF CommitRow, Goto, Inv, TypeOK
<1>3. ASSUME NEW p \in Procs, Start(p) \/ GetJob(p) \/ Crash(p) PROVE db' = db
  BY <1>3 DEF Start, GetJob, Crash, Track, UpdateStatus, Select, Disconnect, storeVars
<1>4. ASSUME NEW e \in Entries, TaskStep(e) \/ TaskError(e) PROVE db' = db
  BY <1>4 DEF TaskStep, HandlerReturns, HandlerFails, Ack, Bury, TaskError, AckError, BuryError,
              GoesOn, Finish, Track, UpdateStatus, storeVars
<1>5. CASE UNCHANGED vars
  BY <1>5 DEF vars, storeVars
<1> QED
  BY <1>1, <1>2, <1>3, <1>4, <1>5 DEF Next, RequestStep

\* So a recorded job stays recorded.
LEMMA TableGrows ==
  ASSUME Inv, [Next]_vars, NEW i \in Jobs, db[i] # "absent"
  PROVE  db'[i] # "absent"
<1>1. db \in [Jobs -> JobStatus \cup {"absent"}]
  BY DEF Inv, StoreInv, StoreTypeOK, Table
<1> QED
  BY <1>1, TableStep

\* A row appears to a connection when it is committed or inserted there.
NoNewRows(p) ==
  \A i \in Jobs : Rows(p)'[i] # "absent" =>
    Rows(p)[i] # "absent" \/ db'[i] # "absent" \/ (req'[i] = "commit" /\ Home[i] = p)

LEMMA ReleaseRows ==
  ASSUME Inv, NEW p \in Procs, Release(p), db' \in Table
  PROVE  Rows(p)' = db' /\ \A q \in Procs : NoNewRows(q)
<1>1. StoreTypeOK
  BY DEF Inv, StoreInv
<1>2. /\ Rows(p)' = db'
      /\ \A q \in Procs : q # p => snap'[q] = snap[q] /\ pinned'[q] = pinned[q]
  BY <1>1, ReleaseKeeps
<1>3. \A q \in Procs : q # p => Rows(q)' = Rows(q) \/ Rows(q)' = db'
  BY <1>2 DEF Rows
<1> QED
  BY <1>2, <1>3 DEF NoNewRows

LEMMA TrackRows ==
  ASSUME Inv, NEW p \in Procs, NEW j \in Jobs, NEW s \in JobStatus, Track(p, j, s)
  PROVE  \A q \in Procs : NoNewRows(q)
<1>1. StoreTypeOK
  BY DEF Inv, StoreInv
<1>2. CASE UNCHANGED storeVars
  BY <1>2 DEF storeVars, NoNewRows, Rows
<1>3. CASE UpdateStatus(p, j, s)
  <2>1. /\ \A q \in Procs : q # p => Rows(q)' = Rows(q)
        /\ \A i \in Jobs : i # j => Rows(p)'[i] = Rows(p)[i]
        /\ Rows(p)[j] = "absent" => Rows(p)'[j] = "absent"
    BY <1>1, <1>3, UpdateKeeps
  <2> QED
    BY <2>1 DEF NoNewRows
<1> QED
  BY <1>2, <1>3 DEF Track

LEMMA RowsStep ==
  ASSUME Inv, [Next]_vars
  PROVE  /\ \A p \in Procs : NoNewRows(p)
         /\ \A r \in Requests : req[r] = "commit" /\ req'[r] # "commit" => Rows(Home[r])' = db'
<1> DEFINE New == \A p \in Procs : NoNewRows(p)
           Own == \A r \in Requests : req[r] = "commit" /\ req'[r] # "commit" => Rows(Home[r])' = db'
<1> SUFFICES New /\ Own
  OBVIOUS
<1>0. StoreTypeOK /\ db \in Table /\ req \in [Requests -> ReqStages]
  BY DEF Inv, StoreInv, StoreTypeOK, TypeOK, ReqStages
<1>1. ASSUME UNCHANGED storeVars PROVE New
  BY <1>1 DEF storeVars, NoNewRows, Rows
<1>2. ASSUME NEW p \in Procs, Select(p) PROVE New
  BY <1>0, <1>2, SelectKeeps DEF NoNewRows
<1>3. ASSUME NEW r \in Requests, NEW s, Goto(r, s), req[r] # "commit" PROVE Own
  BY <1>0, <1>3 DEF Goto
<1>4. ASSUME NEW r \in Requests, Fetch(r) PROVE New /\ Own
  BY <1>1, <1>3, <1>4 DEF Fetch
<1>5. ASSUME NEW r \in Requests, Check(r) PROVE New /\ Own
  <2>1. req[r] # "commit" /\ \E s : Goto(r, s)
    BY <1>5 DEF Check
  <2>2. UNCHANGED storeVars \/ Select(Home[r])
    BY <1>5 DEF Check
  <2> QED
    BY <1>1, <1>2, <1>3, <2>1, <2>2, JobsAreRequests
<1>6. ASSUME NEW r \in Requests, Begin(r) PROVE New /\ Own
  <2>1. req[r] # "commit" /\ \E s : Goto(r, s)
    BY <1>6 DEF Begin
  <2>2. BeginImmediate(Home[r]) => New
    BY <1>0, BeginKeeps, JobsAreRequests DEF NoNewRows
  <2> QED
    BY <1>1, <1>3, <1>6, <2>1, <2>2 DEF Begin
<1>7. ASSUME NEW r \in Requests, Insert(r) PROVE New /\ Own
  <2>1. req[r] # "commit" /\ \E s : Goto(r, s)
    BY <1>7 DEF Insert
  <2>2. ASSUME Rollback(Home[r]) PROVE New
    BY <1>0, <2>2, ReleaseRows, JobsAreRequests DEF Rollback
  <2>3. ASSUME r \in Jobs, InsertOutbox(Home[r], r), Goto(r, "commit") PROVE New
    <3>1. snap' = [snap EXCEPT ![Home[r]][r] = "pending"] /\ UNCHANGED <<db, pinned>>
      BY <2>3 DEF InsertOutbox
    <3>2. req'[r] = "commit"
      BY <1>0, <2>3 DEF Goto
    <3>3. \A q \in Procs, i \in Jobs : q # Home[r] \/ i # r => snap'[q][i] = snap[q][i]
      BY <1>0, <3>1, JobsAreRequests DEF StoreTypeOK, Table
    <3>4. \A q \in Procs, i \in Jobs : q # Home[r] \/ i # r => Rows(q)'[i] = Rows(q)[i]
      BY <3>1, <3>3 DEF Rows
    <3> QED
      BY <3>2, <3>4 DEF NoNewRows
  <2>4. Rollback(Home[r]) \/ (r \in Jobs /\ InsertOutbox(Home[r], r) /\ Goto(r, "commit"))
    BY <1>7 DEF Insert, InsertRaises
  <2>5. New
    BY <2>2, <2>3, <2>4
  <2> QED
    BY <1>3, <2>1, <2>5
<1>8. ASSUME NEW r \in Requests, CommitRow(r) PROVE New /\ Own
  <2>1. Release(Home[r]) /\ db' = snap[Home[r]] /\ Goto(r, "xadd") /\ db' \in Table
    BY <1>0, <1>8, JobsAreRequests DEF CommitRow, Commit, StoreTypeOK
  <2>2. Rows(Home[r])' = db' /\ New
    BY <2>1, ReleaseRows, JobsAreRequests
  <2>3. \A q \in Requests : q # r => req'[q] = req[q]
    BY <1>0, <2>1 DEF Goto
  <2> QED
    BY <2>2, <2>3
<1>9. ASSUME NEW r \in Requests, XAdd(r) \/ XAddError(r) PROVE New /\ Own
  <2>1. req[r] # "commit" /\ ((\E s : Goto(r, s)) \/ req' = req)
    BY <1>9 DEF XAdd, XAddError
  <2> QED
    BY <1>1, <1>3, <1>9, <2>1 DEF XAdd, XAddError
<1>10. ASSUME NEW p \in Procs, Crash(p) PROVE New /\ Own
  <2>1. Release(p) /\ db' = db
    BY <1>10 DEF Crash, Disconnect
  <2>2. Rows(p)' = db' /\ New
    BY <1>0, <2>1, ReleaseRows
  <2>3. \A r \in Requests : Home[r] # p => req'[r] = req[r]
    BY <1>0, <1>10 DEF Crash
  <2> QED
    BY <2>2, <2>3
<1>11. ASSUME NEW p \in Procs, GetJob(p) PROVE New /\ Own
  BY <1>2, <1>11 DEF GetJob
<1>12. ASSUME NEW p \in Procs, Start(p) PROVE New /\ Own
  <2>1. /\ req' = req /\ Track(p, stream[lastId'], "processing")
        /\ lastId < Len(stream) /\ lastId' = lastId + 1
    BY <1>12 DEF Start
  <2>2. stream[lastId'] \in Jobs
    BY <2>1 DEF Inv, TypeOK
  <2> QED
    BY <2>1, <2>2, TrackRows DEF JobStatus
<1>13. ASSUME NEW e \in Entries, TaskStep(e) \/ TaskError(e) PROVE New /\ Own
  <2>1. req' = req
    BY <1>13 DEF TaskStep, HandlerReturns, HandlerFails, Ack, Bury, TaskError, AckError, BuryError
  <2>2. UNCHANGED storeVars \/ \E s \in JobStatus : Track(host[e], stream[e], s)
    BY <1>13 DEF TaskStep, HandlerReturns, HandlerFails, Ack, Bury, TaskError, AckError, BuryError,
                 GoesOn, Outcome, Finish, JobStatus
  <2>3. task[e] \in Running
    BY <1>13 DEF TaskStep, HandlerReturns, HandlerFails, Ack, Bury, TaskError, AckError, BuryError, At, Running
  <2>4. host[e] \in Procs /\ stream[e] \in Jobs
    BY <2>3 DEF Inv, TaskAgrees, ExecAgrees, TypeOK, Running, Entries
  <2> QED
    BY <1>1, <2>1, <2>2, <2>4, TrackRows
<1>14. CASE UNCHANGED vars
  BY <1>1, <1>14 DEF vars
<1> HIDE DEF New, Own
<1> QED
  BY <1>4, <1>5, <1>6, <1>7, <1>8, <1>9, <1>10, <1>11, <1>12, <1>13, <1>14 DEF Next, RequestStep

\* What a step may do to the request of a job, and to the stream for it.
JobMoves(j) ==
  /\ req'[j] \in Early => req[j] \in Early
  /\ req'[j] = "conflict" => req[j] = "conflict" \/ (FoundByKey(Home[j], j) /\ ~Blocked(Home[j]))
  /\ req'[j] = "accepted" => req[j] = "accepted" \/ j \in Published'
  /\ j \in Published' => j \in Published \/ req[j] = "xadd"
  /\ j \in Published => j \in Published'

LEMMA XAddMoves ==
  ASSUME Inv, NEW r \in Requests, XAdd(r) \/ XAddError(r), NEW j \in Jobs
  PROVE  JobMoves(j)
<1>0. stream \in Seq(Jobs) /\ req \in [Requests -> ReqStages] /\ j \in Requests
  BY JobsAreRequests DEF Inv, TypeOK, ReqStages
<1>1. ASSUME r \in Jobs, stream' = Append(stream, r)
      PROVE  Published' = Published \cup {r}
  <2>1. /\ Len(stream') = Len(stream) + 1 /\ Len(stream) \in Nat
        /\ \A e \in 1 .. Len(stream) : stream'[e] = stream[e]
        /\ stream'[Len(stream) + 1] = r
    BY <1>0, <1>1
  <2>2. 1 .. Len(stream') = 1 .. Len(stream) \cup {Len(stream) + 1}
    BY <2>1
  <2> QED
    BY <2>1, <2>2 DEF Published
<1>2. /\ req[r] = "xadd"
      /\ stream' = stream \/ (r \in Jobs /\ stream' = Append(stream, r))
      /\ req' = req \/ Goto(r, "error") \/ (Goto(r, "accepted") /\ r \in Jobs /\ stream' = Append(stream, r))
  BY DEF XAdd, XAddError, Publish
<1>3. stream' = stream => Published' = Published
  BY DEF Published
<1>4. req'[j] = req[j] \/ (j = r /\ req'[j] \in {"error", "accepted"})
  BY <1>0, <1>2 DEF Goto
<1>5. req'[j] = "accepted" => req[j] = "accepted" \/ (j = r /\ r \in Jobs /\ stream' = Append(stream, r))
  BY <1>0, <1>2 DEF Goto
<1> QED
  BY <1>1, <1>2, <1>3, <1>4, <1>5 DEF JobMoves, Early

LEMMA MovesStep ==
  ASSUME Inv, [Next]_vars, NEW j \in Jobs
  PROVE  JobMoves(j)
<1>0. req \in [Requests -> ReqStages] /\ j \in Requests
  BY JobsAreRequests DEF Inv, TypeOK, ReqStages
<1>1. stream' = stream => Published' = Published
  BY DEF Published
<1>2. ASSUME stream' = stream, req'[j] = req[j] \/ req'[j] \notin Early \cup {"accepted"} PROVE JobMoves(j)
  BY <1>1, <1>2 DEF JobMoves, Early
<1>3. ASSUME NEW r \in Requests, NEW s, Goto(r, s)
      PROVE  req'[j] = IF r = j THEN s ELSE req[j]
  BY <1>0, <1>3 DEF Goto
<1>4. ASSUME NEW r \in Requests, Fetch(r) PROVE JobMoves(j)
  BY <1>2, <1>3, <1>4, OutboxAssumption DEF Fetch
<1>5. ASSUME NEW r \in Requests, Check(r) PROVE JobMoves(j)
  <2>1. stream' = stream /\ ~Blocked(Home[r])
    BY <1>5 DEF Check
  <2>2. PICK s \in {"full", "xadd", "conflict", "begin"} :
          Goto(r, s) /\ (s = "conflict" => FoundByKey(Home[r], r))
    BY <1>5 DEF Check
  <2>3. r = j => req[j] = "new"
    BY <1>5 DEF Check
  <2>4. req'[j] = IF r = j THEN s ELSE req[j]
    BY <1>3, <2>2
  <2> QED
    BY <1>1, <2>1, <2>2, <2>3, <2>4 DEF JobMoves, Early
<1>6. ASSUME NEW r \in Requests, Begin(r) \/ Insert(r) \/ CommitRow(r) PROVE JobMoves(j)
  <2>1. stream' = stream /\ req[r] \in Early
    BY <1>6 DEF Begin, Insert, CommitRow, Early
  <2>2. PICK s \in {"insert", "commit", "error", "xadd"} : Goto(r, s)
    BY <1>6 DEF Begin, Insert, CommitRow
  <2>3. req'[j] = IF r = j THEN s ELSE req[j]
    BY <1>3, <2>2
  <2> QED
    BY <1>1, <2>1, <2>2, <2>3 DEF JobMoves
<1>7. ASSUME NEW p \in Procs, Crash(p) PROVE JobMoves(j)
  <2>1. stream' = stream /\ (req'[j] = req[j] \/ req'[j] = "lost")
    BY <1>0, <1>7 DEF Crash
  <2> QED
    BY <1>2, <2>1 DEF Early
<1>8. ASSUME UNCHANGED <<req, stream>> PROVE JobMoves(j)
  BY <1>2, <1>8
<1>9. ASSUME NEW p \in Procs, Start(p) \/ GetJob(p) PROVE JobMoves(j)
  BY <1>8, <1>9 DEF Start, GetJob
<1>10. ASSUME NEW e \in Entries, TaskStep(e) \/ TaskError(e) PROVE JobMoves(j)
  BY <1>8, <1>10 DEF TaskStep, HandlerReturns, HandlerFails, Ack, Bury, TaskError, AckError, BuryError
<1>11. CASE UNCHANGED vars
  BY <1>8, <1>11 DEF vars
<1> QED
  BY <1>4, <1>5, <1>6, <1>7, <1>9, <1>10, <1>11, XAddMoves DEF Next, RequestStep

-----------------------------------------------------------------------------

LEMMA AnswerNext == Inv /\ AnswerInv /\ [Next]_vars => AnswerInv'
<1> SUFFICES ASSUME Inv, AnswerInv, [Next]_vars PROVE AnswerInv'
  OBVIOUS
<1> USE DEF AnswerInv
<1>1. ReadsCommitted'
  <2> SUFFICES ASSUME NEW p \in Procs, NEW i \in Jobs, Rows(p)'[i] # "absent"
               PROVE  db'[i] # "absent" \/ (req'[i] = "commit" /\ Home[i] = p)
    BY DEF ReadsCommitted
  <2>1. CASE Rows(p)[i] # "absent"
    <3>1. db[i] # "absent" \/ (req[i] = "commit" /\ Home[i] = p)
      BY <2>1 DEF ReadsCommitted
    <3>2. req[i] = "commit" /\ Home[i] = p /\ req'[i] # "commit" => Rows(p)' = db'
      BY RowsStep, JobsAreRequests
    <3> QED
      BY <3>1, <3>2, TableGrows
  <2> QED
    BY <2>1, RowsStep DEF NoNewRows
<1>2. NothingEarly'
  <2> SUFFICES ASSUME NEW j \in Jobs, req'[j] \in Early PROVE db'[j] = "absent" /\ j \notin Published'
    BY DEF NothingEarly
  <2>1. req[j] \in Early /\ req[j] # "xadd" /\ req'[j] # "xadd"
    BY MovesStep DEF JobMoves, Early
  <2>2. db[j] = "absent" /\ j \notin Published
    BY <2>1 DEF NothingEarly
  <2>3. db'[j] = db[j]
    BY <2>1, TableStep DEF Inv, StoreInv, StoreTypeOK, Table
  <2> QED
    BY <2>1, <2>2, <2>3, MovesStep DEF JobMoves
<1>3. Answered'
  <2> SUFFICES ASSUME NEW j \in Jobs
               PROVE  /\ req'[j] = "accepted" => j \in Published'
                      /\ req'[j] = "conflict" => SameKey(db', j) # {}
    BY DEF Answered, SameKey
  <2>1. req'[j] = "accepted" => j \in Published'
    BY MovesStep DEF JobMoves, Answered
  <2>2. ASSUME req'[j] = "conflict" PROVE SameKey(db', j) # {}
    <3>1. SameKey(db, j) # {}
      <4>1. CASE req[j] = "conflict"
        BY <4>1 DEF Answered
      <4>2. CASE FoundByKey(Home[j], j) /\ ~Blocked(Home[j])
        <5>1. PICK i \in Jobs : Rows(Home[j])[i] # "absent" /\ Key[i] = Key[j] /\ Key[j] # NoKey
          BY <4>2 DEF FoundByKey, SameKey
        <5>2. ~(req[i] = "commit" /\ Home[i] = Home[j])
          BY <4>2, JobsAreRequests DEF Blocked, Blocking
        <5>3. db[i] # "absent"
          BY <5>1, <5>2, JobsAreRequests DEF ReadsCommitted
        <5> QED
          BY <5>1, <5>3 DEF SameKey
      <4> QED
        BY <2>2, <4>1, <4>2, MovesStep DEF JobMoves
    <3>2. PICK i \in Jobs : db[i] # "absent" /\ Key[i] = Key[j] /\ Key[j] # NoKey
      BY <3>1 DEF SameKey
    <3> QED
      BY <3>2, TableGrows DEF SameKey
  <2> QED
    BY <2>1, <2>2
<1> QED
  BY <1>1, <1>2, <1>3

\* For every number of processes and requests, a POST that was answered 201, 503
\* or 409 was told the truth, with or without the store.
THEOREM AnswersTrue == Spec => []AnswersAreTrue
<1>1. Init => AnswerInv
  <2> SUFFICES ASSUME Init PROVE AnswerInv
    OBVIOUS
  <2>1. \A p \in Procs, i \in Jobs : Rows(p)[i] = "absent" /\ db[i] = "absent"
    BY DEF Init, StoreInit, Rows, Empty
  <2>2. Published = {} /\ \A j \in Jobs : req[j] = "new"
    BY JobsAreRequests DEF Init, Published
  <2>3. ReadsCommitted
    BY <2>1 DEF ReadsCommitted
  <2>4. NothingEarly /\ Answered
    BY <2>1, <2>2, JobsAreRequests DEF NothingEarly, Answered, Init, StoreInit, Empty
  <2> QED
    BY <2>3, <2>4 DEF AnswerInv
<1>2. Inv /\ AnswerInv => AnswersAreTrue
  <2> SUFFICES ASSUME Inv, AnswerInv, NEW j \in Jobs PROVE AnswersAreTrue!(j)
    BY DEF AnswersAreTrue
  <2>1. j \in Published /\ EnqueuerStore => db[j] # "absent"
    BY DEF Inv, ClaimedFirst
  <2> QED
    BY <2>1 DEF AnswerInv, NothingEarly, Answered, Early
<1> QED
  BY <1>1, <1>2, AnswerNext, InitInv, NextInv, PTL DEF Spec

-----------------------------------------------------------------------------
(* Why the documented outcomes and replays do not come about *)

\* No execution's outcome is ever committed: a row that anyone else can read, or
\* that survives the process, is pending.
THEOREM OutcomesNeverCommitted == Spec => []OnlyPending
<1>1. Inv => OnlyPending
  BY DEF Inv, StoreInv
<1> QED
  BY <1>1, InvHolds, PTL

EntriesOf(j) == {e \in Entries : e <= Len(stream) /\ stream[e] = j}

\* Each entry of a job is owed to the answer of its POST or to a fault.
EntriesAccounted ==
  \A j \in Jobs :
    Cardinality(EntriesOf(j)) <= faults + (IF req[j] = "accepted" THEN 1 ELSE 0)

LEMMA AccountedStep == Inv /\ EntriesAccounted /\ [Next]_vars => EntriesAccounted'
<1> SUFFICES ASSUME Inv, EntriesAccounted, [Next]_vars, NEW j \in Jobs PROVE EntriesAccounted!(j)'
  BY DEF EntriesAccounted
<1>0. /\ faults \in Nat /\ req \in [Requests -> ReqStages] /\ j \in Requests
      /\ stream \in Seq(Jobs) /\ MaxEntries \in Nat
      /\ EntriesAccounted!(j)
  BY OutboxAssumption, JobsAreRequests DEF Inv, TypeOK, ReqStages, EntriesAccounted
<1>1. IsFiniteSet(EntriesOf(j)) /\ Cardinality(EntriesOf(j)) \in Nat
  <2>1. IsFiniteSet(Entries) /\ EntriesOf(j) \subseteq Entries
    BY <1>0, FS_Interval DEF Entries, EntriesOf
  <2> QED
    BY <2>1, FS_Subset, FS_CardinalityType
<1>2. ASSUME stream' = stream, faults' \in Nat, faults <= faults',
             req[j] = "accepted" => req'[j] = "accepted"
      PROVE  EntriesAccounted!(j)'
  <2>1. EntriesOf(j)' = EntriesOf(j)
    BY <1>2 DEF EntriesOf
  <2> QED
    BY <1>0, <1>1, <1>2, <2>1
<1>3. ASSUME NEW r \in Jobs, Len(stream) < MaxEntries, stream' = Append(stream, r)
      PROVE  Cardinality(EntriesOf(j)') = Cardinality(EntriesOf(j)) + (IF r = j THEN 1 ELSE 0)
  <2> DEFINE n == Len(stream) + 1
  <2>1. /\ Len(stream') = n /\ Len(stream) \in Nat /\ n \in Entries /\ stream'[n] = r
        /\ \A e \in 1 .. Len(stream) : stream'[e] = stream[e]
    BY <1>0, <1>3 DEF Entries
  <2>2. \A e \in Entries : /\ e <= Len(stream') <=> e <= Len(stream) \/ e = n
                           /\ e <= Len(stream) => stream'[e] = stream[e] /\ e # n
    BY <2>1 DEF Entries
  <2> HIDE DEF n
  <2>3. r # j => EntriesOf(j)' = EntriesOf(j)
    BY <2>1, <2>2 DEF EntriesOf
  <2>4. r = j => EntriesOf(j)' = EntriesOf(j) \cup {n} /\ n \notin EntriesOf(j)
    BY <2>1, <2>2 DEF EntriesOf
  <2> QED
    BY <1>1, <2>3, <2>4, FS_AddElement
<1>4. ASSUME NEW r \in Requests, XAdd(r) \/ XAddError(r) PROVE EntriesAccounted!(j)'
  <2>1. /\ req[r] = "xadd"
        /\ stream' = stream \/ (r \in Jobs /\ Len(stream) < MaxEntries /\ stream' = Append(stream, r))
        /\ faults' = faults \/ faults' = faults + 1
        /\ stream' = stream \/ req'[r] = "accepted" \/ faults' = faults + 1
        /\ \A q \in Requests : q # r => req'[q] = req[q]
    BY <1>0 , <1>4 DEF XAdd, XAddError, Publish, Goto, Fault
  <2>2. CASE stream' = stream
    BY <1>0, <1>2, <2>1, <2>2
  <2>3. CASE stream' # stream
    <3>1. Cardinality(EntriesOf(j)') = Cardinality(EntriesOf(j)) + (IF r = j THEN 1 ELSE 0)
      BY <1>3, <2>1, <2>3
    <3> QED
      BY <1>0, <1>1, <2>1, <2>3, <3>1
  <2> QED
    BY <2>2, <2>3
<1>5. ASSUME NEW r \in Requests, Fetch(r) \/ Check(r) \/ Begin(r) \/ Insert(r) \/ CommitRow(r)
      PROVE  EntriesAccounted!(j)'
  <2>1. UNCHANGED <<stream, faults>>
    BY <1>5 DEF Fetch, Check, Begin, Insert, CommitRow
  <2>2. req[r] # "accepted" /\ \E s : Goto(r, s)
    BY <1>5 DEF Fetch, Check, Begin, Insert, CommitRow
  <2> QED
    BY <1>0, <1>2, <2>1, <2>2 DEF Goto
<1>6. ASSUME NEW p \in Procs, Crash(p) PROVE EntriesAccounted!(j)'
  <2>1. stream' = stream /\ faults' = faults + 1 /\ (req[j] = "accepted" => req'[j] = "accepted")
    BY <1>0, <1>6 DEF Crash, Fault, Underway, Blocking
  <2> QED
    BY <1>0, <1>2, <2>1
<1>7. ASSUME UNCHANGED <<stream, req>>, faults' = faults \/ faults' = faults + 1
      PROVE  EntriesAccounted!(j)'
  BY <1>0, <1>2, <1>7
<1>8. ASSUME NEW p \in Procs, Start(p) \/ GetJob(p) PROVE EntriesAccounted!(j)'
  BY <1>7, <1>8 DEF Start, GetJob
<1>9. ASSUME NEW e \in Entries, TaskStep(e) \/ TaskError(e) PROVE EntriesAccounted!(j)'
  BY <1>7, <1>9 DEF TaskStep, HandlerReturns, HandlerFails, Ack, Bury, TaskError, AckError, BuryError, Fault
<1>10. CASE UNCHANGED vars
  BY <1>7, <1>10 DEF vars
<1> QED
  BY <1>4, <1>5, <1>6, <1>8, <1>9, <1>10 DEF Next, RequestStep

\* However often dead letters are replayed, a job has no entry but the one its
\* POST was answered for and those of lost replies: a replay adds none.
THEOREM ReplaysAddNothing == Spec => []EntriesAccounted
<1>1. Init => EntriesAccounted
  <2> SUFFICES ASSUME Init, NEW j \in Jobs PROVE EntriesAccounted!(j)
    BY DEF EntriesAccounted
  <2>1. EntriesOf(j) = {} /\ faults = 0
    BY DEF Init, EntriesOf, Entries
  <2>2. Cardinality(EntriesOf(j)) = 0
    BY <2>1, FS_EmptySet
  <2> QED
    BY <2>1, <2>2
<1> QED
  BY <1>1, AccountedStep, InitInv, NextInv, PTL DEF Spec
=============================================================================

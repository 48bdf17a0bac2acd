---------------------------- MODULE SqliteStore ----------------------------
(***************************************************************************)
(* SqliteStore: the jobs table with its unique index, and one connection   *)
(* per process (the store keeps one per thread, and every process runs its *)
(* event loop in one thread).                                               *)
(*                                                                         *)
(* SQLite in WAL mode and Python's sqlite3 module are external.  What the  *)
(* store relies on of them: a connection in no transaction reads what is   *)
(* committed; the first read or write of a transaction pins a snapshot;    *)
(* one connection at a time may write, and only on top of the newest       *)
(* commit; sqlite3 opens a transaction by itself before an INSERT or an    *)
(* UPDATE and leaves it open, also when the statement then fails; BEGIN is *)
(* refused inside a transaction.  A statement that finds the write lock    *)
(* taken waits for busy_timeout and then raises.                           *)
(*                                                                         *)
(* A row is its status.  The attempt count is written beside it and read   *)
(* by nothing but GET /jobs; the other columns never change.               *)
(***************************************************************************)

CONSTANTS
  Jobs,      \* job ids, the primary keys
  Key,       \* idempotency_key of each job
  NoKey,     \* NULL: not in the unique index
  Procs,     \* processes, each with its connection
  NoProc     \* holder of the write lock when it is free

ASSUME StoreAssumption == NoProc \notin Procs

VARIABLES
  db,        \* the committed table
  lock,      \* the connection that holds the write lock
  inTx,      \* conn.in_transaction
  pinned,    \* has the transaction pinned a snapshot?
  snap       \* that snapshot, with the transaction's own writes

storeVars == <<db, lock, inTx, pinned, snap>>

JobStatus == {"pending", "processing", "completed", "failed", "dead"}
Table     == [Jobs -> JobStatus \cup {"absent"}]
Empty     == [j \in Jobs |-> "absent"]

StoreTypeOK ==
  /\ db     \in Table
  /\ lock   \in Procs \cup {NoProc}
  /\ inTx   \in [Procs -> BOOLEAN]
  /\ pinned \in [Procs -> BOOLEAN]
  /\ snap   \in [Procs -> Table]
  /\ \A p \in Procs : pinned[p] => inTx[p]
  /\ \A p \in Procs : lock = p => pinned[p]

StoreInit ==
  /\ db     = Empty
  /\ lock   = NoProc
  /\ inTx   = [p \in Procs |-> FALSE]
  /\ pinned = [p \in Procs |-> FALSE]
  /\ snap   = [p \in Procs |-> Empty]

-----------------------------------------------------------------------------
(* Queries *)

\* What a SELECT on p's connection reads.
Rows(p) == IF pinned[p] THEN snap[p] ELSE db

\* The jobs of table t that the unique index finds for j's idempotency key.
SameKey(t, j) ==
  {i \in Jobs : t[i] # "absent" /\ Key[i] = Key[j] /\ Key[j] # NoKey}

\* Fault variant: the lookup also sees what other connections have not committed.
FoundByKey_Dirty(p, j) == \E q \in Procs : SameKey(Rows(p), j) \cup SameKey(snap[q], j) # {}

\* find_by_idempotency_key returns a job.
FoundByKey(p, j) == SameKey(Rows(p), j) # {}

\* Fault variant: a SELECT that is not stepped to its end keeps its snapshot.
Select_NotFinished(p) ==
  /\ pinned' = [pinned EXCEPT ![p] = TRUE]
  /\ snap'   = [snap EXCEPT ![p] = Rows(p)]
  /\ UNCHANGED <<db, lock, inTx>>

\* A SELECT inside a transaction pins what it reads.
Select(p) ==
  /\ pinned' = [pinned EXCEPT ![p] = inTx[p]]
  /\ snap'   = [snap EXCEPT ![p] = IF inTx[p] THEN Rows(p) ELSE Empty]
  /\ UNCHANGED <<db, lock, inTx>>

\* Can a write statement of p get the lock on top of what p has read?
CanWrite(p) == lock = p \/ (lock = NoProc /\ Rows(p) = db)

-----------------------------------------------------------------------------
(* Writes *)

\* UPDATE jobs SET status = s WHERE id = j, in the transaction that sqlite3
\* opens.  Nothing commits it.  If the lock cannot be had the statement raises.
UpdateStatus(p, j, s) ==
  /\ inTx' = [inTx EXCEPT ![p] = TRUE]
  /\ \/ /\ CanWrite(p)
        /\ lock'   = p
        /\ pinned' = [pinned EXCEPT ![p] = TRUE]
        /\ snap'   = [snap EXCEPT ![p] =
                        [Rows(p) EXCEPT ![j] = IF @ = "absent" THEN @ ELSE s]]
     \/ /\ ~CanWrite(p)
        /\ UNCHANGED <<lock, pinned, snap>>
  /\ UNCHANGED db

\* transaction(): BEGIN IMMEDIATE succeeds, ...
CanBegin(p) == ~inTx[p] /\ lock = NoProc

BeginImmediate(p) ==
  /\ CanBegin(p)
  /\ lock'   = p
  /\ inTx'   = [inTx EXCEPT ![p] = TRUE]
  /\ pinned' = [pinned EXCEPT ![p] = TRUE]
  /\ snap'   = [snap EXCEPT ![p] = db]
  /\ UNCHANGED db

\* ... or raises: inside a transaction at once, else when busy_timeout is over.
BeginRaises(p) == ~CanBegin(p)

\* Fault variant: there is no unique index on idempotency_key.
Violates_PrimaryKeyOnly(p, j) == snap[p][j] # "absent"

\* The INSERT of job j breaks the primary key or the unique index.
Violates(p, j) == snap[p][j] # "absent" \/ SameKey(snap[p], j) # {}

InsertOutbox(p, j) ==
  /\ ~Violates(p, j)
  /\ snap' = [snap EXCEPT ![p][j] = "pending"]
  /\ UNCHANGED <<db, lock, inTx, pinned>>

\* The transaction of p is over.
Release(p) ==
  /\ lock'   = IF lock = p THEN NoProc ELSE lock
  /\ inTx'   = [inTx EXCEPT ![p] = FALSE]
  /\ pinned' = [pinned EXCEPT ![p] = FALSE]
  /\ snap'   = [snap EXCEPT ![p] = Empty]

\* Fault variant: the exception leaves the transaction as it is.
Rollback_Forgotten(p) == UNCHANGED storeVars

\* conn.rollback().
Rollback(p) == Release(p) /\ UNCHANGED db

\* The process ends, and SQLite rolls back what its connection left open.
Disconnect(p) == Release(p) /\ UNCHANGED db

\* conn.commit().
Commit(p) == Release(p) /\ db' = snap[p]
=============================================================================

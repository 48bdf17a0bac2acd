-------------------------- MODULE DeliveryContract --------------------------
(***************************************************************************)
(* What one RelayQ queue promises about every entry of its stream, without *)
(* workers, tasks, semaphores or retries of Redis commands:                 *)
(*                                                                         *)
(*   published -> delivered (leased) -> executed -> outcome -> settled     *)
(*                                                                         *)
(* Entries are delivered in the order they were published, and only        *)
(* eviction makes delivery skip one.  The handler starts at most once per  *)
(* entry, on an entry that was delivered and is not settled.  An entry has *)
(* at most one outcome: the handler succeeded, or the job was buried in    *)
(* the dead-letter queue.  The lease is given up only after the outcome is *)
(* on record, or when the entry itself has been evicted.                    *)
(***************************************************************************)
EXTENDS Naturals

VARIABLES
  published,   \* entries 1..published have been written
  evicted,     \* entries 1..evicted are gone from the stream
  delivered,   \* entries 1..delivered have been handed out or skipped
  leased,      \* delivered and not settled
  executed,    \* entries whose handler was started
  succeeded,   \* entries whose handler returned
  buried       \* entries whose job is in the dead-letter queue

cvars == <<published, evicted, delivered, leased, executed, succeeded, buried>>

Init ==
  /\ published = 0 /\ evicted = 0 /\ delivered = 0
  /\ leased = {} /\ executed = {} /\ succeeded = {} /\ buried = {}

Publish ==
  /\ published' = published + 1
  /\ evicted' \in evicted .. published'
  /\ UNCHANGED <<delivered, leased, executed, succeeded, buried>>

Deliver ==
  \E n \in delivered + 1 .. published :
    /\ n > evicted
    /\ delivered' = n
    /\ leased' = leased \cup {e \in delivered + 1 .. n : e > evicted}
    /\ UNCHANGED <<published, evicted, executed, succeeded, buried>>

Execute(e) ==
  /\ e \in 1 .. delivered
  /\ e \notin executed
  /\ e \in leased \/ e <= evicted
  /\ executed' = executed \cup {e}
  /\ UNCHANGED <<published, evicted, delivered, leased, succeeded, buried>>

Succeed(e) ==
  /\ e \in executed \ (succeeded \cup buried)
  /\ succeeded' = succeeded \cup {e}
  /\ UNCHANGED <<published, evicted, delivered, leased, executed, buried>>

Bury(e) ==
  /\ e \in executed \ (succeeded \cup buried)
  /\ buried' = buried \cup {e}
  /\ UNCHANGED <<published, evicted, delivered, leased, executed, succeeded>>

Settle(e) ==
  /\ e \in leased
  /\ e \in succeeded \cup buried
  /\ leased' = leased \ {e}
  /\ UNCHANGED <<published, evicted, delivered, executed, succeeded, buried>>

\* Recovery finds evicted entries among the leases it claims.
Expire ==
  \E S \in SUBSET {e \in leased : e <= evicted} :
    /\ leased' = leased \ S
    /\ UNCHANGED <<published, evicted, delivered, executed, succeeded, buried>>

Next ==
  \/ Publish
  \/ Deliver
  \/ \E e \in 1 .. published : Execute(e) \/ Succeed(e) \/ Bury(e) \/ Settle(e)
  \/ Expire

Spec == Init /\ [][Next]_cvars
=============================================================================

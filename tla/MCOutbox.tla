------------------------------ MODULE MCOutbox ------------------------------
(***************************************************************************)
(* Constants for TLC: two processes that both serve requests.  Jobs j1 and *)
(* j2 carry the same idempotency key and arrive at different processes; j3 *)
(* has no key and no retries, so that it can become a dead letter, and r1  *)
(* replays it in the other process.                                         *)
(***************************************************************************)
EXTENDS Outbox

CONSTANTS j1, j2, j3, r1, p1, p2, k1

MCKey    == [j \in Jobs |-> IF j = j3 THEN NoKey ELSE k1]
MCTarget == [r \in Replays |-> j3]
MCHome   == [r \in Requests |-> IF r \in {j1, j3} THEN p1 ELSE p2]
MCMaxRetries == [j \in Jobs |-> IF j = j3 THEN 0 ELSE 1]
=============================================================================

----------------------------- MODULE MCDelivery -----------------------------
(* Instances of Delivery for TLC. *)
EXTENDS Delivery, TLC

CONSTANTS j1, j2, j3, w1, w2

\* j1 has a retry left when its handler fails; j2 goes to the DLQ at once.
MCMaxRetries == [j \in Jobs |-> IF j = j1 THEN 1 ELSE 0]

WorkerSymmetry == Permutations(Workers)
=============================================================================

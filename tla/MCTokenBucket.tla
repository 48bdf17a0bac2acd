--------------------------- MODULE MCTokenBucket ---------------------------
(* Instances of TokenBucket for TLC. *)
EXTENDS TokenBucket

CONSTANTS r1, r2, r3, a, b

MCHome == [r \in Requests |-> IF r = r1 THEN a ELSE b]
InStep == [i \in Instances |-> 0]
=============================================================================

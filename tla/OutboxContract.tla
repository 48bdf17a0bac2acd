--------------------------- MODULE OutboxContract ---------------------------
(***************************************************************************)
(* What the outbox promises to callers that send idempotency keys: a job   *)
(* claims its key for good before it is published, a key is claimed by one *)
(* job only, and only a job that has claimed is ever published.            *)
(* Publication may fail to follow, and may happen more than once.          *)
(***************************************************************************)
CONSTANTS Jobs, Key, NoKey

VARIABLES
  claimed,     \* jobs with a committed outbox row
  published    \* jobs with an entry in the stream

vars == <<claimed, published>>

Init == claimed = {} /\ published = {}

Claim(j) ==
  /\ j \notin claimed
  /\ Key[j] = NoKey \/ \A i \in claimed : Key[i] # Key[j]
  /\ claimed' = claimed \cup {j}
  /\ UNCHANGED published

Publish(j) ==
  /\ j \in claimed
  /\ published' = published \cup {j}
  /\ UNCHANGED claimed

Next == \E j \in Jobs : Claim(j) \/ Publish(j)

Spec == Init /\ [][Next]_vars
=============================================================================

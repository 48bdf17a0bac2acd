---------------------------- MODULE TokenBucket ----------------------------
(***************************************************************************)
(* The API's rate limiter: TokenBucketRateLimiter.allow and its Lua        *)
(* script, called by rate_limit_middleware for every request.              *)
(*                                                                         *)
(* All API instances share one bucket, the Redis hash "ratelimit:api".     *)
(* The script runs atomically on the server, but the time it refills by is *)
(* read by the caller, in whole seconds of its own clock, before the       *)
(* command is sent; the commands of concurrent requests reach the server   *)
(* in any order.                                                            *)
(***************************************************************************)
EXTENDS Integers

CONSTANTS
  Requests,     \* request slots of all API instances; each is used again
  Instances,    \* API processes
  Home,         \* the instance that serves a request slot
  Skew,         \* how far an instance's clock runs ahead, in seconds
  Rate,         \* tokens per second
  Capacity,     \* the burst the bucket holds
  MaxTime,      \* bound: seconds the run lasts
  MaxRestarts   \* bound: restarts of Redis

ASSUME BucketAssumption ==
  /\ Home \in [Requests -> Instances]
  /\ Skew \in [Instances -> Nat]
  /\ Rate \in Nat /\ Capacity \in Nat
  /\ MaxTime \in Nat /\ MaxRestarts \in Nat

VARIABLES
  clock,        \* true time
  exists,       \* is the hash there?
  tokens,       \* field "tokens"
  last,         \* field "last_refill"
  script,       \* is the script in the server's cache?
  hash,         \* does the instance have _script_hash?
  pc,           \* where allow() of each request is
  now,          \* the time that the request has read
  restarts,
  granted,      \* history: requests let through since the hash was created
  first,        \* history: last_refill of the first call since then
  regress       \* history: seconds by which last_refill moved back since then

bucketVars  == <<exists, tokens, last>>
historyVars == <<granted, first, regress>>
vars == <<clock, bucketVars, script, hash, pc, now, restarts, historyVars>>

TypeOK ==
  /\ clock \in 0 .. MaxTime
  /\ exists \in BOOLEAN
  /\ tokens \in 0 .. Capacity
  /\ last \in Nat
  /\ script \in BOOLEAN
  /\ hash \in [Instances -> BOOLEAN]
  /\ pc \in [Requests -> {"idle", "load", "sent"}]
  /\ now \in [Requests -> Nat]
  /\ restarts \in 0 .. MaxRestarts
  /\ granted \in Nat /\ first \in Nat /\ regress \in Nat

Init ==
  /\ clock = 0
  /\ exists = FALSE /\ tokens = 0 /\ last = 0
  /\ script = FALSE
  /\ hash = [i \in Instances |-> FALSE]
  /\ pc = [r \in Requests |-> "idle"]
  /\ now = [r \in Requests |-> 0]
  /\ restarts = 0
  /\ granted = 0 /\ first = 0 /\ regress = 0

Tick ==
  /\ clock < MaxTime
  /\ clock' = clock + 1
  /\ UNCHANGED <<bucketVars, script, hash, pc, now, restarts, historyVars>>

\* Fault variant: the time is rounded up to whole seconds.
Send_RoundsUp(r) ==
  /\ pc' = [pc EXCEPT ![r] = "sent"]
  /\ now' = [now EXCEPT ![r] = clock + Skew[Home[r]] + 1]

\* now = int(time.time()), and the EVALSHA is on its way.
Send(r) ==
  /\ pc' = [pc EXCEPT ![r] = "sent"]
  /\ now' = [now EXCEPT ![r] = clock + Skew[Home[r]]]

\* Fault variant: _script_hash is computed and set before the SCRIPT LOAD.
Arrive_HashFirst(r) ==
  /\ pc[r] = "idle"
  /\ \/ hash[Home[r]] /\ Send(r)
     \/ ~hash[Home[r]] /\ pc' = [pc EXCEPT ![r] = "load"] /\ UNCHANGED now
  /\ hash' = [hash EXCEPT ![Home[r]] = TRUE]
  /\ UNCHANGED <<clock, bucketVars, script, restarts, historyVars>>

\* allow() begins: without a hash it awaits SCRIPT LOAD first.
Arrive(r) ==
  /\ pc[r] = "idle"
  /\ \/ hash[Home[r]] /\ Send(r)
     \/ ~hash[Home[r]] /\ pc' = [pc EXCEPT ![r] = "load"] /\ UNCHANGED now
  /\ UNCHANGED <<clock, bucketVars, script, hash, restarts, historyVars>>

ScriptLoad(r) ==
  /\ pc[r] = "load"
  /\ script' = TRUE
  /\ hash' = [hash EXCEPT ![Home[r]] = TRUE]
  /\ Send(r)
  /\ UNCHANGED <<clock, bucketVars, restarts, historyVars>>

\* What the script makes of the stored fields at time t.
LastRefill(t) == IF exists THEN last ELSE t
Elapsed(t) == IF t > LastRefill(t) THEN t - LastRefill(t) ELSE 0

\* Fault variant: the refill is not capped by the capacity.
Refilled_Uncapped(t) == (IF exists THEN tokens ELSE Capacity) + Elapsed(t) * Rate

\* The capped refill.
Refilled(t) ==
  LET filled == (IF exists THEN tokens ELSE Capacity) + Elapsed(t) * Rate
  IN  IF filled < Capacity THEN filled ELSE Capacity

\* How far last_refill moves back when the script runs with time t.
Backwards(t) == IF exists /\ t < last THEN last - t ELSE 0

\* Fault variant: a token is taken although there is none left.
Evalsha_GrantsAtZero(r) ==
  LET t == now[r]
  IN  /\ pc[r] = "sent" /\ script
      /\ granted' = granted + 1
      /\ tokens' = IF Refilled(t) >= 1 THEN Refilled(t) - 1 ELSE 0
      /\ exists' = TRUE
      /\ last' = t
      /\ first' = IF exists THEN first ELSE t
      /\ regress' = regress + Backwards(t)
      /\ pc' = [pc EXCEPT ![r] = "idle"]
      /\ UNCHANGED <<clock, script, hash, now, restarts>>

\* The script, for cost 1: refill, then take a token or refuse.
Evalsha(r) ==
  LET t == now[r]
  IN  /\ pc[r] = "sent" /\ script
      /\ \/ /\ Refilled(t) >= 1
            /\ tokens' = Refilled(t) - 1
            /\ granted' = granted + 1
         \/ /\ Refilled(t) < 1
            /\ tokens' = Refilled(t)
            /\ UNCHANGED granted
      /\ exists' = TRUE
      /\ last' = t
      /\ first' = IF exists THEN first ELSE t
      /\ regress' = regress + Backwards(t)
      /\ pc' = [pc EXCEPT ![r] = "idle"]
      /\ UNCHANGED <<clock, script, hash, now, restarts>>

\* The server does not know the hash: EVALSHA raises, the request fails, and
\* _script_hash stays as it is.
NoScript(r) ==
  /\ pc[r] = "sent" /\ ~script
  /\ pc' = [pc EXCEPT ![r] = "idle"]
  /\ UNCHANGED <<clock, bucketVars, script, hash, now, restarts, historyVars>>

\* A call to Redis fails: the request fails and _script_hash stays as it is.  The
\* script may have been loaded all the same; a bucket that was debited although
\* the reply was lost is Evalsha.
CallFails(r) ==
  /\ pc[r] \in {"load", "sent"}
  /\ pc' = [pc EXCEPT ![r] = "idle"]
  /\ \/ pc[r] = "load" /\ script' = TRUE
     \/ UNCHANGED script
  /\ UNCHANGED <<clock, bucketVars, hash, now, restarts, historyVars>>

\* Redis restarts: the script cache is gone, the hash survives if persisted.
Restart ==
  /\ restarts < MaxRestarts
  /\ restarts' = restarts + 1
  /\ script' = FALSE
  /\ \/ UNCHANGED <<bucketVars, historyVars>>
     \/ /\ exists' = FALSE /\ tokens' = 0 /\ last' = 0
        /\ granted' = 0 /\ first' = 0 /\ regress' = 0
  /\ UNCHANGED <<clock, hash, pc, now>>

Next ==
  \/ Tick
  \/ Restart
  \/ \E r \in Requests :
       Arrive(r) \/ ScriptLoad(r) \/ Evalsha(r) \/ NoScript(r) \/ CallFails(r)

Spec == Init /\ [][Next]_vars

-----------------------------------------------------------------------------

\* Requests let through, plus what is left in the bucket, never exceed the burst
\* plus the rate over the time that last_refill has advanced, where each second
\* that a late or slow-clocked request takes it back is credited once more.
GrantsAccounted ==
  exists => tokens + granted <= Capacity + Rate * (last - first + regress)

\* What is true of the "No race" comment: measured by the clock of one of the
\* instances, no more requests pass than the burst and the rate allow, except for
\* the seconds by which late or slow-clocked requests took last_refill back.
GrantsWithinTime ==
  exists => \E i \in Instances :
    granted <= Capacity + Rate * (clock + Skew[i] - first + regress)

\* Unless Redis has been restarted, no request fails because the server does not
\* know the script, however the first requests of an instance overlap: allow()
\* has a hash to send only after a SCRIPT LOAD has been answered.
NoScriptOnlyAfterRestart ==
  \A r \in Requests : pc[r] = "sent" /\ ~script => restarts > 0

\* The class comment of TokenBucketRateLimiter: refill and consumption are one
\* atomic eval, "No race".  With clocks in step, no more requests pass than the
\* burst and the rate allow for the time since the first one.
NoRace == exists => granted <= Capacity + Rate * (clock - first)
=============================================================================

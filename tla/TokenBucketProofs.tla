------------------------- MODULE TokenBucketProofs -------------------------
(***************************************************************************)
(* The rate limiter's accounting holds for every rate, capacity, clock     *)
(* skew and order of arrival.                                               *)
(***************************************************************************)
EXTENDS TokenBucket, TLAPS

\* Before the hash is created nothing has been granted.
FreshIsEmpty == ~exists => granted = 0 /\ regress = 0

Inv == TypeOK /\ GrantsAccounted /\ FreshIsEmpty

LEMMA InvInit == Init => Inv
<1> SUFFICES ASSUME Init PROVE Inv
  OBVIOUS
<1>1. TypeOK
  <2>1. clock \in 0 .. MaxTime /\ tokens \in 0 .. Capacity /\ last \in Nat /\ restarts \in 0 .. MaxRestarts
    BY BucketAssumption DEF Init
  <2>2. granted \in Nat /\ first \in Nat /\ regress \in Nat
    BY DEF Init
  <2>3. exists \in BOOLEAN /\ script \in BOOLEAN /\ hash \in [Instances -> BOOLEAN]
    BY DEF Init
  <2>4. pc \in [Requests -> {"idle", "load", "sent"}] /\ now \in [Requests -> Nat]
    BY DEF Init
  <2> QED
    BY <2>1, <2>2, <2>3, <2>4 DEF TypeOK
<1> QED
  BY <1>1 DEF Init, Inv, GrantsAccounted, FreshIsEmpty

\* The script never fills the bucket past its capacity, nor by more than the
\* rate over the time that has passed.
LEMMA RefillBound ==
  ASSUME TypeOK, NEW t \in Nat
  PROVE  /\ Refilled(t) \in 0 .. Capacity
         /\ Elapsed(t) \in Nat
         /\ exists => Refilled(t) <= tokens + Elapsed(t) * Rate
<1>1. Elapsed(t) \in Nat
  BY DEF Elapsed, LastRefill, TypeOK
<1>2. Elapsed(t) * Rate \in Nat
  BY <1>1, BucketAssumption
<1>3. tokens \in Nat /\ Capacity \in Nat
  BY BucketAssumption DEF TypeOK
<1> QED
  BY <1>1, <1>2, <1>3, BucketAssumption DEF Refilled

\* Running the script with time t moves last_refill - first + regress forward by
\* exactly the time it refills for.
LEMMA CreditStep ==
  ASSUME TypeOK, exists, NEW t \in Nat
  PROVE  /\ Backwards(t) \in Nat
         /\ t - first + (regress + Backwards(t)) = (last - first + regress) + Elapsed(t)
BY DEF TypeOK, Backwards, Elapsed, LastRefill

LEMMA EvalshaStep ==
  ASSUME Inv, NEW r \in Requests, Evalsha(r)
  PROVE  Inv'
<1> DEFINE t == now[r]
           X == last - first + regress
<1> USE DEF Inv
<1>0. t \in Nat /\ pc \in [Requests -> {"idle", "load", "sent"}]
  BY DEF TypeOK
<1>1. Refilled(t) \in 0 .. Capacity /\ Elapsed(t) \in Nat /\ (exists => Refilled(t) <= tokens + Elapsed(t) * Rate)
  BY <1>0, RefillBound
<1>2. Backwards(t) \in Nat
  BY <1>0 DEF Backwards, TypeOK
<1>3. /\ tokens' \in 0 .. Capacity
      /\ granted' \in Nat
      /\ tokens' + granted' = Refilled(t) + granted
      /\ exists' = TRUE /\ last' = t /\ regress' = regress + Backwards(t)
      /\ first' = IF exists THEN first ELSE t
  BY <1>1, BucketAssumption DEF Evalsha, TypeOK
<1>4. TypeOK'
  BY <1>0, <1>2, <1>3 DEF Evalsha, TypeOK
<1>5. GrantsAccounted'
  <2>1. CASE exists
    <3>1. last' - first' + regress' = X + Elapsed(t)
      BY <1>0, <1>3, <2>1, CreditStep DEF TypeOK
    <3>2. X \in Int /\ Rate \in Nat /\ Capacity \in Nat
      BY BucketAssumption DEF TypeOK
    <3>3. Rate * (X + Elapsed(t)) = Rate * X + Elapsed(t) * Rate
      BY <1>1, <3>2
    <3>4. tokens + granted <= Capacity + Rate * X
      BY <2>1 DEF GrantsAccounted
    <3>5. Rate * X \in Int /\ Elapsed(t) * Rate \in Int /\ tokens \in Int /\ granted \in Int
      BY <1>1, <3>2 DEF TypeOK
    <3>6. Refilled(t) \in Int /\ Refilled(t) <= tokens + Elapsed(t) * Rate
      BY <1>1, <2>1, BucketAssumption
    <3>7. Refilled(t) + granted <= Capacity + (Rate * X + Elapsed(t) * Rate)
      BY <3>2, <3>4, <3>5, <3>6
    <3> QED
      BY <1>3, <3>1, <3>3, <3>7 DEF GrantsAccounted
  <2>2. CASE ~exists
    <3>1. granted = 0 /\ regress = 0 /\ Backwards(t) = 0
      BY <2>2 DEF FreshIsEmpty, Backwards
    <3>2. last' - first' + regress' = 0
      BY <1>0, <1>3, <2>2, <3>1
    <3>3. tokens' + granted' <= Capacity
      <4>1. Refilled(t) \in Int /\ Refilled(t) <= Capacity /\ Refilled(t) + 0 = Refilled(t)
        BY <1>1, BucketAssumption
      <4>2. tokens' + granted' = Refilled(t) + 0
        BY <1>3, <3>1
      <4> QED
        BY <4>1, <4>2
    <3>4. Rate * 0 = 0 /\ Capacity + 0 = Capacity
      BY BucketAssumption
    <3>5. Capacity + Rate * (last' - first' + regress') = Capacity
      BY <3>2, <3>4, BucketAssumption
    <3>6. tokens' + granted' <= Capacity + Rate * (last' - first' + regress')
      BY <3>3, <3>5, Zenon
    <3> QED
      BY <3>6, Zenon DEF GrantsAccounted
  <2> QED
    BY <2>1, <2>2
<1> QED
  BY <1>3, <1>4, <1>5 DEF FreshIsEmpty

LEMMA InvNext == Inv /\ [Next]_vars => Inv'
<1> SUFFICES ASSUME Inv, [Next]_vars PROVE Inv'
  OBVIOUS
<1> USE BucketAssumption DEF Inv
<1>1. ASSUME UNCHANGED <<bucketVars, historyVars>>, TypeOK' PROVE Inv'
  BY <1>1 DEF bucketVars, historyVars, GrantsAccounted, FreshIsEmpty
<1>2. CASE UNCHANGED vars
  BY <1>1, <1>2 DEF vars, bucketVars, historyVars, TypeOK
<1>3. CASE Tick
  BY <1>1, <1>3 DEF Tick, bucketVars, historyVars, TypeOK
<1>4. CASE Restart
  <2>1. TypeOK'
    <3>1. restarts' \in 0 .. MaxRestarts
      BY <1>4 DEF Restart, TypeOK
    <3>2. script' \in BOOLEAN /\ exists' \in BOOLEAN
      BY <1>4 DEF Restart, TypeOK, bucketVars
    <3>3. tokens' \in 0 .. Capacity /\ last' \in Nat /\ granted' \in Nat /\ first' \in Nat /\ regress' \in Nat
      BY <1>4 DEF Restart, TypeOK, bucketVars, historyVars
    <3> QED
      BY <1>4, <3>1, <3>2, <3>3 DEF Restart, TypeOK
  <2> QED
    BY <1>4, <2>1 DEF Restart, bucketVars, historyVars, GrantsAccounted, FreshIsEmpty
<1>5. ASSUME NEW r \in Requests, Send(r) PROVE pc' \in [Requests -> {"idle", "load", "sent"}] /\ now' \in [Requests -> Nat]
  <2>1. clock + Skew[Home[r]] \in Nat
    BY DEF TypeOK
  <2> QED
    BY <1>5, <2>1 DEF Send, TypeOK
<1>6. ASSUME NEW r \in Requests, Arrive(r) PROVE Inv'
  <2>1. pc' \in [Requests -> {"idle", "load", "sent"}] /\ now' \in [Requests -> Nat]
    BY <1>5, <1>6 DEF Arrive, TypeOK
  <2> QED
    BY <1>1, <1>6, <2>1 DEF Arrive, bucketVars, historyVars, TypeOK
<1>7. ASSUME NEW r \in Requests, ScriptLoad(r) PROVE Inv'
  <2>1. hash' \in [Instances -> BOOLEAN] /\ script' \in BOOLEAN
    BY <1>7 DEF ScriptLoad, TypeOK
  <2> QED
    BY <1>1, <1>5, <1>7, <2>1 DEF ScriptLoad, bucketVars, historyVars, TypeOK
<1>8. ASSUME NEW r \in Requests, NoScript(r) PROVE Inv'
  BY <1>1, <1>8 DEF NoScript, bucketVars, historyVars, TypeOK
<1>9. ASSUME NEW r \in Requests, CallFails(r) PROVE Inv'
  <2>1. script' \in BOOLEAN /\ pc' \in [Requests -> {"idle", "load", "sent"}]
    BY <1>9 DEF CallFails, TypeOK
  <2> QED
    BY <1>1, <1>9, <2>1 DEF CallFails, bucketVars, historyVars, TypeOK
<1> QED
  BY <1>2, <1>3, <1>4, <1>6, <1>7, <1>8, <1>9, EvalshaStep DEF Next

\* The script keeps the bucket between empty and its capacity, also when a clock
\* runs ahead or Redis is restarted.
THEOREM BucketTypeCorrect == Spec => []TypeOK
<1>1. Inv => TypeOK
  BY DEF Inv
<1> QED
  BY <1>1, InvInit, InvNext, PTL DEF Spec

\* However clocks differ and whatever order requests reach the server in, the
\* grants stay within the burst plus the rate over the credited time.
THEOREM Accounting == Spec => []GrantsAccounted
<1>1. Inv => GrantsAccounted
  BY DEF Inv
<1> QED
  BY <1>1, InvInit, InvNext, PTL DEF Spec

-----------------------------------------------------------------------------
(* Real time *)

\* A time on its way to the server, and the one stored there, was read from some
\* instance's clock, which has not gone back since.
ReadFromClock ==
  /\ \A r \in Requests : now[r] <= clock + Skew[Home[r]]
  /\ exists => \E i \in Instances : last <= clock + Skew[i]

LEMMA ClockNext == Inv /\ ReadFromClock /\ [Next]_vars => ReadFromClock'
<1> SUFFICES ASSUME Inv, ReadFromClock, [Next]_vars PROVE ReadFromClock'
  OBVIOUS
<1>0. /\ clock \in Nat /\ last \in Nat /\ now \in [Requests -> Nat]
      /\ Home \in [Requests -> Instances] /\ Skew \in [Instances -> Nat]
  BY BucketAssumption DEF Inv, TypeOK
<1>1. ASSUME UNCHANGED <<bucketVars, now>>, clock' \in Nat, clock <= clock' PROVE ReadFromClock'
  <2>1. \A r \in Requests : now'[r] <= clock' + Skew[Home[r]]
    BY <1>0, <1>1 DEF ReadFromClock
  <2>2. exists' => \E i \in Instances : last' <= clock' + Skew[i]
    BY <1>0, <1>1 DEF ReadFromClock, bucketVars
  <2> QED
    BY <2>1, <2>2 DEF ReadFromClock
<1>2. CASE Tick \/ UNCHANGED vars
  BY <1>0, <1>1, <1>2 DEF Tick, vars
<1>3. CASE Restart
  BY <1>3 DEF Restart, ReadFromClock, bucketVars
<1>4. ASSUME NEW r \in Requests, Send(r), UNCHANGED <<clock, bucketVars>> PROVE ReadFromClock'
  <2>1. now' = [now EXCEPT ![r] = clock + Skew[Home[r]]]
    BY <1>4 DEF Send
  <2>2. \A q \in Requests : now'[q] <= clock + Skew[Home[q]]
    BY <1>0, <2>1 DEF ReadFromClock
  <2> QED
    BY <1>4, <2>2 DEF ReadFromClock, bucketVars
<1>5. ASSUME NEW r \in Requests, Arrive(r) \/ ScriptLoad(r) PROVE ReadFromClock'
  BY <1>0, <1>1, <1>4, <1>5 DEF Arrive, ScriptLoad
<1>6. ASSUME NEW r \in Requests, Evalsha(r) PROVE ReadFromClock'
  <2>1. UNCHANGED <<clock, now>> /\ last' = now[r] /\ Home[r] \in Instances
    BY <1>0, <1>6 DEF Evalsha
  <2> QED
    BY <2>1 DEF ReadFromClock
<1>7. ASSUME NEW r \in Requests, NoScript(r) \/ CallFails(r) PROVE ReadFromClock'
  BY <1>0, <1>1, <1>7 DEF NoScript, CallFails
<1> QED
  BY <1>2, <1>3, <1>5, <1>6, <1>7 DEF Next

LEMMA TimesMonotone ==
  ASSUME NEW k \in Nat, NEW x \in Int, NEW y \in Int, x <= y
  PROVE  k * x <= k * y
<1>1. k * (y - x) >= 0
  OBVIOUS
<1>2. k * (y - x) = k * y - k * x /\ k * x \in Int /\ k * y \in Int
  OBVIOUS
<1> QED
  BY <1>1, <1>2

\* For every rate, capacity and skew of the clocks, the requests let through stay
\* within the burst and the rate over real time, plus what was taken back.
THEOREM WithinRealTime == Spec => []GrantsWithinTime
<1>1. Init => ReadFromClock
  BY BucketAssumption DEF Init, ReadFromClock
<1>2. Inv /\ ReadFromClock => GrantsWithinTime
  <2> SUFFICES ASSUME Inv, ReadFromClock, exists PROVE GrantsWithinTime
    BY DEF GrantsWithinTime
  <2>1. PICK i \in Instances : last <= clock + Skew[i]
    BY DEF ReadFromClock
  <2> DEFINE x == last - first + regress
             y == clock + Skew[i] - first + regress
  <2>2. x \in Int /\ y \in Int /\ x <= y
    BY <2>1, BucketAssumption DEF Inv, TypeOK
  <2>3. tokens \in Nat /\ granted \in Nat /\ tokens + granted <= Capacity + Rate * x
    BY BucketAssumption DEF Inv, TypeOK, GrantsAccounted
  <2> HIDE DEF x, y
  <2>4. Rate * x <= Rate * y /\ Rate * x \in Int /\ Rate * y \in Int
    BY <2>2, TimesMonotone, BucketAssumption
  <2>5. granted <= Capacity + Rate * y
    BY <2>3, <2>4, BucketAssumption
  <2> QED
    BY <2>5 DEF GrantsWithinTime, y
<1> QED
  BY <1>1, <1>2, InvInit, InvNext, ClockNext, PTL DEF Spec

\* The "No race" comment holds exactly as far as it can: with clocks in step, and
\* as long as no request has reached the server after one that read a later second.
THEOREM NoRaceInOrder ==
  ASSUME \A i \in Instances : Skew[i] = 0
  PROVE  Spec => [](regress = 0 => NoRace)
<1>1. Inv /\ GrantsWithinTime => (regress = 0 => NoRace)
  BY BucketAssumption DEF Inv, TypeOK, GrantsWithinTime, NoRace
<1> QED
  BY <1>1, WithinRealTime, InvInit, InvNext, PTL DEF Spec

-----------------------------------------------------------------------------
(* The script cache *)

\* The server has the script when an instance has its hash, or a restart has
\* emptied the cache since.
HashIsLoaded ==
  /\ \A i \in Instances : hash[i] /\ ~script => restarts > 0
  /\ \A r \in Requests : pc[r] = "sent" => hash[Home[r]]

LEMMA HashNext == Inv /\ HashIsLoaded /\ [Next]_vars => HashIsLoaded'
<1> SUFFICES ASSUME Inv, HashIsLoaded, [Next]_vars PROVE HashIsLoaded'
  OBVIOUS
<1>0. /\ hash \in [Instances -> BOOLEAN] /\ pc \in [Requests -> {"idle", "load", "sent"}]
      /\ restarts \in Nat /\ Home \in [Requests -> Instances]
  BY BucketAssumption DEF Inv, TypeOK
<1>1. CASE UNCHANGED <<script, hash, pc, restarts>>
  BY <1>1 DEF HashIsLoaded
<1>2. CASE Restart
  <2>1. restarts' > 0 /\ UNCHANGED <<hash, pc>>
    BY <1>0, <1>2 DEF Restart
  <2> QED
    BY <2>1 DEF HashIsLoaded
<1>3. ASSUME NEW r \in Requests, Arrive(r) PROVE HashIsLoaded'
  BY <1>0, <1>3 DEF Arrive, Send, HashIsLoaded
<1>4. ASSUME NEW r \in Requests, ScriptLoad(r) PROVE HashIsLoaded'
  <2>1. script' = TRUE /\ hash' = [hash EXCEPT ![Home[r]] = TRUE] /\ pc' = [pc EXCEPT ![r] = "sent"]
    BY <1>4 DEF ScriptLoad, Send
  <2> QED
    BY <1>0, <2>1 DEF HashIsLoaded
<1>5. ASSUME NEW r \in Requests, Evalsha(r) \/ NoScript(r) \/ CallFails(r) PROVE HashIsLoaded'
  <2>1. /\ UNCHANGED <<hash, restarts>> /\ pc' = [pc EXCEPT ![r] = "idle"]
        /\ script => script'
    BY <1>5 DEF Evalsha, NoScript, CallFails
  <2> QED
    BY <1>0, <2>1 DEF HashIsLoaded
<1>6. CASE Tick \/ UNCHANGED vars
  BY <1>1, <1>6 DEF Tick, vars
<1> QED
  BY <1>2, <1>3, <1>4, <1>5, <1>6 DEF Next

\* However many instances there are and however their first requests overlap,
\* EVALSHA is refused for want of the script only after a restart of Redis.
THEOREM ScriptIsKnown == Spec => []NoScriptOnlyAfterRestart
<1>1. Init => HashIsLoaded
  BY BucketAssumption DEF Init, HashIsLoaded
<1>2. HashIsLoaded => NoScriptOnlyAfterRestart
  BY BucketAssumption DEF HashIsLoaded, NoScriptOnlyAfterRestart
<1> QED
  BY <1>1, <1>2, InvInit, InvNext, HashNext, PTL DEF Spec
=============================================================================

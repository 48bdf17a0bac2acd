--------------------------- MODULE CircuitBreaker ---------------------------
(***************************************************************************)
(* The circuit breaker of the API: record_failure, maybe_trip, is_open and *)
(* reset, over three Redis keys that all callers share.                    *)
(*                                                                         *)
(* The program does not instantiate the class, so callers call its methods *)
(* in any order.  Each method is a sequence of Redis round trips; a step is *)
(* one command together with what the method does when the reply comes.    *)
(* Callers read one clock, but at different moments: a time is read before *)
(* the command that uses it is served.                                      *)
(***************************************************************************)
EXTENDS Integers, FiniteSets

CONSTANTS
  Callers,          \* tasks that use the breaker
  FailureThreshold, \* failure_threshold
  Window,           \* window_seconds
  HalfOpenAfter,    \* half_open_after
  MaxTime           \* bound: the time the run lasts

ASSUME BreakerAssumption ==
  /\ FailureThreshold \in Nat \ {0}
  /\ Window \in Nat /\ HalfOpenAfter \in Nat /\ MaxTime \in Nat

VARIABLES
  clock,
  failures,     \* the sorted set: scores, each with its own text as member
  state,        \* key ":state"
  lastFailure,  \* key ":last_failure"
  pc,           \* the command that each caller awaits
  now,          \* the time it has read
  recorded,     \* history: times of all failures on record
  trips,        \* history: times of the trips that set the state to OPEN
  cut           \* history: since the last full trip or reset, was a trip cut
                \* off between its two writes?

keyVars     == <<failures, state, lastFailure>>
historyVars == <<recorded, trips, cut>>
vars        == <<clock, keyVars, pc, now, historyVars>>

NoTime == -1
Time   == 0 .. MaxTime

TypeOK ==
  /\ clock       \in Time
  /\ failures    \in SUBSET Time
  /\ state       \in {"none", "OPEN", "HALF_OPEN"}
  /\ lastFailure \in Time \cup {NoTime}
  /\ pc          \in [Callers -> {"idle", "record", "count", "open", "last",
                                  "state", "deadline", "probe"}]
  /\ now         \in [Callers -> Time]
  /\ recorded    \in SUBSET Time /\ failures \subseteq recorded
  /\ trips       \in SUBSET Time
  /\ cut         \in BOOLEAN

Init ==
  /\ clock       = 0
  /\ failures    = {}
  /\ state       = "none"
  /\ lastFailure = NoTime
  /\ pc          = [c \in Callers |-> "idle"]
  /\ now         = [c \in Callers |-> 0]
  /\ recorded    = {} /\ trips = {} /\ cut = FALSE

Tick ==
  /\ clock < MaxTime
  /\ clock' = clock + 1
  /\ UNCHANGED <<keyVars, pc, now, historyVars>>

Goto(c, s) == pc' = [pc EXCEPT ![c] = s]

\* A method that reads the time first.
Enter(c, s) ==
  /\ pc[c] = "idle"
  /\ Goto(c, s)
  /\ now' = [now EXCEPT ![c] = clock]
  /\ UNCHANGED <<clock, keyVars, historyVars>>

-----------------------------------------------------------------------------
(* record_failure *)

BeginRecord(c) == Enter(c, "record")

\* Fault variant: the score is the time at which the failure leaves the window.
Record_ByExpiry(c) ==
  /\ pc[c] = "record"
  /\ failures' = {f \in failures \cup {now[c] + Window} : f > now[c]}
  /\ recorded' = recorded \cup {now[c]}
  /\ Goto(c, "idle")
  /\ UNCHANGED <<clock, state, lastFailure, now, trips, cut>>

\* ZADD and ZREMRANGEBYSCORE, one transaction.
Record(c) ==
  /\ pc[c] = "record"
  /\ failures' = {f \in failures \cup {now[c]} : f > now[c] - Window}
  /\ recorded' = recorded \cup {now[c]}
  /\ Goto(c, "idle")
  /\ UNCHANGED <<clock, state, lastFailure, now, trips, cut>>

-----------------------------------------------------------------------------
(* maybe_trip *)

BeginTrip(c) == Enter(c, "count")

\* The times of a set that lie in the window of time t, both ends included.
InWindow(times, t) == {f \in times : t - Window <= f /\ f <= t}

\* Fault variant: ZCARD, which also counts what has left the window.
Count_All(c) ==
  /\ pc[c] = "count"
  /\ Goto(c, IF Cardinality(failures) >= FailureThreshold THEN "open" ELSE "idle")
  /\ UNCHANGED <<clock, keyVars, now, historyVars>>

Count(c) ==
  /\ pc[c] = "count"
  /\ Goto(c, IF Cardinality(InWindow(failures, now[c])) >= FailureThreshold
             THEN "open" ELSE "idle")
  /\ UNCHANGED <<clock, keyVars, now, historyVars>>

SetOpen(c) ==
  /\ pc[c] = "open"
  /\ state' = "OPEN"
  /\ trips' = trips \cup {now[c]}
  /\ Goto(c, "last")
  /\ UNCHANGED <<clock, failures, lastFailure, now, recorded, cut>>

SetLast(c) ==
  /\ pc[c] = "last"
  /\ lastFailure' = now[c]
  /\ cut' = FALSE
  /\ Goto(c, "idle")
  /\ UNCHANGED <<clock, failures, state, now, recorded, trips>>

-----------------------------------------------------------------------------
(* is_open *)

BeginIsOpen(c) ==
  /\ pc[c] = "idle"
  /\ Goto(c, "state")
  /\ UNCHANGED <<clock, keyVars, now, historyVars>>

\* Anything but OPEN lets the caller through at once.
GetState(c) ==
  /\ pc[c] = "state"
  /\ Goto(c, IF state = "OPEN" THEN "deadline" ELSE "idle")
  /\ UNCHANGED <<clock, keyVars, now, historyVars>>

\* Fault variant: the deadline itself counts as passed.
Expired_AtDeadline == lastFailure # NoTime /\ clock - lastFailure >= HalfOpenAfter

\* The time since last_failure, read when the reply comes.
Expired == lastFailure # NoTime /\ clock - lastFailure > HalfOpenAfter

GetLast(c) ==
  /\ pc[c] = "deadline"
  /\ Goto(c, IF Expired THEN "probe" ELSE "idle")
  /\ UNCHANGED <<clock, keyVars, now, historyVars>>

Probe(c) ==
  /\ pc[c] = "probe"
  /\ state' = "HALF_OPEN"
  /\ Goto(c, "idle")
  /\ UNCHANGED <<clock, failures, lastFailure, now, historyVars>>

-----------------------------------------------------------------------------

\* Fault variant: the state key is not among those deleted.
Reset_KeepsState ==
  /\ failures' = {} /\ lastFailure' = NoTime
  /\ cut' = FALSE
  /\ UNCHANGED <<clock, state, pc, now, recorded, trips>>

\* reset: one DEL of the three keys.
Reset ==
  /\ failures' = {} /\ state' = "none" /\ lastFailure' = NoTime
  /\ cut' = FALSE
  /\ UNCHANGED <<clock, pc, now, recorded, trips>>

\* A call ends in the middle: its process dies, it is cancelled, or Redis
\* fails.  A command that took effect without its reply is that command's step
\* followed by this one.
Abort(c) ==
  /\ pc[c] # "idle"
  /\ Goto(c, "idle")
  /\ cut' = (cut \/ pc[c] = "last")
  /\ UNCHANGED <<clock, keyVars, now, recorded, trips>>

CallerStep(c) ==
  \/ BeginRecord(c) \/ Record(c)
  \/ BeginTrip(c) \/ Count(c) \/ SetOpen(c) \/ SetLast(c)
  \/ BeginIsOpen(c) \/ GetState(c) \/ GetLast(c) \/ Probe(c)
  \/ Abort(c)

Next == Tick \/ Reset \/ \E c \in Callers : CallerStep(c)

Spec == Init /\ [][Next]_vars

-----------------------------------------------------------------------------
(* Safety *)

\* However the calls overlap and whatever has been trimmed or reset meanwhile,
\* the breaker is only opened for a time t in whose window FailureThreshold
\* failures were recorded, and it is never OPEN without such a trip.
TripJustified ==
  /\ \A t \in trips : Cardinality(InWindow(recorded, t)) >= FailureThreshold
  /\ state = "OPEN" => trips # {}

\* An OPEN breaker has the time from which is_open counts: without it is_open
\* answers True for ever.  Only while a trip is between its two writes, or
\* after one was cut off there, can the time be missing.
OpenHasDeadline ==
  state = "OPEN" /\ lastFailure = NoTime =>
    cut \/ \E c \in Callers : pc[c] = "last"

\* Half-open means that more than HalfOpenAfter has passed since a trip, also
\* when the probe was decided on a last_failure that has changed since.
ProbeNotEarly ==
  state = "HALF_OPEN" => \E t \in trips : clock - t > HalfOpenAfter
=============================================================================

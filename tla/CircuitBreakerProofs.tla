------------------------ MODULE CircuitBreakerProofs ------------------------
(***************************************************************************)
(* The breaker's safety for every number of callers, threshold, window and *)
(* deadline.                                                                *)
(***************************************************************************)
EXTENDS CircuitBreaker, FiniteSetTheorems, TLAPS

Justified(t) == Cardinality(InWindow(recorded, t)) >= FailureThreshold

\* Enough time has passed since one of the trips.
ProbeDue == \E t \in trips : clock - t > HalfOpenAfter

\* What a caller in the middle of a method relies on is still so when its next
\* command is served, since the histories and the clock only grow.
StageAgrees ==
  \A c \in Callers :
    /\ pc[c] = "open"  => Justified(now[c])
    /\ pc[c] = "last"  => now[c] \in trips
    /\ pc[c] = "probe" => ProbeDue

LastIsTrip == lastFailure # NoTime => lastFailure \in trips

Inv ==
  /\ TypeOK
  /\ StageAgrees
  /\ LastIsTrip
  /\ TripJustified
  /\ OpenHasDeadline
  /\ ProbeNotEarly

-----------------------------------------------------------------------------

\* A window of a larger record holds no fewer failures.
LEMMA WindowGrows ==
  ASSUME NEW S, NEW T \in SUBSET Time, S \subseteq T, NEW t
  PROVE  /\ Cardinality(InWindow(S, t)) \in Nat
         /\ Cardinality(InWindow(T, t)) \in Nat
         /\ Cardinality(InWindow(S, t)) <= Cardinality(InWindow(T, t))
<1>1. IsFiniteSet(Time)
  BY FS_Interval, BreakerAssumption DEF Time
<1>2. InWindow(T, t) \in SUBSET Time
  BY DEF InWindow
<1>3. IsFiniteSet(InWindow(T, t))
  BY <1>1, <1>2, FS_Subset
<1>4. InWindow(S, t) \in SUBSET InWindow(T, t)
  BY DEF InWindow
<1> QED
  BY <1>3, <1>4, FS_Subset, FS_CardinalityType

LEMMA InitInv == Init => Inv
<1> SUFFICES ASSUME Init PROVE Inv
  OBVIOUS
<1>0. cut \in BOOLEAN
  BY DEF Init
<1>1. TypeOK
  <2>1. clock \in Time /\ now \in [Callers -> Time]
    BY BreakerAssumption DEF Init, Time
  <2>2. /\ lastFailure \in Time \cup {NoTime}
        /\ failures \in SUBSET Time /\ recorded \in SUBSET Time /\ trips \in SUBSET Time
        /\ failures \subseteq recorded
        /\ state \in {"none", "OPEN", "HALF_OPEN"}
    BY DEF Init
  <2>3. pc \in [Callers -> {"idle", "record", "count", "open", "last", "state", "deadline", "probe"}]
    BY DEF Init
  <2> QED
    BY <1>0, <2>1, <2>2, <2>3 DEF TypeOK
<1> QED
  BY <1>1 DEF Init, Inv, StageAgrees, LastIsTrip, TripJustified, OpenHasDeadline, ProbeNotEarly

\* A step that writes none of the keys and no history moves one caller to a
\* place where it relies on nothing new, or to "open" or "probe" with cause.
LEMMA QuietStep ==
  ASSUME Inv, NEW c \in Callers, NEW s,
         s \in {"idle", "record", "count", "open", "state", "deadline", "probe"},
         pc[c] # "last",
         Goto(c, s),
         now' \in [Callers -> Time],
         \A d \in Callers \ {c} : now'[d] = now[d],
         s = "open"  => Justified(now'[c]),
         s = "probe" => ProbeDue,
         UNCHANGED <<clock, keyVars, historyVars>>
  PROVE  Inv'
<1> USE DEF Inv
<1>0. pc' \in [Callers -> {"idle", "record", "count", "open", "last", "state", "deadline", "probe"}]
  BY DEF TypeOK, Goto
<1>u. UNCHANGED <<clock, failures, state, lastFailure, recorded, trips, cut>>
  BY DEF keyVars, historyVars
<1>1. TypeOK'
  BY <1>0, <1>u DEF TypeOK
<1>2. /\ pc'[c] = s
      /\ \A d \in Callers \ {c} : pc'[d] = pc[d]
  BY DEF Goto, TypeOK
<1>j. \A t : Justified(t)' <=> Justified(t)
  BY <1>u DEF Justified, InWindow
<1>d. ProbeDue' <=> ProbeDue
  BY <1>u DEF ProbeDue
<1>3. StageAgrees'
  <2> SUFFICES ASSUME NEW d \in Callers
               PROVE  /\ pc'[d] = "open"  => Justified(now[d])'
                      /\ pc'[d] = "last"  => now'[d] \in trips'
                      /\ pc'[d] = "probe" => ProbeDue'
    BY DEF StageAgrees
  <2>1. CASE d = c
    BY <2>1, <1>2, <1>u, <1>d DEF Justified, InWindow
  <2>2. CASE d # c
    <3>1. pc'[d] = pc[d] /\ now'[d] = now[d]
      BY <2>2, <1>2
    <3> QED
      BY <3>1, <1>u, <1>d DEF StageAgrees, Justified, InWindow
  <2> QED
    BY <2>1, <2>2
<1>4. LastIsTrip' /\ TripJustified' /\ ProbeNotEarly'
  BY <1>u DEF LastIsTrip, TripJustified, ProbeNotEarly, InWindow
<1>5. OpenHasDeadline'
  BY <1>u, <1>2 DEF OpenHasDeadline
<1> QED
  BY <1>1, <1>3, <1>4, <1>5

LEMMA RecordStep ==
  ASSUME Inv, NEW c \in Callers, Record(c)
  PROVE  Inv'
<1> USE DEF Inv
<1>u. UNCHANGED <<clock, state, lastFailure, now, trips, cut>>
  BY DEF Record
<1>0. now[c] \in Time
  BY DEF TypeOK
<1>1. recorded \subseteq recorded' /\ recorded' \in SUBSET Time
  BY <1>0 DEF Record, TypeOK
<1>2. TypeOK'
  BY <1>0, <1>1, <1>u DEF TypeOK, Record, Goto
<1>3. \A t : Justified(t) => Justified(t)'
  <2> SUFFICES ASSUME NEW t, Justified(t) PROVE Justified(t)'
    OBVIOUS
  <2>1. /\ Cardinality(InWindow(recorded, t)) \in Nat
        /\ Cardinality(InWindow(recorded', t)) \in Nat
        /\ Cardinality(InWindow(recorded, t)) <= Cardinality(InWindow(recorded', t))
    BY <1>1, WindowGrows
  <2>2. InWindow(recorded, t)' = InWindow(recorded', t)
    BY DEF InWindow
  <2> QED
    BY <2>1, <2>2, BreakerAssumption DEF Justified
<1>4. \A d \in Callers : pc'[d] \in {"idle", pc[d]} /\ (d # c => pc'[d] = pc[d])
  BY DEF Record, Goto, TypeOK
<1>5. \A d \in Callers : pc[d] = "last" => pc'[d] = "last"
  BY <1>4 DEF Record
<1>6. StageAgrees'
  <2> SUFFICES ASSUME NEW d \in Callers
               PROVE  /\ pc'[d] = "open"  => Justified(now[d])'
                      /\ pc'[d] = "last"  => now'[d] \in trips'
                      /\ pc'[d] = "probe" => ProbeDue'
    BY DEF StageAgrees
  <2>1. pc'[d] = "open" => Justified(now[d])
    BY <1>4 DEF StageAgrees
  <2>2. Justified(now[d]) => Justified(now[d])'
    BY <1>3, <1>u DEF Justified, InWindow
  <2>3. (pc'[d] = "last"  => now[d] \in trips) /\ (pc'[d] = "probe" => ProbeDue)
    BY <1>4 DEF StageAgrees
  <2> QED
    BY <2>1, <2>2, <2>3, <1>u DEF ProbeDue
<1>7. TripJustified'
  BY <1>3, <1>u DEF TripJustified, Justified
<1>8. LastIsTrip' /\ ProbeNotEarly'
  BY <1>u DEF LastIsTrip, ProbeNotEarly
<1>9. OpenHasDeadline'
  BY <1>u, <1>5 DEF OpenHasDeadline
<1> QED
  BY <1>2, <1>6, <1>7, <1>8, <1>9

\* A step of c that records no failure and lets the trips and the clock only
\* grow: the stages of the other callers stay justified.
LEMMA OthersAgree ==
  ASSUME Inv, NEW c \in Callers, NEW s, Goto(c, s),
         s = "idle" \/ (s = "last" /\ now[c] \in trips'),
         UNCHANGED <<now, recorded, clock>>, trips \subseteq trips'
  PROVE  /\ StageAgrees'
         /\ \A d \in Callers : d # c => pc'[d] = pc[d]
         /\ pc'[c] = s
<1> USE DEF Inv
<1>1. pc'[c] = s /\ \A d \in Callers : d # c => pc'[d] = pc[d]
  BY DEF Goto, TypeOK
<1>2. ProbeDue => ProbeDue'
  BY DEF ProbeDue
<1>3. \A d \in Callers : Justified(now[d]) => Justified(now[d])'
  BY DEF Justified, InWindow
<1>4. StageAgrees'
  <2> SUFFICES ASSUME NEW d \in Callers
               PROVE  /\ pc'[d] = "open"  => Justified(now[d])'
                      /\ pc'[d] = "last"  => now'[d] \in trips'
                      /\ pc'[d] = "probe" => ProbeDue'
    BY DEF StageAgrees
  <2>1. CASE d = c
    BY <2>1, <1>1
  <2>2. CASE d # c
    BY <2>2, <1>1, <1>2, <1>3 DEF StageAgrees
  <2> QED
    BY <2>1, <2>2
<1> QED
  BY <1>1, <1>4

LEMMA SetOpenStep ==
  ASSUME Inv, NEW c \in Callers, SetOpen(c)
  PROVE  Inv'
<1> USE DEF Inv
<1>0. now[c] \in Time /\ Justified(now[c])
  BY DEF TypeOK, SetOpen, StageAgrees
<1>1. /\ StageAgrees'
      /\ \A d \in Callers : d # c => pc'[d] = pc[d]
      /\ pc'[c] = "last"
  BY OthersAgree DEF SetOpen
<1>2. TypeOK'
  BY <1>0 DEF TypeOK, SetOpen, Goto
<1>3. TripJustified'
  BY <1>0 DEF TripJustified, SetOpen, Justified, InWindow
<1>4. LastIsTrip' /\ OpenHasDeadline' /\ ProbeNotEarly'
  BY <1>1 DEF LastIsTrip, OpenHasDeadline, ProbeNotEarly, SetOpen
<1> QED
  BY <1>1, <1>2, <1>3, <1>4

LEMMA SetLastStep ==
  ASSUME Inv, NEW c \in Callers, SetLast(c)
  PROVE  Inv'
<1> USE DEF Inv
<1>0. now[c] \in Time /\ now[c] \in trips
  BY DEF TypeOK, SetLast, StageAgrees
<1>1. StageAgrees'
  BY OthersAgree DEF SetLast
<1>2. TypeOK'
  <2>1. cut' \in BOOLEAN
    BY DEF SetLast
  <2> QED
    BY <1>0, <2>1 DEF TypeOK, SetLast, Goto
<1>3. LastIsTrip' /\ TripJustified' /\ ProbeNotEarly'
  BY <1>0 DEF LastIsTrip, TripJustified, ProbeNotEarly, SetLast, InWindow
<1>4. OpenHasDeadline'
  <2>1. now[c] # NoTime
    BY <1>0 DEF Time, NoTime
  <2> QED
    BY <2>1 DEF OpenHasDeadline, SetLast
<1> QED
  BY <1>1, <1>2, <1>3, <1>4

LEMMA ProbeStep ==
  ASSUME Inv, NEW c \in Callers, Probe(c)
  PROVE  Inv'
<1> USE DEF Inv
<1>u. UNCHANGED <<clock, failures, lastFailure, now, recorded, trips, cut>> /\ state' = "HALF_OPEN"
  BY DEF Probe, historyVars
<1>1. StageAgrees'
  BY <1>u, OthersAgree DEF Probe
<1>2. TypeOK'
  BY <1>u DEF TypeOK, Probe, Goto
<1>3. ProbeDue
  BY DEF Probe, StageAgrees
<1> QED
  BY <1>u, <1>1, <1>2, <1>3
     DEF LastIsTrip, TripJustified, OpenHasDeadline, ProbeNotEarly, InWindow, ProbeDue

LEMMA AbortStep ==
  ASSUME Inv, NEW c \in Callers, Abort(c)
  PROVE  Inv'
<1> USE DEF Inv
<1>u. UNCHANGED <<clock, failures, state, lastFailure, now, recorded, trips>>
  BY DEF Abort, keyVars
<1>1. /\ StageAgrees'
      /\ \A d \in Callers : d # c => pc'[d] = pc[d]
  BY <1>u, OthersAgree DEF Abort
<1>2. cut' \in BOOLEAN /\ (cut => cut') /\ (pc[c] = "last" => cut')
  BY DEF Abort
<1>3. TypeOK'
  BY <1>u, <1>2 DEF TypeOK, Abort, Goto
<1>4. LastIsTrip' /\ TripJustified' /\ ProbeNotEarly'
  BY <1>u DEF LastIsTrip, TripJustified, ProbeNotEarly, InWindow
<1>5. OpenHasDeadline'
  BY <1>u, <1>1, <1>2 DEF OpenHasDeadline
<1> QED
  BY <1>1, <1>3, <1>4, <1>5

LEMMA ResetStep == Inv /\ Reset => Inv'
<1> SUFFICES ASSUME Inv, Reset PROVE Inv'
  OBVIOUS
<1> USE DEF Inv
<1>1. cut' \in BOOLEAN /\ UNCHANGED <<clock, pc, now, recorded, trips>>
  BY DEF Reset
<1>2. TypeOK'
  BY <1>1 DEF TypeOK, Reset
<1>3. StageAgrees'
  BY <1>1 DEF StageAgrees, Justified, InWindow, ProbeDue
<1> QED
  BY <1>1, <1>2, <1>3
     DEF Reset, LastIsTrip, TripJustified, OpenHasDeadline, ProbeNotEarly, InWindow

LEMMA TickStep == Inv /\ Tick => Inv'
<1> SUFFICES ASSUME Inv, Tick PROVE Inv'
  OBVIOUS
<1> USE DEF Inv
<1>u. UNCHANGED <<failures, state, lastFailure, pc, now, recorded, trips, cut>>
  BY DEF Tick, keyVars, historyVars
<1>1. clock' = clock + 1 /\ clock \in Time /\ clock' \in Time /\ trips \subseteq Time
  BY BreakerAssumption DEF Tick, TypeOK, Time
<1>2. TypeOK'
  BY <1>u, <1>1 DEF TypeOK
<1>3. ProbeDue => ProbeDue'
  BY <1>u, <1>1, BreakerAssumption DEF ProbeDue, Time
<1>4. StageAgrees'
  BY <1>u, <1>3 DEF StageAgrees, Justified, InWindow
<1>5. ProbeNotEarly'
  BY <1>u, <1>3 DEF ProbeNotEarly, ProbeDue
<1> QED
  BY <1>u, <1>2, <1>4, <1>5 DEF LastIsTrip, TripJustified, OpenHasDeadline, InWindow

LEMMA NextInv == Inv /\ [Next]_vars => Inv'
<1> SUFFICES ASSUME Inv, [Next]_vars PROVE Inv'
  OBVIOUS
<1>t. clock \in Time /\ now \in [Callers -> Time] /\ failures \subseteq recorded /\ recorded \in SUBSET Time
  BY DEF Inv, TypeOK
<1>1. CASE UNCHANGED vars
  BY <1>1 DEF vars, keyVars, historyVars, Inv, TypeOK, StageAgrees, Justified, ProbeDue,
              LastIsTrip, TripJustified, OpenHasDeadline, ProbeNotEarly, InWindow
<1>2. ASSUME NEW c \in Callers, Enter(c, "record") \/ Enter(c, "count") PROVE Inv'
  <2>1. PICK s \in {"record", "count"} : Enter(c, s)
    BY <1>2
  <2>2. now' \in [Callers -> Time] /\ \A d \in Callers \ {c} : now'[d] = now[d]
    BY <1>t, <2>1 DEF Enter
  <2> QED
    BY <2>1, <2>2, QuietStep DEF Enter
<1>3. ASSUME NEW c \in Callers, Count(c) PROVE Inv'
  <2>1. Cardinality(InWindow(failures, now[c])) >= FailureThreshold => Justified(now[c])
    <3>1. /\ Cardinality(InWindow(failures, now[c])) \in Nat
          /\ Cardinality(InWindow(recorded, now[c])) \in Nat
          /\ Cardinality(InWindow(failures, now[c])) <= Cardinality(InWindow(recorded, now[c]))
      BY <1>t, WindowGrows
    <3> QED
      BY <3>1, BreakerAssumption DEF Justified
  <2>2. PICK s \in {"open", "idle"} : Goto(c, s) /\ (s = "open" => Justified(now[c]))
    BY <1>3, <2>1 DEF Count
  <2>3. now' = now /\ UNCHANGED <<clock, keyVars, historyVars>> /\ pc[c] # "last"
    BY <1>3 DEF Count
  <2>4. s = "open" => Justified(now'[c])
    BY <2>2, <2>3
  <2> QED
    BY <1>t, <2>2, <2>3, <2>4, QuietStep
<1>4. ASSUME NEW c \in Callers, BeginIsOpen(c) \/ GetState(c) PROVE Inv'
  <2>1. PICK s \in {"state", "deadline", "idle"} : Goto(c, s)
    BY <1>4 DEF BeginIsOpen, GetState
  <2>2. now' = now /\ UNCHANGED <<clock, keyVars, historyVars>> /\ pc[c] # "last"
    BY <1>4 DEF BeginIsOpen, GetState
  <2> QED
    BY <1>t, <2>1, <2>2, QuietStep
<1>5. ASSUME NEW c \in Callers, GetLast(c) PROVE Inv'
  <2>1. Expired => ProbeDue
    BY DEF Expired, ProbeDue, Inv, LastIsTrip
  <2>2. PICK s \in {"probe", "idle"} : Goto(c, s) /\ (s = "probe" => ProbeDue)
    BY <1>5, <2>1 DEF GetLast
  <2>3. now' = now /\ UNCHANGED <<clock, keyVars, historyVars>> /\ pc[c] # "last"
    BY <1>5 DEF GetLast
  <2> QED
    BY <1>t, <2>2, <2>3, QuietStep
<1>6. CASE Tick \/ Reset
  BY <1>6, TickStep, ResetStep
<1>7. CASE \E c \in Callers : CallerStep(c)
  BY <1>7, <1>2, <1>3, <1>4, <1>5, RecordStep, SetOpenStep, SetLastStep, ProbeStep, AbortStep
     DEF CallerStep, BeginRecord, BeginTrip
<1> QED
  BY <1>1, <1>6, <1>7 DEF Next

LEMMA InvHolds == Spec => []Inv
BY InitInv, NextInv, PTL DEF Spec

-----------------------------------------------------------------------------

\* The breaker's keys and its callers stay well typed, and the sorted set holds
\* recorded failures only.
THEOREM BreakerTypeCorrect == Spec => []TypeOK
<1>1. Inv => TypeOK
  BY DEF Inv
<1> QED
  BY <1>1, InvHolds, PTL

\* maybe_trip opens the breaker only with enough failures in one window.
THEOREM TripsAreJustified == Spec => []TripJustified
<1>1. Inv => TripJustified
  BY DEF Inv
<1> QED
  BY <1>1, InvHolds, PTL

\* An OPEN breaker without last_failure is a trip in progress or one cut off.
THEOREM OpenBreakerHasDeadline == Spec => []OpenHasDeadline
<1>1. Inv => OpenHasDeadline
  BY DEF Inv
<1> QED
  BY <1>1, InvHolds, PTL

\* is_open half-opens the breaker no sooner than half_open_after after a trip.
THEOREM ProbesAreDue == Spec => []ProbeNotEarly
<1>1. Inv => ProbeNotEarly
  BY DEF Inv
<1> QED
  BY <1>1, InvHolds, PTL
=============================================================================

SPECIFICATION Spec
CONSTANTS
  c1 = c1
  c2 = c2
  Callers = {c1, c2}
  FailureThreshold = 2
  Window = 2
  HalfOpenAfter = 1
  MaxTime = 4
SYMMETRY Symmetry
INVARIANTS TypeOK TripJustified OpenHasDeadline ProbeNotEarly

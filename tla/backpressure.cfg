SPECIFICATION Spec
CONSTANTS
  j1 = j1
  j2 = j2
  j3 = j3
  w1 = w1
  w2 = w2
  NoWorker = NoWorker
  Jobs = {j1, j2, j3}
  Workers = {w1}
  MaxEntries = 4
  MaxRetries <- MCMaxRetries
  MaxConcurrency = 2
  PollBatch = 2
  ClaimBatch = 2
  MaxQueueDepth = 1
  TrimSlack = 2
  MaxInFlight = 2
  HasAdmission = TRUE
  AdmissionDepth = 3
  HasRecovery = FALSE
  MaxFaults = 1
  MaxCrashes = 0
  MaxStops = 0
INVARIANTS
  NothingEvicted
  AnswersMatchStream
PROPERTIES
  BlockedStaysBlocked

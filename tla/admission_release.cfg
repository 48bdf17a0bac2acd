SPECIFICATION FairSpec
CONSTANTS
  j1 = j1
  j2 = j2
  j3 = j3
  w1 = w1
  w2 = w2
  NoWorker = NoWorker
  Jobs = {j1, j2}
  Workers = {w1, w2}
  MaxEntries = 2
  MaxRetries <- MCMaxRetries
  MaxConcurrency = 1
  PollBatch = 2
  ClaimBatch = 2
  MaxQueueDepth = 2
  TrimSlack = 1
  MaxInFlight = 2
  HasAdmission = TRUE
  AdmissionDepth = 2
  HasRecovery = TRUE
  MaxFaults = 0
  MaxCrashes = 0
  MaxStops = 0
PROPERTIES
  AdmissionIsReleased

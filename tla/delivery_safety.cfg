SPECIFICATION Spec
CONSTANTS
  j1 = j1
  j2 = j2
  j3 = j3
  w1 = w1
  w2 = w2
  NoWorker = NoWorker
  Jobs = {j1, j2}
  Workers = {w1, w2}
  MaxEntries = 2
  MaxRetries <- MCMaxRetries
  MaxConcurrency = 1
  PollBatch = 2
  ClaimBatch = 2
  MaxQueueDepth = 1
  TrimSlack = 0
  MaxInFlight = 2
  HasAdmission = FALSE
  AdmissionDepth = 1
  HasRecovery = TRUE
  MaxFaults = 1
  MaxCrashes = 1
  MaxStops = 1
SYMMETRY WorkerSymmetry
INVARIANTS
  TypeOK
  LeaseInvariant
  HandlerAtMostOnce
  SettledOnlyAfterOutcome
  SemaphoreConserved
  GracefulStopStrandsNothing
  DlqFaithful
PROPERTIES
  StartsOnlyUnsettled
  LetGoIsFinal
  ImplementsContract

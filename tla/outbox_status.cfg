SPECIFICATION FairSpec
CONSTANTS
  j1 = j1
  j2 = j2
  j3 = j3
  r1 = r1
  p1 = p1
  p2 = p2
  k1 = k1
  NoKey = NoKey
  NoProc = NoProc
  Jobs = {j1}
  Replays = {}
  Procs = {p1, p2}
  Executors = {p2}
  Key <- MCKey
  Target <- MCTarget
  Home <- MCHome
  MaxRetries <- MCMaxRetries
  EnqueuerStore = TRUE
  ExecutorStore = TRUE
  MaxQueueDepth = 2
  ScanLimit = 1
  MaxEntries = 2
  MaxFaults = 0
PROPERTIES CompletedIsRecorded
CHECK_DEADLOCK FALSE

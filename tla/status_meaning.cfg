SPECIFICATION Spec
CONSTANTS
  j1 = j1
  j2 = j2
  j3 = j3
  r1 = r1
  p1 = p1
  p2 = p2
  k1 = k1
  NoKey = NoKey
  NoProc = NoProc
  Jobs = {j3}
  Replays = {}
  Procs = {p1, p2}
  Executors = {p1}
  Key <- MCKey
  Target <- MCTarget
  Home <- MCHome
  MaxRetries <- MCMaxRetries
  EnqueuerStore = TRUE
  ExecutorStore = TRUE
  MaxQueueDepth = 3
  ScanLimit = 1
  MaxEntries = 2
  MaxFaults = 1
INVARIANTS StatusAsDocumented
CHECK_DEADLOCK FALSE

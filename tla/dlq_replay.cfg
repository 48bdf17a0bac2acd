SPECIFICATION FairSpec
CONSTANTS
  j1 = j1
  j2 = j2
  j3 = j3
  r1 = r1
  p1 = p1
  p2 = p2
  k1 = k1
  NoKey = NoKey
  NoProc = NoProc
  Jobs = {j3}
  Replays = {r1}
  Procs = {p1, p2}
  Executors = {p1}
  Key <- MCKey
  Target <- MCTarget
  Home <- MCHome
  MaxRetries <- MCMaxRetries
  EnqueuerStore = FALSE
  ExecutorStore = FALSE
  MaxQueueDepth = 3
  ScanLimit = 1
  MaxEntries = 2
  MaxFaults = 0
PROPERTIES ReplayReenqueues
CHECK_DEADLOCK FALSE

SPECIFICATION FairSpec
CONSTANTS
  a = a
  b = b
  c = c
  NoJob = NoJob
  N = 2
  Jobs = {a, b}
  MayDepend <- Unrelated
  SemMax = 2
  MaxSignals = 1
PROPERTY RefinesBarrier
PROPERTY SyncReturns
PROPERTY ShutdownReturns
PROPERTY QueuedJobRuns

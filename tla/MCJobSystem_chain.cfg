SPECIFICATION Spec
CONSTANTS
  a = a
  b = b
  c = c
  NoJob = NoJob
  N = 2
  Jobs = {a, b, c}
  MayDepend <- Chain
  SemMax = 1
  MaxSignals = 0
INVARIANT UniqueOwner
INVARIANT ParentsFirst
INVARIANT NoJobLost
INVARIANT QueueIsWatched

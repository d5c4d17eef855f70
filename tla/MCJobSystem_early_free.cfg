SPECIFICATION Spec
CONSTANTS
  a = a
  b = b
  c = c
  NoJob = NoJob
  N = 2
  Jobs = {a, b}
  MayDepend <- Chain
  SemMax = 2
  MaxSignals = 0
INVARIANT NoUseAfterFree

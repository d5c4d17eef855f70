SPECIFICATION Spec
CONSTANTS
  Devices <- TwoDevices
  Windows <- OneWindow
  MaxRefs = 1
  ApiHandles <- AnyAndExact
  Titles = {}
  TriggerSizes = {1}
  QueueFrames = {1}
  Faults = {"teardown", "delete"}
  Retries = 1
  FrameMod = 2
  CapMod = 3
  Budget = 5
INVARIANTS WriterOwnsCapture ActiveWindowValid MatchComplete
CHECK_DEADLOCK FALSE

SPECIFICATION FairSpec
CONSTANTS
  Devices <- OneDevice
  Windows <- TwoWindows
  MaxRefs = 1
  ApiHandles <- AnyWindow
  Titles = {"t"}
  TriggerSizes = {2}
  QueueFrames = {}
  Faults = {"uncapped", "disk"}
  Retries = 1
  FrameMod = 2
  CapMod = 3
  Budget = 5
INVARIANT NoStomp
PROPERTIES TitleApplied TriggeredCaptureEnds 
CHECK_DEADLOCK FALSE

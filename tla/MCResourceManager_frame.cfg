SPECIFICATION ShownSpec
CONSTANTS
  N = 2
  Ranges <- MemoryAndImage
  Storable = {}
  Images = {2}
  Accesses <- AllAccesses
  Policies = {"CopyAll", "ClearUnread", "Fastest"}
  MaxRecorded = 2
  MaxScript = 3
  MaxCaptures = 1
  Top = 11
  Cuts = {1, 2, 3}
  FileCuts = {1, 2, 3, 4, 5, 6, 7, 8}
INVARIANTS ReplayAgrees PolicyKept NotOverwritten RangesArePointwise LoadedRefsExact
CHECK_DEADLOCK FALSE

SPECIFICATION Spec
CONSTANTS
  N = 1
  Ranges <- TwoParts
  Storable = {}
  Images = {}
  Accesses <- Copies
  Policies = {"Fastest"}
  MaxRecorded = 2
  MaxScript = 3
  MaxCaptures = 1
  Top = 11
  Cuts = {1, 2, 3}
  FileCuts = {1, 2, 3, 4, 5, 6, 7, 8}
INVARIANT ReplayAgrees
CHECK_DEADLOCK FALSE

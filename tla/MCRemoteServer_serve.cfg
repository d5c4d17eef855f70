SPECIFICATION FairSpec
CONSTANTS
  MaxConns = 2
  MaxCopies = 1
  Requests <- SomeRequests
INVARIANTS TypeOK OneActive InStep FilesHeld
PROPERTIES SlotReaped ShutdownHonoured
CHECK_DEADLOCK FALSE

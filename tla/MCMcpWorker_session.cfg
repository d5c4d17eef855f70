SPECIFICATION FairSpec
CONSTANT MaxRequests = 4
INVARIANTS OneTransaction NothingLeft
PROPERTY EverythingEnds
CHECK_DEADLOCK FALSE

SPECIFICATION Spec
CONSTANTS
  c1 = c1
  c2 = c2
  d3d11 = d3d11
  NoConn = NoConn
  Conns = {c1, c2}
  Versions = {9}
  Drivers = {d3d11}
  MaxCaptures = 2
  MaxWindows = 1
  Budget = 2
INVARIANTS OneController IdsAgree OnlyAskedRetrieved
CHECK_DEADLOCK FALSE

SPECIFICATION FairSpec
CONSTANTS
  c1 = c1
  c2 = c2
  d3d11 = d3d11
  NoConn = NoConn
  Conns = {c1, c2}
  Versions = {1, 9}
  Drivers = {d3d11}
  MaxCaptures = 1
  MaxWindows = 1
  Budget = 1
PROPERTIES CaptureAnnounced KickServed SlotReleased
CHECK_DEADLOCK FALSE

SPECIFICATION FairSpec
CONSTANTS
  ui = ui
  worker = worker
  pick = pick
  NoTag = NoTag
  UI = ui
  Callers = {ui, worker}
  Tags = {pick}
  MaxCommands = 3
  MaxOpens = 2
  MaxConns = 1
INVARIANTS OneOwner RemoteOutlivesController RunsOnItsCapture
PROPERTIES RefinesQueue CallsReturn
CHECK_DEADLOCK FALSE

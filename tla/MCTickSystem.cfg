CONSTANTS
  old = old
  new = new
  other = other
  w1 = w1
  w2 = w2
  w3 = w3
  NoLoop = NoLoop
  Owner = {old, new}
  PluginOf <- Versions
  Work = {w1, w2}
  OwnerOf <- Callers
  Loop = {1, 2}
  Interval = 2
  Catchups = {"skip", "burst"}
  MaxTime = 7
  Horizon = 2
SPECIFICATION Spec
INVARIANTS TypeOK SoleLoop NothingStranded KeepsTime StoppedIsQuiet
PROPERTIES LeavesWhenDue
CHECK_DEADLOCK FALSE

CONSTANTS
  old = old
  new = new
  other = other
  w1 = w1
  w2 = w2
  w3 = w3
  NoLoop = NoLoop
  Owner = {old}
  PluginOf <- Versions
  Work = {}
  OwnerOf <- Callers
  Loop = {1}
  Interval = 2
  Catchups = {"skip"}
  MaxTime = 17
  Horizon = 1
SPECIFICATION Spec
INVARIANTS NoDrift
CHECK_DEADLOCK FALSE

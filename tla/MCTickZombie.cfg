CONSTANTS
  old = old
  new = new
  other = other
  w1 = w1
  w2 = w2
  w3 = w3
  NoLoop = NoLoop
  Owner = {old}
  PluginOf <- Versions
  Work = {w1}
  OwnerOf <- Callers
  Loop = {1}
  Interval = 2
  Catchups = {"skip"}
  MaxTime = 6
  Horizon = 2
SPECIFICATION Spec
INVARIANTS NoZombieWork
CHECK_DEADLOCK FALSE

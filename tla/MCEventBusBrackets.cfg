CONSTANTS
  a = a
  b = b
  err = err
  glob = glob
  bracket = bracket
  exact = exact
  wide = wide
  onError = onError
  old = old
  new = new
  d1 = d1
  d2 = d2
  Name = {a, b, err}
  ErrorName = err
  Pattern = {a, b, err, glob, bracket}
  Covers <- CoversTable
  Wild <- WildPatterns
  Sub = {exact, wide, glob}
  PatternOf <- PatternTable
  PluginOf <- PluginTable
  OwnerOf <- OwnerTable
  Drain = {d1}
  MaxCache = 2
  Budget = 1
SPECIFICATION Spec
INVARIANTS CacheFresh
CHECK_DEADLOCK FALSE

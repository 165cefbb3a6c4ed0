CONSTANTS
  a = a
  b = b
  err = err
  glob = glob
  bracket = bracket
  exact = exact
  wide = wide
  onError = onError
  old = old
  new = new
  d1 = d1
  d2 = d2
  Name = {a, b, err}
  ErrorName = err
  Pattern = {a, err, glob}
  Covers <- CoversTable
  Wild <- WildPatterns
  Sub = {exact, wide, onError}
  PatternOf <- PatternTable
  PluginOf <- PluginTable
  OwnerOf <- OwnerTable
  Drain = {d1, d2}
  MaxCache = 2
  Budget = 2
SPECIFICATION FairSpec
INVARIANTS TypeOK CacheFresh
PROPERTIES DeliversToSubscribers NothingOutlivesDrain DrainCompletes
CHECK_DEADLOCK FALSE

CONSTANTS
  n1 = n1
  n2 = n2
  h1 = h1
  h2 = h2
  h3 = h3
  h4 = h4
  f = f
  g = g
  p = p
  q = q
  old = old
  new = new
  Name = {n1, n2}
  Hook = {h1, h2, h3, h4}
  NameOf <- NameTable
  PriorityOf <- PriorityTable
  CallbackOf <- CallbackTable
  PluginOf <- PluginTable
  OwnerOf <- OwnerTable
  Execution = {1, 2}
  NotCached = NotCached
  None = None
SPECIFICATION Spec
INVARIANTS ChainsFresh AtomicFrame

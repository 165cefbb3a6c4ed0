CONSTANTS
  a = a
  a2 = a2
  ax = ax
  b = b
  b2 = b2
  bx = bx
  cap = cap
  k1 = k1
  k2 = k2
  k3 = k3
  k4 = k4
  NoPlugin = NoPlugin
  NoCall = NoCall
  Cap = {cap}
  Plugin = {a}
  NameOf <- NameTable
  Provides <- ProvidesTable
  Requires <- RequiresTable
  Declared <- DeclaredTable
  MaxPlugins = 2
  Collision = "error_on_conflict"
  Selection = "first_registered"
  Instances = {}
  Sources = {}
  Call = {k1, k2, k3}
  Kinds = {"start", "stop"}
  Reentry = {}
  OwnTask = {FALSE}
  Faults = {}
  Cancellable = {}
  Broken = {}
  HandOnce = TRUE
  Listing = FALSE
SPECIFICATION Spec
INVARIANTS StoppedIsReleased
CHECK_DEADLOCK FALSE

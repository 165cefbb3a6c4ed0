CONSTANTS
  a = a
  a2 = a2
  ax = ax
  b = b
  b2 = b2
  bx = bx
  cap = cap
  k1 = k1
  k2 = k2
  k3 = k3
  k4 = k4
  NoPlugin = NoPlugin
  NoCall = NoCall
  Cap = {cap}
  Plugin = {a, a2}
  NameOf <- NameTable
  Provides <- ProvidesTable
  Requires <- RequiresTable
  Declared <- DeclaredTable
  MaxPlugins = 2
  Collision = "error_on_conflict"
  Selection = "first_registered"
  Instances = {a}
  Sources = {a2}
  Call = {k1, k2}
  Kinds = {"register", "load"}
  Reentry = {}
  OwnTask = {FALSE}
  Faults = {"restore_state"}
  Cancellable = {}
  Broken = {}
  HandOnce = TRUE
  Listing = FALSE
SPECIFICATION Spec
INVARIANTS RegisteredIsLive
CHECK_DEADLOCK FALSE

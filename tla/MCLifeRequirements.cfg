CONSTANTS
  a = a
  a2 = a2
  ax = ax
  b = b
  b2 = b2
  bx = bx
  cap = cap
  k1 = k1
  k2 = k2
  k3 = k3
  k4 = k4
  NoPlugin = NoPlugin
  NoCall = NoCall
  Cap = {cap}
  Plugin = {a, a2, b, b2}
  NameOf <- NameTable
  Provides <- ProvidesTable
  Requires <- RequiresTable
  Declared <- DeclaredTable
  MaxPlugins = 2
  Collision = "error_on_conflict"
  Selection = "first_registered"
  Instances = {a, b}
  Sources = {a2, b2}
  Call = {k1, k2, k3, k4}
  Kinds = {"register", "load", "unregister"}
  Reentry = {"on_start", "hook_registered", "hook_unregistered", "get_state", "reload_on_start", "restore_state", "reload_on_stop"}
  OwnTask = {FALSE}
  Faults = {"get_state"}
  Cancellable = {}
  Broken = {}
  HandOnce = TRUE
  Listing = TRUE
SPECIFICATION Spec
SYMMETRY AnyCall
INVARIANTS CallbacksHaveRequirements DependenciesPresent ListingComplete
CHECK_DEADLOCK FALSE

CONSTANTS
  a = a
  a2 = a2
  ax = ax
  b = b
  b2 = b2
  bx = bx
  cap = cap
  k1 = k1
  k2 = k2
  k3 = k3
  k4 = k4
  NoPlugin = NoPlugin
  NoCall = NoCall
  Cap = {cap}
  Plugin = {a, b, bx}
  NameOf <- NameTable
  Provides <- ProvidesTable
  Requires <- RequiresTable
  Declared <- DeclaredTable
  MaxPlugins = 2
  Collision = "error_on_conflict"
  Selection = "first_registered"
  Instances = {a, b}
  Sources = {bx}
  Call = {k1, k2, k3, k4}
  Kinds = {"register", "load", "unregister", "force", "stop"}
  Reentry = {"on_start", "hook_registered", "on_stop", "hook_unregistered", "get_state", "reload_on_start", "restore_state", "reload_on_stop", "stop_hook", "stopped_hook", "init_hook", "run_hook"}
  OwnTask = {TRUE, FALSE}
  Faults = {"on_start", "get_state", "restore_state"}
  Cancellable = {"on_start", "restore_state", "on_stop", "stop_hook"}
  Broken = {}
  HandOnce = TRUE
  Listing = FALSE
SPECIFICATION Spec
SYMMETRY AnyCall
INVARIANTS TypeOK GuardExclusive Serialized
PROPERTIES RegistryRefined
CHECK_DEADLOCK FALSE

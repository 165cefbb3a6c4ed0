CONSTANTS
  a = a
  a2 = a2
  ax = ax
  b = b
  b2 = b2
  bx = bx
  cap = cap
  k1 = k1
  k2 = k2
  k3 = k3
  k4 = k4
  NoPlugin = NoPlugin
  NoCall = NoCall
  Cap = {cap}
  Plugin = {a, a2, b}
  NameOf <- NameTable
  Provides <- ProvidesTable
  Requires <- RequiresTable
  Declared <- DeclaredTable
  MaxPlugins = 2
  Collision = "error_on_conflict"
  Selection = "first_registered"
  Instances = {a, b}
  Sources = {a2}
  Call = {k1, k2, k3}
  Kinds = {"register", "load", "unregister", "stop", "start"}
  Reentry = {"on_start", "hook_registered", "on_stop", "hook_unregistered", "get_state", "reload_on_start", "restore_state", "reload_on_stop", "stop_hook", "stopped_hook", "init_hook", "run_hook"}
  OwnTask = {TRUE, FALSE}
  Faults = {"on_start"}
  Cancellable = {"on_start", "final_drain"}
  Broken = {}
  HandOnce = TRUE
  Listing = FALSE
SPECIFICATION FairSpec
PROPERTIES Terminates StopCompletes
CHECK_DEADLOCK FALSE

CONSTANTS
  PluginId = {i1, i2, i3}
  Plugin = {p1, p2, p3, p4}
  p1 = p1
  p2 = p2
  p3 = p3
  p4 = p4
  NoPlugin = NoPlugin
  NameOf <- NameTable
  MaxPlugins = 3
  Forcing = {TRUE, FALSE}
SPECIFICATION Spec
PROPERTIES RemoveRespectsDependents
CHECK_DEADLOCK FALSE

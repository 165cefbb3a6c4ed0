CONSTANTS
  c1 = c1
  c2 = c2
  i1 = i1
  i2 = i2
  i3 = i3
  i4 = i4
  a1 = a1
  a2 = a2
  a3 = a3
  b1 = b1
  b2 = b2
  b3 = b3
  d1 = d1
  e1 = e1
  x1 = x1
  Cap = {c1, c2}
  PluginId = {i1, i2, i3, i4}
  Plugin = {a1, d1, e1}
  NoPlugin = NoPlugin
  Garbage = Garbage
  IdOf <- IdTable
  tag = tag
  Tag = {tag}
  NoTag = NoTag
  Tags <- TagsTable
  Provides <- ProvidesTable
  Requires <- RequiresTable
  Broken = {}
  Policies = {"last_wins_with_warning"}
  Selection = "first_registered"
  Batches <- CyclicSources
  Modes = {TRUE}
  Depends <- DependsTable
  MaxPlugins = 4
SPECIFICATION BatchSpec
INVARIANTS LoadsMaximalSubgraph
CHECK_DEADLOCK FALSE

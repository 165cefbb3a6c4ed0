------------------------------ MODULE Registry ------------------------------
(***************************************************************************)
(* The plugin registry of uxok (src/uxok/registry/impl.py): which instance *)
(* is registered under which id, and the dependency graph between ids.     *)
(*                                                                         *)
(* Every public method of the class is a coroutine without a suspension    *)
(* point, so under asyncio each call is one atomic step.  Each method is   *)
(* given here as a guard (does it raise?) and a function from registry to  *)
(* registry (what it leaves behind); the actions at the end combine the    *)
(* two, and module Lifecycle applies the same operators inside the longer  *)
(* steps of the kernel.                                                    *)
(*                                                                         *)
(* The three dictionaries of the class are total functions here: an absent *)
(* key of _dependencies or _dependents is the empty set (the code reads    *)
(* them with .get(id, set())), an absent key of _plugins is NoPlugin.      *)
(***************************************************************************)
EXTENDS Naturals, FiniteSets

CONSTANTS PluginId,    \* ids, unique per plugin
          Plugin,      \* plugin instances
          NoPlugin,    \* no instance is registered under an id
          NameOf,      \* the name in an instance's metadata
          MaxPlugins,  \* CoreConfig.max_plugins
          Forcing        \* values of remove's argument force that are used

ASSUME RegistryAssumption ==
  /\ NoPlugin \notin Plugin
  /\ DOMAIN NameOf = Plugin
  /\ MaxPlugins \in Nat
  /\ Forcing \subseteq BOOLEAN

VARIABLE registry

Graph == [PluginId -> SUBSET PluginId]

Registries == [plugins : [PluginId -> Plugin \cup {NoPlugin}],
               dependencies : Graph,
               dependents : Graph]

EmptyRegistry == [plugins |-> [i \in PluginId |-> NoPlugin],
                  dependencies |-> [i \in PluginId |-> {}],
                  dependents |-> [i \in PluginId |-> {}]]

Members(r) == {i \in PluginId : r.plugins[i] # NoPlugin}

LiveDependents(r, id) == r.dependents[id] \cap Members(r)

-----------------------------------------------------------------------------
(* The dependency edges of one id. *)

\* id is reachable from one of deps: every set that contains deps and is
\* closed under the existing edges contains id.
ClosesCycle(r, id, deps) ==
  \A V \in SUBSET PluginId :
    (/\ deps \subseteq V
     /\ \A n \in V : r.dependencies[n] \subseteq V) => id \in V

\* Mutant: the reverse edges stay.
DetachedForwardOnly(r, id) == [r EXCEPT !.dependencies[id] = {}]

Detached(r, id) ==
  [r EXCEPT !.dependencies[id] = {},
            !.dependents = [d \in PluginId |->
               IF d \in r.dependencies[id] THEN r.dependents[d] \ {id}
                                           ELSE r.dependents[d]]]

Installed(r, id, deps) ==
  [r EXCEPT !.dependencies[id] = deps,
            !.dependents = [d \in PluginId |->
               IF d \in deps THEN r.dependents[d] \cup {id}
                             ELSE r.dependents[d]]]

\* Mutant: no cycle check after the edges were replaced.
CanReplaceEdgesUnchecked(r, id, deps) == deps \subseteq Members(r)

CanReplaceEdges(r, id, deps) ==
  /\ deps \subseteq Members(r)
  /\ ~ClosesCycle(Detached(r, id), id, deps)

\* What _replace_dependency_edges leaves: on a cycle the old edges are put
\* back, reverse edges included, even a reverse edge that was missing.
EdgesReplaced(r, id, deps) ==
  IF deps \subseteq Members(r)
  THEN Installed(Detached(r, id), id,
                 IF CanReplaceEdges(r, id, deps) THEN deps ELSE r.dependencies[id])
  ELSE r

-----------------------------------------------------------------------------
(* add, remove and swap_instance: guard and effect. *)

CanAdd(r, id, p, deps) ==
  /\ id \notin Members(r)
  /\ \A m \in Members(r) : NameOf[r.plugins[m]] # NameOf[p]
  /\ Cardinality(Members(r)) < MaxPlugins
  /\ deps \subseteq Members(r)
  /\ ~ClosesCycle(r, id, deps)

\* Mutant: the id is stored in place of the instance.
AddedById(r, id, p, deps) == [Installed(r, id, deps) EXCEPT !.plugins[id] = id]

Added(r, id, p, deps) == [Installed(r, id, deps) EXCEPT !.plugins[id] = p]

\* Mutant: dependents do not matter.
CanRemoveAlways(r, id, force) == id \in Members(r)

CanRemove(r, id, force) ==
  /\ id \in Members(r)
  /\ force \/ LiveDependents(r, id) = {}

\* The edges of other plugins towards id stay in dependencies.
Removed(r, id) ==
  [Detached(r, id) EXCEPT !.plugins[id] = NoPlugin, !.dependents[id] = {}]

CanSwap(r, id, p, deps) ==
  /\ id \in Members(r)
  /\ NameOf[r.plugins[id]] = NameOf[p]
  /\ CanReplaceEdges(r, id, deps)

SwapAttempted(r, id, p, deps) ==
  IF id \in Members(r) /\ NameOf[r.plugins[id]] = NameOf[p]
  THEN IF CanReplaceEdges(r, id, deps)
       THEN [EdgesReplaced(r, id, deps) EXCEPT !.plugins[id] = p]
       ELSE EdgesReplaced(r, id, deps)
  ELSE r

-----------------------------------------------------------------------------
(* The registry on its own: any caller, any arguments. *)

Init == registry = EmptyRegistry

Add(id, p, deps) ==
  /\ CanAdd(registry, id, p, deps)
  /\ registry' = Added(registry, id, p, deps)

\* add() of an id that is registered only merges dependencies.
MergeEdges(id, deps) ==
  /\ id \in Members(registry)
  /\ deps # {}
  /\ registry' = EdgesReplaced(registry, id, registry.dependencies[id] \cup deps)

RemovePlugin(id, force) ==
  /\ CanRemove(registry, id, force)
  /\ registry' = Removed(registry, id)

SwapInstance(id, p, deps) ==
  registry' = SwapAttempted(registry, id, p, deps)

\* swap_instance with dependencies=None.
SwapKeepingEdges(id, p) ==
  /\ id \in Members(registry)
  /\ NameOf[registry.plugins[id]] = NameOf[p]
  /\ registry' = [registry EXCEPT !.plugins[id] = p]

Next ==
  \E id \in PluginId :
    \/ \E p \in Plugin, deps \in SUBSET PluginId :
         Add(id, p, deps) \/ SwapInstance(id, p, deps)
    \/ \E p \in Plugin : SwapKeepingEdges(id, p)
    \/ \E deps \in SUBSET PluginId : MergeEdges(id, deps)
    \/ \E force \in Forcing : RemovePlugin(id, force)

Spec == Init /\ [][Next]_registry

-----------------------------------------------------------------------------
(* Properties. *)

\* The type invariant: the three dictionaries of PluginRegistryImpl map ids
\* to instances and to sets of ids.
TypeOK == registry \in Registries

\* No set of ids in which everyone depends on somebody of the set: the graph
\* that load_order() sorts for teardown never has a cycle, whatever sequence
\* of add, merge, remove and swap_instance built it, forced removals and
\* re-registered ids included.
Acyclic ==
  \A S \in SUBSET PluginId :
    S # {} => \E i \in S : registry.dependencies[i] \cap S = {}

\* Every reverse edge has its forward edge, and belongs to a registered
\* plugin: dependents() never names a plugin that has been removed or that
\* no longer depends on the id (a stale one would block unregistration).
ReverseEdgesSound ==
  \A d, i \in PluginId :
    i \in registry.dependents[d] =>
      /\ d \in registry.dependencies[i]
      /\ i \in Members(registry)

\* As long as nobody forces a removal, every dependency of a registered
\* plugin is registered, and its reverse edge is there.
DependenciesPresent ==
  \A i \in Members(registry) :
    /\ registry.dependencies[i] \subseteq Members(registry)
    /\ \A d \in registry.dependencies[i] : i \in registry.dependents[d]

\* remove(force=False) never takes away a plugin that a registered plugin
\* depends on ("PluginError: If other plugins depend on this one (unless
\* force=True)").
RemoveRespectsDependents ==
  [][\A id \in PluginId :
       RemovePlugin(id, FALSE) =>
         \A j \in Members(registry) : id \notin registry.dependencies[j]]_registry

=============================================================================

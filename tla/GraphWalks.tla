----------------------------- MODULE GraphWalks ------------------------------
(***************************************************************************)
(* The two walks of src/uxok/registry/impl.py over its dependency graph,   *)
(* as the code does them: the depth-first search for a cycle and the order *)
(* of load_order().  Modules Registry and Lifecycle use their results.     *)
(***************************************************************************)
EXTENDS Registry, TopologicalOrder, GraphSearch

\* _check_circular_dependencies raises.
CircularDependency(r, id, deps) == Reaches(r.dependencies, id, deps)

\* load_order(ids), for any order in which the plugins were registered.
LoadOrders(r, ids) == {TopoSort(s, r.dependencies) : s \in SetToSeqs(ids)}

-----------------------------------------------------------------------------

\* In every registry that can come about the walks find what they are for,
\* although forced removals leave edges to ids that are gone, or registered
\* anew: new edges are refused exactly when they would close a cycle, and
\* load_order() is complete and puts no plugin before one it depends on, for
\* all plugins and for any selection of them.
WalksExact ==
  /\ \A id \in PluginId, deps \in SUBSET Members(registry) :
       \A r \in {registry, Detached(registry, id)} :
         CircularDependency(r, id, deps) <=> ClosesCycle(r, id, deps)
  /\ \A ids \in SUBSET Members(registry) : \A s \in LoadOrders(registry, ids) :
       Sorts(s, SetToSeq(ids), registry.dependencies)

=============================================================================

--------------------------- MODULE RegistryProofs ---------------------------
(***************************************************************************)
(* Invariants of the plugin registry, for any number of ids and instances. *)
(*                                                                         *)
(* Acyclicity is stated without paths: no nonempty set in which everyone   *)
(* depends on somebody of the set.  An operation installs new edges of one *)
(* id only, and ~ClosesCycle hands the proof a set V that holds the new    *)
(* dependencies, is closed under the edges and does not contain the id.  A *)
(* set S that meets V has, by the old invariant, a sink inside S \cap V,   *)
(* and a sink there is a sink of S; a set S that avoids V has the id itself*)
(* as a sink, or does not contain the id and is as it was.                 *)
(*                                                                         *)
(* Without forced removals more is kept: what a registered plugin depends  *)
(* on is registered and knows it (Present).  There is one lemma for each   *)
(* operator; LifecycleProofs uses them too.                                *)
(*                                                                         *)
(* At the end, the walks of GraphWalks over the graph: what they compute   *)
(* for any graph is proved in ArrangementProofs.                           *)
(***************************************************************************)
EXTENDS GraphWalks, ArrangementProofs

AcyclicGraph(g) ==
  \A S \in SUBSET PluginId : S # {} => \E i \in S : g[i] \cap S = {}

SoundReverseEdges(r) ==
  \A d, i \in PluginId :
    i \in r.dependents[d] => d \in r.dependencies[i] /\ i \in Members(r)

\* Edges leave registered plugins only: without this conjunct a reverse edge
\* could belong to an id whose plugin is gone.
EdgesOfMembers(r) ==
  \A i \in PluginId : r.dependencies[i] # {} => i \in Members(r)

Consistent(r) ==
  /\ r \in Registries
  /\ AcyclicGraph(r.dependencies)
  /\ SoundReverseEdges(r)
  /\ EdgesOfMembers(r)
  /\ IsFiniteSet(Members(r))

-----------------------------------------------------------------------------
(* The operators on registries. *)

LEMMA DetachedType ==
  ASSUME NEW r \in Registries, NEW id \in PluginId
  PROVE  /\ Detached(r, id) \in Registries
         /\ Detached(r, id).plugins = r.plugins
         /\ Detached(r, id).dependencies = [r.dependencies EXCEPT ![id] = {}]
         /\ \A d \in PluginId :
              Detached(r, id).dependents[d] =
                IF d \in r.dependencies[id] THEN r.dependents[d] \ {id}
                                            ELSE r.dependents[d]
BY DEF Registries, Graph, Detached

LEMMA InstalledType ==
  ASSUME NEW r \in Registries, NEW id \in PluginId, NEW deps \in SUBSET PluginId
  PROVE  /\ Installed(r, id, deps) \in Registries
         /\ Installed(r, id, deps).plugins = r.plugins
         /\ Installed(r, id, deps).dependencies = [r.dependencies EXCEPT ![id] = deps]
         /\ \A d \in PluginId :
              Installed(r, id, deps).dependents[d] =
                IF d \in deps THEN r.dependents[d] \cup {id} ELSE r.dependents[d]
BY DEF Registries, Graph, Installed

\* Replacing the edges of one id by edges that close no cycle keeps a graph
\* acyclic.
LEMMA NewEdgesAcyclic ==
  ASSUME NEW g \in Graph, AcyclicGraph(g),
         NEW id \in PluginId, NEW deps \in SUBSET PluginId,
         NEW V \in SUBSET PluginId,
         deps \subseteq V, id \notin V,
         \A n \in V : g[n] \subseteq V
  PROVE  AcyclicGraph([g EXCEPT ![id] = deps])
<1> DEFINE h == [g EXCEPT ![id] = deps]
<1>1. SUFFICES ASSUME NEW S \in SUBSET PluginId, S # {}
               PROVE  \E i \in S : h[i] \cap S = {}
  BY DEF AcyclicGraph
<1>2. /\ h[id] = deps
      /\ \A n \in PluginId : n # id => h[n] = g[n]
  BY DEF Graph
<1>3. CASE S \cap V # {}
  <2>1. PICK m \in S \cap V : g[m] \cap (S \cap V) = {}
    BY <1>3 DEF AcyclicGraph
  <2>2. h[m] = g[m]
    BY <1>2
  <2>3. g[m] \subseteq V
    OBVIOUS
  <2>. QED  BY <2>1, <2>2, <2>3
<1>4. CASE S \cap V = {} /\ id \in S
  BY <1>4, <1>2
<1>5. CASE S \cap V = {} /\ id \notin S
  <2>1. PICK m \in S : g[m] \cap S = {}
    BY <1>1 DEF AcyclicGraph
  <2>. QED  BY <2>1, <1>2, <1>5
<1>. QED  BY <1>3, <1>4, <1>5

\* Taking edges away keeps a graph acyclic.
LEMMA FewerEdgesAcyclic ==
  ASSUME NEW g \in Graph, AcyclicGraph(g), NEW id \in PluginId
  PROVE  AcyclicGraph([g EXCEPT ![id] = {}])
<1>1. SUFFICES ASSUME NEW S \in SUBSET PluginId, S # {}
               PROVE  \E i \in S : [g EXCEPT ![id] = {}][i] \cap S = {}
  BY DEF AcyclicGraph
<1>2. PICK m \in S : g[m] \cap S = {}
  BY <1>1 DEF AcyclicGraph
<1>. QED  BY <1>2 DEF Graph

-----------------------------------------------------------------------------
(* Each operator preserves consistency. *)

LEMMA DetachedConsistent ==
  ASSUME NEW r, Consistent(r), NEW id \in PluginId
  PROVE  /\ Consistent(Detached(r, id))
         /\ Members(Detached(r, id)) = Members(r)
         /\ \A d \in PluginId : id \notin Detached(r, id).dependents[d]
<1> DEFINE s == Detached(r, id)
<1>1. /\ s \in Registries
      /\ s.plugins = r.plugins
      /\ s.dependencies = [r.dependencies EXCEPT ![id] = {}]
      /\ \A d \in PluginId :
           s.dependents[d] = IF d \in r.dependencies[id] THEN r.dependents[d] \ {id}
                                                         ELSE r.dependents[d]
  BY DetachedType DEF Consistent
<1>2. Members(s) = Members(r)
  BY <1>1 DEF Members
<1>3. AcyclicGraph(s.dependencies)
  BY <1>1, FewerEdgesAcyclic DEF Consistent, Registries
<1>4. \A d \in PluginId : id \notin s.dependents[d]
  BY <1>1 DEF Consistent, SoundReverseEdges
<1>5. SoundReverseEdges(s)
  <2> SUFFICES ASSUME NEW d \in PluginId, NEW i \in PluginId, i \in s.dependents[d]
               PROVE  d \in s.dependencies[i] /\ i \in Members(s)
    BY DEF SoundReverseEdges
  <2>1. i # id /\ i \in r.dependents[d]
    BY <1>1, <1>4
  <2>2. d \in r.dependencies[i] /\ i \in Members(r)
    BY <2>1 DEF Consistent, SoundReverseEdges
  <2>. QED  BY <1>1, <1>2, <2>1, <2>2 DEF Consistent, Registries, Graph
<1>6. EdgesOfMembers(s)
  BY <1>1, <1>2 DEF Consistent, EdgesOfMembers, Registries, Graph
<1>. QED  BY <1>1, <1>2, <1>3, <1>4, <1>5, <1>6 DEF Consistent

LEMMA InstalledConsistent ==
  ASSUME NEW r, Consistent(r), NEW id \in Members(r), NEW deps \in SUBSET PluginId,
         \A d \in PluginId : id \notin r.dependents[d],
         AcyclicGraph([r.dependencies EXCEPT ![id] = deps])
  PROVE  Consistent(Installed(r, id, deps))
<1> DEFINE s == Installed(r, id, deps)
<1>0. id \in PluginId /\ r \in Registries
  BY DEF Members, Consistent
<1>1. /\ s \in Registries
      /\ s.plugins = r.plugins
      /\ s.dependencies = [r.dependencies EXCEPT ![id] = deps]
      /\ \A d \in PluginId :
           s.dependents[d] = IF d \in deps THEN r.dependents[d] \cup {id}
                                           ELSE r.dependents[d]
  BY <1>0, ZenonT(60) DEF Installed, Registries, Graph
<1>2. Members(s) = Members(r)
  BY <1>1 DEF Members
<1>3. SoundReverseEdges(s)
  <2> SUFFICES ASSUME NEW d \in PluginId, NEW i \in PluginId, i \in s.dependents[d]
               PROVE  d \in s.dependencies[i] /\ i \in Members(s)
    BY DEF SoundReverseEdges
  <2>1. CASE i = id
    <3>1. d \in deps
      BY <1>1, <2>1
    <3>. QED  BY <3>1, <2>1, <1>1, <1>2 DEF Consistent, Registries, Graph
  <2>2. CASE i # id
    <3>1. i \in r.dependents[d]
      BY <1>1, <2>2
    <3>2. d \in r.dependencies[i] /\ i \in Members(r)
      BY <3>1 DEF Consistent, SoundReverseEdges
    <3>. QED  BY <3>2, <2>2, <1>1, <1>2 DEF Consistent, Registries, Graph
  <2>. QED  BY <2>1, <2>2
<1>4. EdgesOfMembers(s)
  BY <1>1, <1>2 DEF Consistent, EdgesOfMembers, Registries, Graph
<1>. QED  BY <1>1, <1>2, <1>3, <1>4 DEF Consistent

LEMMA InstanceSetConsistent ==
  ASSUME NEW r, Consistent(r), NEW id \in PluginId, NEW p \in Plugin
  PROVE  LET s == [r EXCEPT !.plugins[id] = p]
         IN  Consistent(s) /\ Members(s) = Members(r) \cup {id}
<1> DEFINE s == [r EXCEPT !.plugins[id] = p]
<1>1. /\ s \in Registries
      /\ s.plugins = [r.plugins EXCEPT ![id] = p]
      /\ s.dependencies = r.dependencies
      /\ s.dependents = r.dependents
  BY DEF Consistent, Registries
<1>2. Members(s) = Members(r) \cup {id}
  BY <1>1, RegistryAssumption DEF Members, Consistent, Registries
<1>3. SoundReverseEdges(s) /\ EdgesOfMembers(s)
  BY <1>1, <1>2 DEF Consistent, SoundReverseEdges, EdgesOfMembers
<1>4. IsFiniteSet(Members(s))
  BY <1>2, FS_AddElement DEF Consistent
<1>. QED  BY <1>1, <1>2, <1>3, <1>4 DEF Consistent

LEMMA EdgesReplacedConsistent ==
  ASSUME NEW r, Consistent(r), NEW id \in Members(r), NEW deps \in SUBSET PluginId
  PROVE  Consistent(EdgesReplaced(r, id, deps))
<1> DEFINE s == Detached(r, id)
           old == r.dependencies[id]
<1>0. id \in PluginId /\ r \in Registries
  BY DEF Members, Consistent
<1>1. /\ Consistent(s)
      /\ Members(s) = Members(r)
      /\ \A d \in PluginId : id \notin s.dependents[d]
  BY <1>0, DetachedConsistent
<1>2. CASE deps \subseteq Members(r) /\ ~ClosesCycle(s, id, deps)
  <2>1. PICK V \in SUBSET PluginId :
          /\ deps \subseteq V
          /\ \A n \in V : s.dependencies[n] \subseteq V
          /\ id \notin V
    BY <1>2 DEF ClosesCycle
  <2>2. s.dependencies \in Graph /\ AcyclicGraph(s.dependencies)
    BY <1>1 DEF Consistent, Registries
  <2>3. AcyclicGraph([s.dependencies EXCEPT ![id] = deps])
    BY <1>0, <2>1, <2>2, NewEdgesAcyclic
  <2>4. Consistent(Installed(s, id, deps))
    BY <1>1, <2>3, InstalledConsistent
  <2>. QED  BY <1>2, <2>4 DEF EdgesReplaced, CanReplaceEdges
<1>3. CASE deps \subseteq Members(r) /\ ClosesCycle(s, id, deps)
  <2>1. s.dependencies = [r.dependencies EXCEPT ![id] = {}]
    BY <1>0, DetachedType
  <2>2. [s.dependencies EXCEPT ![id] = old] = r.dependencies
    BY <1>0, <2>1 DEF Registries, Graph
  <2>3. AcyclicGraph([s.dependencies EXCEPT ![id] = old]) /\ old \in SUBSET PluginId
    BY <1>0, <2>2 DEF Consistent, Registries, Graph
  <2>4. Consistent(Installed(s, id, old))
    BY <1>1, <2>3, InstalledConsistent
  <2>. QED  BY <1>3, <2>4 DEF EdgesReplaced, CanReplaceEdges
<1>4. CASE ~(deps \subseteq Members(r))
  BY <1>4 DEF EdgesReplaced
<1>. QED  BY <1>2, <1>3, <1>4

LEMMA AddedConsistent ==
  ASSUME NEW r, Consistent(r), NEW id \in PluginId, NEW p \in Plugin,
         NEW deps \in SUBSET PluginId, CanAdd(r, id, p, deps)
  PROVE  Consistent(Added(r, id, p, deps))
<1> DEFINE s == [r EXCEPT !.plugins[id] = p]
<1>0. r \in Registries /\ r.dependencies[id] = {}
  BY DEF CanAdd, Consistent, EdgesOfMembers
<1>1. Consistent(s) /\ id \in Members(s)
  BY InstanceSetConsistent
<1>2. \A d \in PluginId : id \notin s.dependents[d]
  BY <1>0 DEF Consistent, SoundReverseEdges, Registries
<1>3. PICK V \in SUBSET PluginId :
        /\ deps \subseteq V
        /\ \A n \in V : r.dependencies[n] \subseteq V
        /\ id \notin V
  BY DEF CanAdd, ClosesCycle
<1>4. AcyclicGraph([r.dependencies EXCEPT ![id] = deps])
  BY <1>0, <1>3, NewEdgesAcyclic DEF Consistent, Registries
<1>5. s.dependencies = r.dependencies
  BY <1>0 DEF Registries
<1>6. Consistent(Installed(s, id, deps))
  BY <1>1, <1>2, <1>4, <1>5, InstalledConsistent
<1>7. Installed(s, id, deps) = Added(r, id, p, deps)
  BY <1>0 DEF Installed, Added, Registries
<1>. QED  BY <1>6, <1>7

LEMMA RemovedConsistent ==
  ASSUME NEW r, Consistent(r), NEW id \in PluginId
  PROVE  Consistent(Removed(r, id))
<1> DEFINE s == Detached(r, id)
           t == Removed(r, id)
<1>1. /\ Consistent(s)
      /\ s \in Registries
      /\ \A d \in PluginId : id \notin s.dependents[d]
  BY DetachedConsistent DEF Consistent
<1>2. /\ t \in Registries
      /\ t.plugins = [s.plugins EXCEPT ![id] = NoPlugin]
      /\ t.dependencies = s.dependencies
      /\ t.dependents = [s.dependents EXCEPT ![id] = {}]
  BY <1>1 DEF Removed, Registries, Graph
<1>3. Members(t) = Members(s) \ {id}
  BY <1>1, <1>2 DEF Members, Registries
<1>4. s.dependencies[id] = {}
  <2>1. r \in Registries /\ r.dependencies \in Graph
    BY DEF Consistent, Registries
  <2>2. s.dependencies = [r.dependencies EXCEPT ![id] = {}]
    BY <2>1, DetachedType
  <2>. QED  BY <2>1, <2>2 DEF Graph
<1>5. SoundReverseEdges(t)
  BY <1>1, <1>2, <1>3 DEF Consistent, SoundReverseEdges, Registries, Graph
<1>6. EdgesOfMembers(t)
  BY <1>1, <1>2, <1>3, <1>4 DEF Consistent, EdgesOfMembers
<1>7. IsFiniteSet(Members(t))
  BY <1>1, <1>3, FS_RemoveElement DEF Consistent
<1>. QED  BY <1>1, <1>2, <1>5, <1>6, <1>7 DEF Consistent

LEMMA SwapAttemptedConsistent ==
  ASSUME NEW r, Consistent(r), NEW id \in PluginId, NEW p \in Plugin,
         NEW deps \in SUBSET PluginId
  PROVE  Consistent(SwapAttempted(r, id, p, deps))
<1>1. CASE id \in Members(r) /\ NameOf[r.plugins[id]] = NameOf[p]
  <2>1. Consistent(EdgesReplaced(r, id, deps))
    BY <1>1, EdgesReplacedConsistent
  <2>. QED  BY <1>1, <2>1, InstanceSetConsistent DEF SwapAttempted
<1>2. CASE ~(id \in Members(r) /\ NameOf[r.plugins[id]] = NameOf[p])
  BY <1>2 DEF SwapAttempted
<1>. QED  BY <1>1, <1>2

\* A registry is what its three dictionaries are.
LEMMA SameRegistry ==
  ASSUME NEW r \in Registries, NEW s \in Registries, r.plugins = s.plugins,
         r.dependencies = s.dependencies, r.dependents = s.dependents
  PROVE  r = s
BY DEF Registries

\* r with another instance under id.
With(r, id, p) == [r EXCEPT !.plugins[id] = p]

LEMMA WithType ==
  ASSUME NEW r \in Registries, NEW id \in PluginId, NEW p \in Plugin
  PROVE  /\ With(r, id, p) \in Registries
         /\ With(r, id, p).plugins = [r.plugins EXCEPT ![id] = p]
         /\ With(r, id, p).dependencies = r.dependencies
         /\ With(r, id, p).dependents = r.dependents
BY DEF With, Registries

\* The edges do not depend on the instances: the two are replaced in either
\* order, and the last instance stays.
LEMMA InstancesApart ==
  ASSUME NEW r \in Registries, NEW id \in PluginId, NEW deps \in SUBSET PluginId,
         NEW p \in Plugin, NEW q \in Plugin
  PROVE  /\ Installed(With(r, id, p), id, deps) = With(Installed(r, id, deps), id, p)
         /\ Detached(With(r, id, p), id) = With(Detached(r, id), id, p)
         /\ With(With(r, id, p), id, q) = With(r, id, q)
<1> DEFINE s == With(r, id, p)
<1>1. /\ s \in Registries /\ s.plugins = [r.plugins EXCEPT ![id] = p]
      /\ s.dependencies = r.dependencies /\ s.dependents = r.dependents
  BY WithType
<1>. HIDE DEF s
<1>2. Installed(s, id, deps) = With(Installed(r, id, deps), id, p)
  <2> DEFINE u == Installed(r, id, deps)
             v == Installed(s, id, deps)
  <2>1. u \in Registries /\ u.plugins = r.plugins
    BY InstalledType, ZenonT(60)
  <2>. HIDE DEF u
  <2>2. v \in Registries /\ v.plugins = s.plugins
    BY <1>1 DEF Installed, Registries, Graph
  <2>3. v.dependencies = u.dependencies /\ v.dependents = u.dependents
    BY <1>1 DEF Installed, Registries, u
  <2>. HIDE DEF v
  <2>4. /\ With(u, id, p) \in Registries
        /\ With(u, id, p).plugins = [u.plugins EXCEPT ![id] = p]
        /\ With(u, id, p).dependencies = u.dependencies
        /\ With(u, id, p).dependents = u.dependents
    BY <2>1, WithType
  <2>5. v = With(u, id, p)
    BY <1>1, <2>1, <2>2, <2>3, <2>4, SameRegistry
  <2>. QED  BY <2>5 DEF u, v
<1>3. Detached(s, id) = With(Detached(r, id), id, p)
  <2> DEFINE u == Detached(r, id)
             v == Detached(s, id)
  <2>1. u \in Registries /\ u.plugins = r.plugins
    BY DetachedType
  <2>2. v \in Registries /\ v.plugins = s.plugins
    BY <1>1, DetachedType
  <2>3. v.dependencies = u.dependencies /\ v.dependents = u.dependents
    BY <1>1 DEF Detached, Registries
  <2>. HIDE DEF u, v
  <2>4. /\ With(u, id, p) \in Registries
        /\ With(u, id, p).plugins = [u.plugins EXCEPT ![id] = p]
        /\ With(u, id, p).dependencies = u.dependencies
        /\ With(u, id, p).dependents = u.dependents
    BY <2>1, WithType
  <2>5. v = With(u, id, p)
    BY <1>1, <2>1, <2>2, <2>3, <2>4, SameRegistry
  <2>. QED  BY <2>5 DEF u, v
<1>4. With(s, id, q) = With(r, id, q)
  BY DEF With, Registries, s
<1>. QED  BY <1>2, <1>3, <1>4 DEF s

\* Edges that were put in are gone when they are replaced.
LEMMA DetachedForgets ==
  ASSUME NEW r, Consistent(r), NEW id \in PluginId, NEW deps \in SUBSET PluginId
  PROVE  Detached(Installed(Detached(r, id), id, deps), id) = Detached(r, id)
<1> DEFINE t == Detached(r, id)
           u == Installed(t, id, deps)
           v == Detached(u, id)
<1>1. /\ t \in Registries /\ t.plugins = r.plugins
      /\ t.dependencies = [r.dependencies EXCEPT ![id] = {}]
      /\ \A d \in PluginId : id \notin t.dependents[d]
  BY DetachedType, DetachedConsistent DEF Consistent
<1>. HIDE DEF t
<1>2. /\ u \in Registries /\ u.plugins = t.plugins
      /\ u.dependencies = [t.dependencies EXCEPT ![id] = deps]
      /\ \A d \in PluginId :
           u.dependents[d] = IF d \in deps THEN t.dependents[d] \cup {id}
                                           ELSE t.dependents[d]
  BY <1>1 DEF Installed, Registries, Graph
<1>. HIDE DEF u
<1>3. /\ v \in Registries /\ v.plugins = u.plugins
      /\ v.dependencies = [u.dependencies EXCEPT ![id] = {}]
      /\ \A d \in PluginId :
           v.dependents[d] = IF d \in u.dependencies[id] THEN u.dependents[d] \ {id}
                                                         ELSE u.dependents[d]
  BY <1>2, DetachedType
<1>. HIDE DEF v
<1>4. v.dependencies = t.dependencies
  <2>1. v.dependencies = [[t.dependencies EXCEPT ![id] = deps] EXCEPT ![id] = {}]
    BY <1>2, <1>3
  <2>2. t.dependencies = [r.dependencies EXCEPT ![id] = {}] /\ r.dependencies \in Graph
    BY <1>1 DEF Consistent, Registries
  <2>. QED  BY <2>1, <2>2 DEF Graph
<1>5. v.dependents = t.dependents
  <2>1. u.dependencies[id] = deps
    BY <1>1, <1>2 DEF Registries, Graph
  <2>2. \A d \in PluginId : v.dependents[d] = t.dependents[d]
    <3>1. SUFFICES ASSUME NEW d \in PluginId
                   PROVE  v.dependents[d] = t.dependents[d]
      OBVIOUS
    <3>2. id \notin t.dependents[d]
      BY <1>1
    <3>3. u.dependents[d] = IF d \in deps THEN t.dependents[d] \cup {id} ELSE t.dependents[d]
      BY <1>2
    <3>4. v.dependents[d] = IF d \in deps THEN u.dependents[d] \ {id} ELSE u.dependents[d]
      BY <1>3, <2>1
    <3>. QED  BY <3>2, <3>3, <3>4
  <2>3. v.dependents \in Graph /\ t.dependents \in Graph
    BY <1>1, <1>3 DEF Registries
  <2>. QED  BY <2>2, <2>3 DEF Graph
<1>6. v = t
  BY <1>1, <1>2, <1>3, <1>4, <1>5, SameRegistry
<1>. QED  BY <1>6 DEF v, u, t

LEMMA SwapThere ==
  ASSUME NEW r, Consistent(r), NEW id \in PluginId, NEW p \in Plugin,
         NEW deps \in SUBSET PluginId, CanSwap(r, id, p, deps)
  PROVE  LET s == SwapAttempted(r, id, p, deps)
         IN  /\ s = With(Installed(Detached(r, id), id, deps), id, p)
             /\ Consistent(s) /\ Members(s) = Members(r)
             /\ s.plugins[id] = p /\ s.dependencies[id] = deps
<1> DEFINE s == SwapAttempted(r, id, p, deps)
           u == Installed(Detached(r, id), id, deps)
<1>1. s = With(u, id, p)
  BY DEF CanSwap, SwapAttempted, EdgesReplaced, CanReplaceEdges, With
<1>2. Detached(r, id) \in Registries /\ Detached(r, id).plugins = r.plugins
  BY DetachedType DEF Consistent
<1>3. /\ u \in Registries /\ u.plugins = r.plugins
      /\ u.dependencies = [Detached(r, id).dependencies EXCEPT ![id] = deps]
  BY <1>2, InstalledType
<1>. HIDE DEF u, s
<1>4. /\ s.plugins = [r.plugins EXCEPT ![id] = p]
      /\ s.dependencies = u.dependencies
  BY <1>1, <1>3, WithType
<1>5. Consistent(s)
  BY SwapAttemptedConsistent DEF s
<1>6. s.plugins[id] = p /\ s.dependencies[id] = deps
  BY <1>2, <1>3, <1>4 DEF Registries, Graph, Consistent
<1>7. Members(s) = Members(r)
  BY <1>4, RegistryAssumption DEF CanSwap, Members, Consistent, Registries
<1>. QED  BY <1>1, <1>5, <1>6, <1>7 DEF u, s

\* A swap and its reversal together leave what the reversal would have left
\* alone, when the old edges can be put back, and else what the swap left.
LEMMA SwapAndBack ==
  ASSUME NEW r, Consistent(r), NEW id \in PluginId, NEW p \in Plugin, NEW q \in Plugin,
         NEW deps \in SUBSET PluginId, NEW olds \in SUBSET PluginId,
         CanSwap(r, id, p, deps)
  PROVE  LET s == SwapAttempted(r, id, p, deps)
         IN  SwapAttempted(s, id, q, olds) \in {s, SwapAttempted(r, id, q, olds)}
<1> DEFINE s == SwapAttempted(r, id, p, deps)
           t == Detached(r, id)
           u == SwapAttempted(s, id, q, olds)
           v == SwapAttempted(r, id, q, olds)
<1>1. /\ s = With(Installed(t, id, deps), id, p)
      /\ Members(s) = Members(r) /\ s.plugins[id] = p /\ s.dependencies[id] = deps
      /\ id \in Members(r) /\ NameOf[r.plugins[id]] = NameOf[p]
  BY SwapThere DEF CanSwap
<1>2. t \in Registries
  BY DetachedType DEF Consistent
<1>3. Detached(s, id) = With(t, id, p)
  <2>1. Detached(Installed(t, id, deps), id) = t
    BY DetachedForgets
  <2>2. Installed(t, id, deps) \in Registries
    BY <1>2, InstalledType, ZenonT(60)
  <2>. HIDE DEF s, t
  <2>. QED  BY <1>1, <2>1, <2>2, InstancesApart
<1>. SUFFICES u \in {s, v}
  OBVIOUS
<1>4. v = IF /\ NameOf[p] = NameOf[q] /\ olds \subseteq Members(r)
             /\ ~ClosesCycle(t, id, olds)
          THEN With(Installed(t, id, olds), id, q)
          ELSE v
  BY <1>1 DEF SwapAttempted, CanReplaceEdges, EdgesReplaced, With
<1>5. u = IF NameOf[p] = NameOf[q] /\ olds \subseteq Members(s)
          THEN IF ~ClosesCycle(Detached(s, id), id, olds)
               THEN With(Installed(Detached(s, id), id, olds), id, q)
               ELSE Installed(Detached(s, id), id, s.dependencies[id])
          ELSE s
  <2>. HIDE DEF s
  <2>1. s.dependencies[id] = deps /\ s.plugins[id] = p /\ id \in Members(s)
    BY <1>1
  <2>2. CASE NameOf[p] = NameOf[q] /\ olds \subseteq Members(s)
    BY <2>1, <2>2 DEF SwapAttempted, CanReplaceEdges, EdgesReplaced, With
  <2>3. CASE ~(NameOf[p] = NameOf[q] /\ olds \subseteq Members(s))
    BY <2>1, <2>3 DEF SwapAttempted, CanReplaceEdges, EdgesReplaced
  <2>. QED  BY <2>2, <2>3
<1>. HIDE DEF s, t, u, v
<1>6. Installed(Detached(s, id), id, s.dependencies[id]) = s
  BY <1>1, <1>2, <1>3, InstancesApart
<1>7. With(Installed(Detached(s, id), id, olds), id, q) = With(Installed(t, id, olds), id, q)
  <2>1. Installed(With(t, id, p), id, olds) = With(Installed(t, id, olds), id, p)
    BY <1>2, InstancesApart
  <2>2. Installed(t, id, olds) \in Registries
    BY <1>2, InstalledType, ZenonT(60)
  <2>3. With(With(Installed(t, id, olds), id, p), id, q) = With(Installed(t, id, olds), id, q)
    BY <2>2, InstancesApart
  <2>. QED  BY <1>3, <2>1, <2>3
<1>8. ClosesCycle(Detached(s, id), id, olds) <=> ClosesCycle(t, id, olds)
  <2>1. With(t, id, p).dependencies = t.dependencies
    BY <1>2, WithType
  <2>2. Detached(s, id).dependencies = t.dependencies
    BY <1>3, <2>1
  <2>. QED  BY <2>2 DEF ClosesCycle
<1>. QED  BY <1>1, <1>4, <1>5, <1>6, <1>7, <1>8

-----------------------------------------------------------------------------
(* What the operators do to the entry and to the edges of an id. *)

LEMMA AddedEntry ==
  ASSUME NEW r, Consistent(r), NEW id \in PluginId, NEW p \in Plugin,
         NEW deps \in SUBSET PluginId
  PROVE  /\ Added(r, id, p, deps).plugins = [r.plugins EXCEPT ![id] = p]
         /\ Added(r, id, p, deps).dependencies = [r.dependencies EXCEPT ![id] = deps]
BY DEF Consistent, Added, Installed, Registries, Graph

LEMMA RemovedEntry ==
  ASSUME NEW r, Consistent(r), NEW id \in PluginId
  PROVE  /\ Removed(r, id).plugins = [r.plugins EXCEPT ![id] = NoPlugin]
         /\ Removed(r, id).dependencies = [r.dependencies EXCEPT ![id] = {}]
BY DEF Consistent, Removed, Detached, Registries, Graph

LEMMA EdgesReplacedEntry ==
  ASSUME NEW r, Consistent(r), NEW id \in PluginId, NEW deps \in SUBSET PluginId
  PROVE  /\ EdgesReplaced(r, id, deps).plugins = r.plugins
         /\ EdgesReplaced(r, id, deps).dependencies =
              IF CanReplaceEdges(r, id, deps)
              THEN [r.dependencies EXCEPT ![id] = deps] ELSE r.dependencies
<1> DEFINE t == Detached(r, id)
           put == IF CanReplaceEdges(r, id, deps) THEN deps ELSE r.dependencies[id]
           u == Installed(t, id, put)
<1>1. /\ t \in Registries /\ t.plugins = r.plugins
      /\ t.dependencies = [r.dependencies EXCEPT ![id] = {}]
      /\ r.dependencies \in Graph
  BY DetachedType DEF Consistent, Registries
<1>2. put \in SUBSET PluginId
  BY <1>1 DEF Graph
<1>. HIDE DEF t, put
<1>3. u.plugins = r.plugins /\ u.dependencies = [t.dependencies EXCEPT ![id] = put]
  BY <1>1, <1>2, InstalledType
<1>4. u.dependencies = [r.dependencies EXCEPT ![id] = put]
  BY <1>1, <1>3 DEF Graph
<1>. HIDE DEF u
<1>5. [r.dependencies EXCEPT ![id] = r.dependencies[id]] = r.dependencies
  BY <1>1 DEF Graph
<1>6. CASE deps \subseteq Members(r)
  <2>1. EdgesReplaced(r, id, deps) = u
    BY <1>6 DEF EdgesReplaced, u, t, put
  <2>. QED  BY <1>3, <1>4, <1>5, <2>1 DEF put
<1>7. CASE ~(deps \subseteq Members(r))
  BY <1>7 DEF EdgesReplaced, CanReplaceEdges
<1>. QED  BY <1>6, <1>7

LEMMA SwapEntry ==
  ASSUME NEW r, Consistent(r), NEW id \in PluginId, NEW p \in Plugin,
         NEW deps \in SUBSET PluginId
  PROVE  LET s == SwapAttempted(r, id, p, deps)
         IN  IF CanSwap(r, id, p, deps)
             THEN /\ s.plugins = [r.plugins EXCEPT ![id] = p]
                  /\ s.dependencies = [r.dependencies EXCEPT ![id] = deps]
             ELSE s.plugins = r.plugins /\ s.dependencies = r.dependencies
<1> DEFINE e == EdgesReplaced(r, id, deps)
<1>1. CASE id \in Members(r)
  <2>1. Consistent(e)
    BY <1>1, EdgesReplacedConsistent
  <2>2. /\ e.plugins = r.plugins
        /\ e.dependencies = IF CanReplaceEdges(r, id, deps)
                            THEN [r.dependencies EXCEPT ![id] = deps] ELSE r.dependencies
    BY EdgesReplacedEntry
  <2>. HIDE DEF e
  <2>3. /\ [e EXCEPT !.plugins[id] = p].plugins = [e.plugins EXCEPT ![id] = p]
        /\ [e EXCEPT !.plugins[id] = p].dependencies = e.dependencies
    BY <2>1 DEF Consistent, Registries
  <2>. QED  BY <1>1, <2>2, <2>3 DEF SwapAttempted, CanSwap, e
<1>2. CASE id \notin Members(r)
  BY <1>2 DEF SwapAttempted, CanSwap
<1>. QED  BY <1>1, <1>2

\* The edges that an id has can always be put back: they closed no cycle when
\* they were there.
LEMMA OldEdgesCloseNoCycle ==
  ASSUME NEW r, Consistent(r), NEW id \in PluginId
  PROVE  ~ClosesCycle(Detached(r, id), id, r.dependencies[id])
<1> DEFINE t == Detached(r, id)
           Safe(n) == \E V \in SUBSET PluginId :
                        /\ n \in V /\ id \notin V
                        /\ \A m \in V : t.dependencies[m] \subseteq V
           W == {n \in PluginId : Safe(n)}
           S == PluginId \ W
<1>1. t.dependencies = [r.dependencies EXCEPT ![id] = {}] /\ r.dependencies \in Graph
  BY DetachedType DEF Consistent, Registries
<1>. HIDE DEF t
<1>2. /\ t.dependencies[id] = {}
      /\ \A n \in PluginId : n # id => t.dependencies[n] = r.dependencies[n]
      /\ \A n \in PluginId : r.dependencies[n] \subseteq PluginId /\ t.dependencies[n] \subseteq PluginId
  BY <1>1 DEF Graph
<1>3. \A n \in W : t.dependencies[n] \subseteq W
  BY <1>2
<1>4. id \notin W
  OBVIOUS
<1>5. ASSUME NEW n \in S, n # id
      PROVE  r.dependencies[n] \cap S # {}
  <2>1. SUFFICES ASSUME r.dependencies[n] \subseteq W PROVE FALSE
    BY <1>2, <1>5
  <2>2. n \in W \cup {n} /\ id \notin W \cup {n} /\ W \cup {n} \in SUBSET PluginId
    BY <1>4, <1>5
  <2>3. \A m \in W \cup {n} : t.dependencies[m] \subseteq W \cup {n}
    BY <1>2, <1>3, <1>5, <2>1
  <2>4. Safe(n)
    BY <2>2, <2>3
  <2>. QED  BY <2>4, <1>5
<1>. HIDE DEF W
<1>6. id \in S /\ S \in SUBSET PluginId
  BY <1>4
<1>7. PICK n \in S : r.dependencies[n] \cap S = {}
  BY <1>6 DEF Consistent, AcyclicGraph
<1>8. r.dependencies[id] \subseteq W
  BY <1>2, <1>5, <1>7
<1>9. W \in SUBSET PluginId
  BY DEF W
<1>. QED  BY <1>3, <1>4, <1>8, <1>9 DEF ClosesCycle, t

\* Of two writes of one entry the second counts.
LEMMA LastWriteCounts ==
  ASSUME NEW S, NEW T, NEW g \in [S -> T], NEW x \in S, NEW a, NEW b
  PROVE  [[g EXCEPT ![x] = a] EXCEPT ![x] = b] = [g EXCEPT ![x] = b]
OBVIOUS

\* What is written back over itself changes nothing.
LEMMA WrittenBack ==
  ASSUME NEW S, NEW T, NEW g \in [S -> T], NEW x \in S
  PROVE  [g EXCEPT ![x] = g[x]] = g
OBVIOUS

\* A swap that is reversed at once leaves the entry and the edges as they
\* were, if what the old version depended on is registered.
LEMMA SwapRestores ==
  ASSUME NEW r, Consistent(r), NEW id \in PluginId, NEW p \in Plugin,
         NEW deps \in SUBSET PluginId, CanSwap(r, id, p, deps),
         r.dependencies[id] \subseteq Members(r)
  PROVE  LET s == SwapAttempted(r, id, p, deps)
             u == SwapAttempted(s, id, r.plugins[id], r.dependencies[id])
         IN  u.plugins = r.plugins /\ u.dependencies = r.dependencies
<1> DEFINE s == SwapAttempted(r, id, p, deps)
           old == r.plugins[id]
           olds == r.dependencies[id]
           u == SwapAttempted(s, id, old, olds)
<1>1. /\ old \in Plugin /\ olds \in SUBSET PluginId /\ id \in Members(r)
      /\ NameOf[old] = NameOf[p] /\ r \in Registries
  BY DEF CanSwap, Members, Consistent, Registries, Graph
<1>2. /\ s = With(Installed(Detached(r, id), id, deps), id, p)
      /\ Consistent(s) /\ Members(s) = Members(r)
      /\ s.plugins[id] = p /\ s.dependencies[id] = deps
      /\ s.plugins = [r.plugins EXCEPT ![id] = p]
      /\ s.dependencies = [r.dependencies EXCEPT ![id] = deps]
  BY SwapThere, SwapEntry
<1>. HIDE DEF s, old, olds
<1>3. Detached(s, id).dependencies = Detached(r, id).dependencies
  <2>1. /\ Detached(s, id).dependencies = [s.dependencies EXCEPT ![id] = {}]
        /\ Detached(r, id).dependencies = [r.dependencies EXCEPT ![id] = {}]
    BY <1>1, <1>2, DetachedType DEF Consistent
  <2>2. r.dependencies \in [PluginId -> SUBSET PluginId]
    BY <1>1 DEF Registries, Graph
  <2>. QED  BY <1>2, <2>1, <2>2, LastWriteCounts
<1>4. ~ClosesCycle(Detached(r, id), id, olds)
  BY OldEdgesCloseNoCycle DEF olds
<1>5. CanSwap(s, id, old, olds)
  BY <1>1, <1>2, <1>3, <1>4 DEF CanSwap, CanReplaceEdges, ClosesCycle, olds
<1>6. /\ u.plugins = [s.plugins EXCEPT ![id] = old]
      /\ u.dependencies = [s.dependencies EXCEPT ![id] = olds]
  BY <1>1, <1>2, <1>5, SwapEntry
<1>7. u.plugins = r.plugins /\ u.dependencies = r.dependencies
  <2>1. /\ r.plugins \in [PluginId -> Plugin \cup {NoPlugin}]
        /\ r.dependencies \in [PluginId -> SUBSET PluginId]
    BY <1>1 DEF Registries, Graph
  <2>2. /\ u.plugins = [r.plugins EXCEPT ![id] = r.plugins[id]]
        /\ u.dependencies = [r.dependencies EXCEPT ![id] = r.dependencies[id]]
    BY <1>2, <1>6, <2>1, LastWriteCounts DEF old, olds
  <2>. QED  BY <2>1, <2>2, WrittenBack
<1>. QED  BY <1>7 DEF s, old, olds

-----------------------------------------------------------------------------
(* What registered plugins depend on stays registered. *)

\* DependenciesPresent, of any registry.
Present(r) ==
  \A i \in Members(r) :
    /\ r.dependencies[i] \subseteq Members(r)
    /\ \A d \in r.dependencies[i] : i \in r.dependents[d]

\* An id that is new has no dependents, and gets none.
LEMMA AddedPresent ==
  ASSUME NEW r, Consistent(r), Present(r), NEW id \in PluginId, NEW p \in Plugin,
         NEW deps \in SUBSET PluginId, CanAdd(r, id, p, deps)
  PROVE  Present(Added(r, id, p, deps)) /\ LiveDependents(Added(r, id, p, deps), id) = {}
<1> DEFINE s == Added(r, id, p, deps)
<1>1. /\ r \in Registries /\ id \notin Members(r) /\ deps \subseteq Members(r)
      /\ r.dependencies[id] = {}
  BY DEF CanAdd, Consistent, EdgesOfMembers
<1>2. /\ s.plugins = [r.plugins EXCEPT ![id] = p]
      /\ s.dependencies = [r.dependencies EXCEPT ![id] = deps]
      /\ \A d \in PluginId :
           s.dependents[d] = IF d \in deps THEN r.dependents[d] \cup {id}
                                           ELSE r.dependents[d]
  BY <1>1 DEF Added, Installed, Registries, Graph
<1>. HIDE DEF s
<1>3. Members(s) = Members(r) \cup {id}
  BY <1>1, <1>2, RegistryAssumption DEF Members, Registries
<1>4. s.dependencies[id] = deps /\ \A i \in Members(r) : s.dependencies[i] = r.dependencies[i]
  BY <1>1, <1>2 DEF Members, Registries, Graph
<1>5. \A i \in Members(r) : r.dependencies[i] \subseteq Members(r)
  BY DEF Present
<1>6. \A i \in Members(s) : \A d \in s.dependencies[i] : i \in s.dependents[d]
  <2>1. SUFFICES ASSUME NEW i \in Members(s), NEW d \in s.dependencies[i]
                 PROVE  i \in s.dependents[d]
    OBVIOUS
  <2>2. CASE i = id
    BY <1>2, <1>4, <2>1, <2>2
  <2>3. CASE i \in Members(r)
    <3>1. d \in r.dependencies[i] /\ d \in PluginId
      BY <1>4, <1>5, <2>1, <2>3 DEF Members
    <3>2. i \in r.dependents[d]
      BY <2>3, <3>1 DEF Present
    <3>. QED  BY <1>2, <3>1, <3>2
  <2>. QED  BY <1>3, <2>2, <2>3
<1>7. s.dependents[id] = {}
  <2>1. id \notin deps
    BY <1>1
  <2>2. \A i \in r.dependents[id] : i \in Members(r) /\ id \in r.dependencies[i]
    BY <1>1 DEF Consistent, SoundReverseEdges, Registries, Graph
  <2>. QED  BY <1>1, <1>2, <1>5, <2>1, <2>2
<1>8. Present(s)
  BY <1>1, <1>3, <1>4, <1>5, <1>6 DEF Present
<1>. QED  BY <1>7, <1>8 DEF LiveDependents, s

LEMMA RemovedPresent ==
  ASSUME NEW r, Consistent(r), Present(r), NEW id \in PluginId, LiveDependents(r, id) = {}
  PROVE  Present(Removed(r, id))
<1> DEFINE s == Removed(r, id)
<1>1. r \in Registries
  BY DEF Consistent
<1>2. /\ s.plugins = [r.plugins EXCEPT ![id] = NoPlugin]
      /\ s.dependencies = [r.dependencies EXCEPT ![id] = {}]
      /\ \A d \in PluginId : d # id => r.dependents[d] \ {id} \subseteq s.dependents[d]
  BY <1>1 DEF Removed, Detached, Registries, Graph
<1>. HIDE DEF s
<1>3. Members(s) = Members(r) \ {id}
  BY <1>1, <1>2 DEF Members, Registries
<1>4. \A i \in Members(s) : s.dependencies[i] = r.dependencies[i]
  BY <1>1, <1>2, <1>3 DEF Members, Registries, Graph
<1>5. \A i \in Members(s) : id \notin r.dependencies[i]
  BY <1>3 DEF Present, LiveDependents
<1>6. SUFFICES Present(s)
  BY DEF s
<1>7. SUFFICES ASSUME NEW i \in Members(s)
               PROVE  /\ s.dependencies[i] \subseteq Members(s)
                      /\ \A d \in s.dependencies[i] : i \in s.dependents[d]
  BY DEF Present
<1>8. /\ r.dependencies[i] \subseteq Members(r)
      /\ \A d \in r.dependencies[i] : i \in r.dependents[d]
  BY <1>3 DEF Present
<1>9. s.dependencies[i] \subseteq Members(s)
  BY <1>3, <1>4, <1>5, <1>8
<1>10. ASSUME NEW d \in s.dependencies[i] PROVE i \in s.dependents[d]
  <2>1. d \in PluginId /\ d # id /\ i # id
    BY <1>3, <1>9 DEF Members
  <2>2. i \in r.dependents[d]
    BY <1>4, <1>8
  <2>. QED  BY <1>2, <2>1, <2>2
<1>. QED  BY <1>9, <1>10

\* The edges of id are taken out and others, or the same, are put in.
LEMMA InstalledPresent ==
  ASSUME NEW r, Consistent(r), Present(r), NEW id \in Members(r),
         NEW deps \in SUBSET Members(r)
  PROVE  Present(Installed(Detached(r, id), id, deps))
<1> DEFINE t == Detached(r, id)
           s == Installed(t, id, deps)
<1>1. /\ r \in Registries /\ id \in PluginId /\ deps \in SUBSET PluginId
  BY DEF Consistent, Members
<1>2. /\ t \in Registries /\ t.plugins = r.plugins
      /\ t.dependencies = [r.dependencies EXCEPT ![id] = {}]
      /\ \A d \in PluginId : r.dependents[d] \ {id} \subseteq t.dependents[d]
  BY <1>1 DEF Detached, Registries, Graph
<1>. HIDE DEF t
<1>3. /\ s.plugins = t.plugins
      /\ s.dependencies = [t.dependencies EXCEPT ![id] = deps]
      /\ \A d \in PluginId :
           s.dependents[d] = IF d \in deps THEN t.dependents[d] \cup {id} ELSE t.dependents[d]
  BY <1>1, <1>2 DEF Installed, Registries, Graph
<1>. HIDE DEF s
<1>4. Members(s) = Members(r)
  BY <1>2, <1>3 DEF Members
<1>5. s.dependencies[id] = deps /\ \A i \in Members(r) : i # id => s.dependencies[i] = r.dependencies[i]
  BY <1>1, <1>2, <1>3 DEF Members, Registries, Graph
<1>6. SUFFICES Present(s)
  BY DEF s, t
<1>7. SUFFICES ASSUME NEW i \in Members(r)
               PROVE  /\ s.dependencies[i] \subseteq Members(r)
                      /\ \A d \in s.dependencies[i] : i \in s.dependents[d]
  BY <1>4 DEF Present
<1>8. CASE i = id
  BY <1>1, <1>3, <1>5, <1>8
<1>9. CASE i # id
  <2>1. /\ r.dependencies[i] \subseteq Members(r)
        /\ \A d \in r.dependencies[i] : i \in r.dependents[d]
    BY DEF Present
  <2>2. ASSUME NEW d \in s.dependencies[i] PROVE i \in s.dependents[d]
    <3>1. d \in PluginId /\ i \in r.dependents[d]
      BY <1>5, <1>9, <2>1, <2>2 DEF Members
    <3>. QED  BY <1>2, <1>3, <1>9, <3>1
  <2>. QED  BY <1>5, <1>9, <2>1, <2>2
<1>. QED  BY <1>8, <1>9

LEMMA InstanceSetPresent ==
  ASSUME NEW r \in Registries, Present(r), NEW id \in Members(r), NEW p \in Plugin
  PROVE  Present([r EXCEPT !.plugins[id] = p])
<1> DEFINE s == [r EXCEPT !.plugins[id] = p]
<1>1. /\ s.plugins = [r.plugins EXCEPT ![id] = p]
      /\ s.dependencies = r.dependencies /\ s.dependents = r.dependents
  BY DEF Registries
<1>. HIDE DEF s
<1>2. Members(s) = Members(r)
  BY <1>1, RegistryAssumption DEF Members, Registries
<1>3. Present(s)
  BY <1>1, <1>2 DEF Present
<1>. QED  BY <1>3 DEF s

LEMMA EdgesReplacedPresent ==
  ASSUME NEW r, Consistent(r), Present(r), NEW id \in Members(r), NEW deps \in SUBSET PluginId
  PROVE  /\ Present(EdgesReplaced(r, id, deps))
         /\ id \in Members(EdgesReplaced(r, id, deps))
<1>1. CASE deps \subseteq Members(r)
  <2> DEFINE put == IF CanReplaceEdges(r, id, deps) THEN deps ELSE r.dependencies[id]
  <2>1. put \in SUBSET Members(r)
    BY <1>1 DEF Present
  <2>. HIDE DEF put
  <2>2. Present(Installed(Detached(r, id), id, put))
    BY <2>1, InstalledPresent
  <2>3. Installed(Detached(r, id), id, put).plugins = r.plugins
    BY DEF Detached, Installed, Consistent, Registries
  <2>4. id \in Members(Installed(Detached(r, id), id, put))
    BY <2>3 DEF Members
  <2>. QED  BY <1>1, <2>2, <2>4 DEF EdgesReplaced, put
<1>2. CASE ~(deps \subseteq Members(r))
  BY <1>2 DEF EdgesReplaced
<1>. QED  BY <1>1, <1>2

LEMMA SwapAttemptedPresent ==
  ASSUME NEW r, Consistent(r), Present(r), NEW id \in PluginId, NEW p \in Plugin,
         NEW deps \in SUBSET PluginId
  PROVE  Present(SwapAttempted(r, id, p, deps))
<1>1. CASE id \in Members(r) /\ NameOf[r.plugins[id]] = NameOf[p]
  <2> DEFINE s == EdgesReplaced(r, id, deps)
  <2>1. Present(s) /\ id \in Members(s)
    BY <1>1, EdgesReplacedPresent
  <2>2. s \in Registries
    BY <1>1, EdgesReplacedConsistent DEF Consistent
  <2>. HIDE DEF s
  <2>3. Present([s EXCEPT !.plugins[id] = p])
    BY <2>1, <2>2, InstanceSetPresent
  <2>. QED  BY <1>1, <2>1, <2>3 DEF SwapAttempted, s
<1>2. CASE ~(id \in Members(r) /\ NameOf[r.plugins[id]] = NameOf[p])
  BY <1>2 DEF SwapAttempted
<1>. QED  BY <1>1, <1>2

-----------------------------------------------------------------------------
(* The registry of any caller. *)

LEMMA InitConsistent == Init => Consistent(registry)
<1> SUFFICES ASSUME Init PROVE Consistent(registry)
  OBVIOUS
<1>1. Members(registry) = {}
  BY DEF Init, EmptyRegistry, Members
<1>. QED  BY <1>1, FS_EmptySet DEF Init, EmptyRegistry, Consistent, Registries, Graph,
          AcyclicGraph, SoundReverseEdges, EdgesOfMembers

LEMMA NextConsistent == Consistent(registry) /\ [Next]_registry => Consistent(registry)'
<1> SUFFICES ASSUME Consistent(registry), [Next]_registry
             PROVE  Consistent(registry')
  BY DEF Consistent, Members, SoundReverseEdges, EdgesOfMembers, AcyclicGraph
<1>1. ASSUME NEW id \in PluginId, NEW p \in Plugin, NEW deps \in SUBSET PluginId,
             Add(id, p, deps)
      PROVE  Consistent(registry')
  BY <1>1, AddedConsistent DEF Add
<1>2. ASSUME NEW id \in PluginId, NEW p \in Plugin, NEW deps \in SUBSET PluginId,
             SwapInstance(id, p, deps)
      PROVE  Consistent(registry')
  BY <1>2, SwapAttemptedConsistent DEF SwapInstance
<1>3. ASSUME NEW id \in PluginId, NEW p \in Plugin, SwapKeepingEdges(id, p)
      PROVE  Consistent(registry')
  BY <1>3, InstanceSetConsistent DEF SwapKeepingEdges
<1>4. ASSUME NEW id \in PluginId, NEW deps \in SUBSET PluginId, MergeEdges(id, deps)
      PROVE  Consistent(registry')
  <2>1. id \in Members(registry)
    BY <1>4 DEF MergeEdges
  <2>2. registry.dependencies[id] \cup deps \in SUBSET PluginId
    BY DEF Consistent, Registries, Graph
  <2>. QED  BY <1>4, <2>1, <2>2, EdgesReplacedConsistent DEF MergeEdges
<1>5. ASSUME NEW id \in PluginId, NEW force \in Forcing, RemovePlugin(id, force)
      PROVE  Consistent(registry')
  BY <1>5, RemovedConsistent DEF RemovePlugin
<1>6. CASE UNCHANGED registry
  BY <1>6
<1>7. CASE Next
  <2>1. PICK id \in PluginId :
          \/ \E p \in Plugin, deps \in SUBSET PluginId :
               Add(id, p, deps) \/ SwapInstance(id, p, deps)
          \/ \E p \in Plugin : SwapKeepingEdges(id, p)
          \/ \E deps \in SUBSET PluginId : MergeEdges(id, deps)
          \/ \E force \in Forcing : RemovePlugin(id, force)
    BY <1>7, Zenon DEF Next
  <2>. QED  BY <2>1, <1>1, <1>2, <1>3, <1>4, <1>5, Zenon
<1>. QED  BY <1>6, <1>7

LEMMA AlwaysConsistent == Spec => []Consistent(registry)
BY InitConsistent, NextConsistent, PTL DEF Spec

\* The dictionaries of the registry stay maps from ids to instances and to
\* sets of ids.
THEOREM RegistryTyped == Spec => []TypeOK
<1>1. Consistent(registry) => TypeOK
  BY DEF Consistent, TypeOK
<1>. QED  BY <1>1, AlwaysConsistent, PTL

\* The dependency graph never has a cycle: _check_circular_dependencies
\* guards every way an edge gets in, and edges that dangle after a forced
\* removal are seen again when the id comes back.
THEOREM RegistryAcyclic == Spec => []Acyclic
<1>1. Consistent(registry) => Acyclic
  BY DEF Consistent, AcyclicGraph, Acyclic
<1>. QED  BY <1>1, AlwaysConsistent, PTL

\* dependents() never reports a plugin that is gone or does not depend on
\* the id any more.
THEOREM RegistryReverseEdges == Spec => []ReverseEdgesSound
<1>1. Consistent(registry) => ReverseEdgesSound
  BY DEF Consistent, SoundReverseEdges, ReverseEdgesSound
<1>. QED  BY <1>1, AlwaysConsistent, PTL

\* Nobody forces a removal.
Unforced == TRUE \notin Forcing

LEMMA AlwaysPresent ==
  ASSUME Unforced
  PROVE  Spec => []Present(registry)
<1>1. Init => Present(registry)
  BY DEF Init, EmptyRegistry, Present, Members
<1>2. ASSUME Consistent(registry), Present(registry), Next PROVE Present(registry')
  <2>1. PICK id \in PluginId :
          \/ \E p \in Plugin, deps \in SUBSET PluginId :
               Add(id, p, deps) \/ SwapInstance(id, p, deps)
          \/ \E p \in Plugin : SwapKeepingEdges(id, p)
          \/ \E deps \in SUBSET PluginId : MergeEdges(id, deps)
          \/ \E force \in Forcing : RemovePlugin(id, force)
    BY <1>2, Zenon DEF Next
  <2>2. ASSUME NEW p \in Plugin, NEW deps \in SUBSET PluginId, Add(id, p, deps)
        PROVE  Present(registry')
    BY <1>2, <2>2, AddedPresent DEF Add
  <2>3. ASSUME NEW p \in Plugin, NEW deps \in SUBSET PluginId, SwapInstance(id, p, deps)
        PROVE  Present(registry')
    BY <1>2, <2>3, SwapAttemptedPresent DEF SwapInstance
  <2>4. ASSUME NEW p \in Plugin, SwapKeepingEdges(id, p)
        PROVE  Present(registry')
    BY <1>2, <2>4, InstanceSetPresent DEF SwapKeepingEdges, Consistent
  <2>5. ASSUME NEW deps \in SUBSET PluginId, MergeEdges(id, deps)
        PROVE  Present(registry')
    <3>1. registry.dependencies[id] \cup deps \in SUBSET PluginId /\ id \in Members(registry)
      BY <1>2, <2>5 DEF MergeEdges, Consistent, Registries, Graph
    <3>. QED  BY <1>2, <2>5, <3>1, EdgesReplacedPresent DEF MergeEdges
  <2>6. ASSUME NEW force \in Forcing, RemovePlugin(id, force) PROVE Present(registry')
    <3>1. LiveDependents(registry, id) = {}
      BY <2>6, RegistryAssumption DEF RemovePlugin, CanRemove, Unforced
    <3>. QED  BY <1>2, <2>6, <3>1, RemovedPresent DEF RemovePlugin
  <2>. QED  BY <2>1, <2>2, <2>3, <2>4, <2>5, <2>6, Zenon
<1>3. Consistent(registry) /\ Present(registry) /\ [Next]_registry => Present(registry)'
  BY <1>2 DEF Present, Members
<1>. QED  BY <1>1, <1>3, AlwaysConsistent, PTL DEF Spec

\* Without forced removals every dependency of a registered plugin is
\* registered and has its reverse edge, whatever is added, merged, removed
\* and swapped.
THEOREM RequirementsStay ==
  ASSUME Unforced
  PROVE  Spec => []DependenciesPresent
<1>1. Present(registry) => DependenciesPresent
  BY DEF Present, DependenciesPresent
<1>. QED  BY <1>1, AlwaysPresent, PTL

\* It takes a forced removal to lose the reverse edge that remove() relies on
\* (the run registry_readd): without one, remove() never takes away what a
\* registered plugin depends on.
THEOREM RemovalRespectsDependents ==
  ASSUME Unforced
  PROVE  Spec => RemoveRespectsDependents
<1>1. Present(registry) /\ [Next]_registry
        => [\A id \in PluginId :
              RemovePlugin(id, FALSE) =>
                \A j \in Members(registry) : id \notin registry.dependencies[j]]_registry
  BY DEF Present, RemovePlugin, CanRemove, LiveDependents
<1>. QED  BY <1>1, AlwaysPresent, PTL DEF Spec, RemoveRespectsDependents


-----------------------------------------------------------------------------
(* The walks over the graph.  They are finite: an operation gives an id no *)
(* edges but those to plugins that are registered, and those are finitely  *)
(* many.  What the walks compute is proved in ArrangementProofs.           *)

FiniteGraph(r) == \A i \in PluginId : IsFiniteSet(r.dependencies[i])

\* s has the edges of r, or other ones of one id, to plugins registered in r.
EdgesPut(r, s) ==
  \/ s.dependencies = r.dependencies
  \/ \E id \in PluginId, deps \in SUBSET Members(r) :
       s.dependencies = [r.dependencies EXCEPT ![id] = deps]

LEMMA OperationsPutEdges ==
  ASSUME NEW r, Consistent(r), NEW id \in PluginId, NEW p \in Plugin,
         NEW deps \in SUBSET PluginId
  PROVE  /\ CanAdd(r, id, p, deps) => EdgesPut(r, Added(r, id, p, deps))
         /\ EdgesPut(r, SwapAttempted(r, id, p, deps))
         /\ EdgesPut(r, Removed(r, id))
         /\ EdgesPut(r, EdgesReplaced(r, id, deps))
         /\ EdgesPut(r, [r EXCEPT !.plugins[id] = p])
<1>1. ASSUME NEW s, s.dependencies = r.dependencies PROVE EdgesPut(r, s)
  BY <1>1 DEF EdgesPut
<1>2. ASSUME NEW s, NEW ends \in SUBSET Members(r),
             s.dependencies = [r.dependencies EXCEPT ![id] = ends]
      PROVE  EdgesPut(r, s)
  BY <1>2 DEF EdgesPut
<1>3. CanAdd(r, id, p, deps) => EdgesPut(r, Added(r, id, p, deps))
  <2>1. Added(r, id, p, deps).dependencies = [r.dependencies EXCEPT ![id] = deps]
    BY DEF Consistent, Added, Installed, Registries, Graph
  <2>2. CanAdd(r, id, p, deps) => deps \in SUBSET Members(r)
    BY DEF CanAdd
  <2>. QED  BY <1>2, <2>1, <2>2
<1>4. CanReplaceEdges(r, id, deps) => deps \in SUBSET Members(r)
  BY DEF CanReplaceEdges
<1>5. EdgesPut(r, SwapAttempted(r, id, p, deps))
  <2> DEFINE s == SwapAttempted(r, id, p, deps)
  <2>1. \/ /\ CanSwap(r, id, p, deps)
           /\ s.dependencies = [r.dependencies EXCEPT ![id] = deps]
        \/ s.dependencies = r.dependencies
    BY SwapEntry
  <2>2. CanSwap(r, id, p, deps) => deps \in SUBSET Members(r)
    BY <1>4 DEF CanSwap
  <2> HIDE DEF s
  <2>3. EdgesPut(r, s)
    BY <1>1, <1>2, <2>1, <2>2
  <2>. QED  BY <2>3 DEF s
<1>6. EdgesPut(r, Removed(r, id))
  <2>1. Removed(r, id).dependencies = [r.dependencies EXCEPT ![id] = {}]
    BY RemovedEntry
  <2>2. {} \in SUBSET Members(r)
    OBVIOUS
  <2>. QED  BY <1>2, <2>1, <2>2
<1>7. EdgesPut(r, EdgesReplaced(r, id, deps))
  <2> DEFINE s == EdgesReplaced(r, id, deps)
  <2>1. s.dependencies = IF CanReplaceEdges(r, id, deps)
                         THEN [r.dependencies EXCEPT ![id] = deps] ELSE r.dependencies
    BY EdgesReplacedEntry
  <2> HIDE DEF s
  <2>2. EdgesPut(r, s)
    BY <1>1, <1>2, <1>4, <2>1
  <2>. QED  BY <2>2 DEF s
<1>8. EdgesPut(r, [r EXCEPT !.plugins[id] = p])
  <2>1. [r EXCEPT !.plugins[id] = p].dependencies = r.dependencies
    BY DEF Consistent, Registries
  <2>. QED  BY <1>1, <2>1
<1>. QED  BY <1>3, <1>5, <1>6, <1>7, <1>8

LEMMA NextPutsEdges ==
  ASSUME Consistent(registry), Next
  PROVE  EdgesPut(registry, registry')
<1> DEFINE Goal == EdgesPut(registry, registry')
<1>1. ASSUME NEW id \in PluginId, NEW p \in Plugin, NEW deps \in SUBSET PluginId,
             Add(id, p, deps) \/ SwapInstance(id, p, deps)
      PROVE  Goal
  <2>1. /\ CanAdd(registry, id, p, deps) => EdgesPut(registry, Added(registry, id, p, deps))
        /\ EdgesPut(registry, SwapAttempted(registry, id, p, deps))
    BY OperationsPutEdges, Zenon
  <2>. QED  BY <1>1, <2>1 DEF Add, SwapInstance
<1>2. ASSUME NEW id \in PluginId, NEW p \in Plugin, SwapKeepingEdges(id, p)
      PROVE  Goal
  <2>1. {} \in SUBSET PluginId
    OBVIOUS
  <2>2. EdgesPut(registry, [registry EXCEPT !.plugins[id] = p])
    BY <2>1, OperationsPutEdges
  <2>. QED  BY <1>2, <2>2 DEF SwapKeepingEdges
<1>3. ASSUME NEW id \in PluginId, NEW deps \in SUBSET PluginId, MergeEdges(id, deps)
      PROVE  Goal
  <2>1. registry.dependencies[id] \cup deps \in SUBSET PluginId
    BY DEF Consistent, Registries, Graph
  <2>2. registry.plugins[id] \in Plugin
    BY <1>3 DEF MergeEdges, Members, Consistent, Registries
  <2>. QED  BY <1>3, <2>1, <2>2, OperationsPutEdges DEF MergeEdges
<1>4. ASSUME NEW id \in PluginId, NEW force \in Forcing, RemovePlugin(id, force)
      PROVE  Goal
  <2>1. registry.plugins[id] \in Plugin
    BY <1>4 DEF RemovePlugin, CanRemove, Members, Consistent, Registries
  <2>2. {} \in SUBSET PluginId
    OBVIOUS
  <2>. QED  BY <1>4, <2>1, <2>2, OperationsPutEdges DEF RemovePlugin
<1> HIDE DEF Goal
<1>5. Goal
  BY <1>1, <1>2, <1>3, <1>4, Zenon DEF Next
<1>. QED  BY <1>5 DEF Goal

LEMMA AlwaysFinite == Spec => []FiniteGraph(registry)
<1>1. Init => FiniteGraph(registry)
  BY FS_EmptySet DEF Init, EmptyRegistry, FiniteGraph
<1>2. ASSUME Consistent(registry), FiniteGraph(registry), Next
      PROVE  FiniteGraph(registry')
  <2>1. registry.dependencies \in Graph /\ IsFiniteSet(Members(registry))
    BY <1>2 DEF Consistent, Registries
  <2>2. ASSUME NEW id \in PluginId, NEW deps \in SUBSET Members(registry),
               registry'.dependencies = [registry.dependencies EXCEPT ![id] = deps]
        PROVE  FiniteGraph(registry')
    <3>1. IsFiniteSet(deps)
      BY <2>1, FS_Subset
    <3>. QED  BY <1>2, <2>1, <2>2, <3>1 DEF FiniteGraph, Graph
  <2>. QED  BY <1>2, <2>2, NextPutsEdges DEF EdgesPut, FiniteGraph
<1>3. FiniteGraph(registry) /\ UNCHANGED registry => FiniteGraph(registry)'
  BY DEF FiniteGraph
<1>4. Consistent(registry) /\ FiniteGraph(registry) /\ [Next]_registry => FiniteGraph(registry)'
  BY <1>2, <1>3 DEF FiniteGraph
<1>. QED  BY <1>1, <1>4, AlwaysConsistent, PTL DEF Spec

LEMMA FiniteEdges ==
  ASSUME NEW r, Consistent(r), FiniteGraph(r)
  PROVE  IsFiniteSet(Edges(r.dependencies))
<1> DEFINE g == r.dependencies
           f == [m \in PluginId |-> {m} \X g[m]]
<1>1. /\ g \in [PluginId -> SUBSET PluginId] /\ IsFiniteSet(Members(r))
      /\ Members(r) \subseteq PluginId
      /\ \A m \in PluginId : g[m] # {} => m \in Members(r)
  BY DEF Consistent, Registries, Graph, EdgesOfMembers, Members
<1>2. ASSUME NEW m \in Members(r) PROVE IsFiniteSet(f[m])
  <2>1. IsFiniteSet({m}) /\ IsFiniteSet(g[m]) /\ m \in PluginId
    BY <1>1, FS_Singleton DEF FiniteGraph
  <2>2. IsFiniteSet({m} \X g[m])
    BY <2>1, FS_Product
  <2>. QED  BY <2>1, <2>2
<1>3. Edges(g) = UNION {f[m] : m \in Members(r)}
  <2>1. DOMAIN g = PluginId
    BY <1>1
  <2>2. \A m \in PluginId : f[m] # {} => m \in Members(r)
    BY <1>1
  <2> HIDE DEF g
  <2>3. Edges(g) = UNION {f[m] : m \in PluginId}
    BY <2>1 DEF Edges
  <2> HIDE DEF f
  <2>. QED  BY <1>1, <2>2, <2>3
<1> HIDE DEF f, g
<1>. QED  BY <1>1, <1>2, <1>3, FiniteUnion DEF g


\* The search tells whether new edges would close a cycle.
LEMMA SearchExact ==
  ASSUME NEW r, Consistent(r), FiniteGraph(r), NEW id \in PluginId,
         NEW deps \in SUBSET PluginId, IsFiniteSet(deps)
  PROVE  CircularDependency(r, id, deps) <=> ClosesCycle(r, id, deps)
<1> DEFINE g == r.dependencies
<1>1. g \in [PluginId -> SUBSET PluginId]
  BY DEF Consistent, Registries, Graph
<1>2. IsFiniteSet(Edges(g))
  BY FiniteEdges
<1>3. Reaches(g, id, deps) <=> \A V \in SUBSET PluginId : ClosedUnder(g, deps, V) => id \in V
  BY <1>1, <1>2, ReachesExactly
<1>. QED  BY <1>3 DEF CircularDependency, ClosesCycle, ClosedUnder

\* load_order() is complete and in order.
LEMMA OrderExact ==
  ASSUME NEW r, Consistent(r), NEW ids \in SUBSET Members(r), NEW s \in LoadOrders(r, ids)
  PROVE  Sorts(s, SetToSeq(ids), r.dependencies)
<1> DEFINE g == r.dependencies
           input == SetToSeq(ids)
<1>1. PICK t \in SetToSeqs(ids) : s = TopoSort(t, g)
  BY DEF LoadOrders
<1>2. ids \in SUBSET PluginId /\ IsFiniteSet(ids)
  BY FS_Subset DEF Consistent, Members
<1>3. t \in Seq(ids) /\ Distinct(t) /\ ToSet(t) = ids /\ Len(t) = Cardinality(ids)
  BY <1>1, <1>2, SetToSeqsListing
<1>4. ToSet(input) = ids /\ Len(input) = Cardinality(ids)
  BY <1>2, SetToSeqListing
<1>5. t \in Seq(PluginId)
  BY <1>2, <1>3
<1>6. Sorts(TopoSort(t, g), t, g)
  BY <1>3, <1>5, AcyclicSorts DEF Consistent, AcyclicGraph
<1> HIDE DEF input, g
<1>7. Sorts(s, input, g)
  BY <1>1, <1>3, <1>4, <1>6 DEF Sorts
<1>. QED  BY <1>7 DEF input, g

\* The two walks of the registry find what they are for, in every registry
\* that add, remove, merge and swap_instance can make: the search refuses
\* new edges exactly when they would close a cycle, and load_order() lists
\* all that it was asked for, dependencies first.
THEOREM WalksAreExact == Spec => []WalksExact
<1>1. ASSUME Consistent(registry), FiniteGraph(registry) PROVE WalksExact
  <2>1. ASSUME NEW id \in PluginId, NEW deps \in SUBSET Members(registry),
               NEW r \in {registry, Detached(registry, id)}
        PROVE  CircularDependency(r, id, deps) <=> ClosesCycle(r, id, deps)
    <3>1. IsFiniteSet(deps) /\ deps \in SUBSET PluginId
      BY <1>1, FS_Subset DEF Consistent, Members
    <3>2. Consistent(Detached(registry, id))
      BY <1>1, DetachedConsistent
    <3>3. FiniteGraph(Detached(registry, id))
      <4>1. /\ registry.dependencies \in Graph
            /\ Detached(registry, id).dependencies = [registry.dependencies EXCEPT ![id] = {}]
        BY <1>1, DetachedType DEF Consistent, Registries
      <4>. QED  BY <1>1, <4>1, FS_EmptySet DEF FiniteGraph, Graph
    <3>. QED  BY <1>1, <3>1, <3>2, <3>3, SearchExact
  <2>2. ASSUME NEW ids \in SUBSET Members(registry), NEW s \in LoadOrders(registry, ids)
        PROVE  Sorts(s, SetToSeq(ids), registry.dependencies)
    BY <1>1, OrderExact
  <2>. QED  BY <2>1, <2>2 DEF WalksExact
<1>. QED  BY <1>1, AlwaysConsistent, AlwaysFinite, PTL

=============================================================================

----------------------------- MODULE Lifecycle ------------------------------
(***************************************************************************)
(* The lifecycle operations of the uxok kernel (src/uxok/core/_core.py     *)
(* with _state_manager.py, plugin/_base.py and the collection cache):      *)
(* register_plugin, load_plugin, unregister_plugin, start and stop, run    *)
(* concurrently by any number of asyncio tasks and re-entered from the     *)
(* callbacks of the plugins they start, stop and swap.                     *)
(*                                                                         *)
(* asyncio is cooperative: the code between two suspension points is one   *)
(* atomic step.  The suspension points of these operations are waiting for *)
(* the lifecycle lock, the callbacks into plugin code (on_start, on_stop,  *)
(* get_state, restore_state, hook handlers) and waiting for cancelled      *)
(* tasks of a drained plugin.  The registry and the capability system      *)
(* suspend nowhere, so the steps below apply their operators directly.     *)
(*                                                                         *)
(* A call is one invocation of an operation.  pc[c] names the point where  *)
(* it is suspended; loc[c] holds the local variables it uses afterwards.   *)
(***************************************************************************)
EXTENDS CapabilityTable

CONSTANTS NoPlugin, NameOf, MaxPlugins,
          Collision,   \* CoreConfig.capability_collision
          Declared,    \* Declared[p]: metadata.dependencies
          Call,        \* invocations of lifecycle operations
          NoCall,
          Kinds,       \* operations that are invoked
          Reentry,     \* callbacks that may invoke operations themselves
          OwnTask,     \* may (TRUE) or may not (FALSE) such an invocation be
                       \* awaited through a task of its own
          Faults,      \* callbacks that may raise
          Cancellable, \* suspension points where a call may be cancelled
          Instances,   \* instances a host hands to register_plugin
          Sources,     \* instances that load_plugin builds, one per call
          HandOnce,    \* TRUE: the host hands over an instance once
          Listing      \* TRUE: somebody uses core.list()

Operations == {"register", "load", "unregister", "force", "stop", "start"}
Callbacks == {"on_start", "hook_registered", "on_stop", "hook_unregistered",
              "get_state", "reload_on_start", "restore_state", "reload_on_stop",
              "stop_hook", "stopped_hook", "init_hook", "run_hook"}

\* Between _active_operations.add and .remove.
Registering == {"on_start", "rollback", "hook_registered"}
Unregistering == {"on_stop", "stopping_tasks", "hook_unregistered", "final_drain"}
Reloading == {"get_state", "reload_on_start", "reload_rollback", "restore_state",
              "reload_on_stop", "reload_drain"}
Guarded == Registering \cup Unregistering \cup Reloading

\* Where a call is suspended outside the guard.
Unguarded == {"await_lock", "stop_hook", "stop_drain", "stopped_hook", "init_hook",
              "run_hook"}

SuspensionPoints == Guarded \cup Unguarded

ASSUME LifecycleAssumption ==
  /\ Collision \in CollisionPolicies
  /\ NoPlugin \notin Plugin
  /\ NoCall \notin Call
  /\ DOMAIN NameOf = Plugin
  /\ MaxPlugins \in Nat
  /\ Declared \in [Plugin -> SUBSET Plugin]
  /\ Kinds \subseteq Operations
  /\ Reentry \subseteq Callbacks
  /\ OwnTask \subseteq BOOLEAN
  /\ Faults \subseteq {"on_start", "get_state", "restore_state"}
  /\ Cancellable \subseteq SuspensionPoints
  /\ Instances \subseteq Plugin
  /\ Sources \subseteq Plugin \ Instances
  /\ HandOnce \in BOOLEAN
  /\ Listing \in BOOLEAN

VARIABLES
  state,        \* CoreState
  clock,        \* the tick clock runs
  lock,         \* _lifecycle_lock: owning task and depth
  active,       \* _active_operations
  registry,     \* see module Registry
  table,        \* capability table, see module CapabilityTable
  handlers,     \* instances whose subscriptions and hooks are installed
  idOf,         \* the id in an instance's metadata
  initialized,  \* instances with _initialized set
  shutdown,     \* instances with _shutdown set
  collection,   \* what core.list() cached, and its dirty flag
  pc, kind, task, parent, loc   \* the calls

core == <<state, clock>>
graph == <<registry, table, handlers>>
instances == <<idOf, initialized, shutdown>>
call == <<kind, task, parent>>
vars == <<core, lock, active, graph, instances, collection, pc, call, loc>>

\* An instance is created with an id of its own, so ids are named after the
\* instance they were made for.
PluginId == Plugin

R == INSTANCE Registry WITH Forcing <- BOOLEAN

CoreStates == {"INITIALIZED", "RUNNING", "STOPPING", "STOPPED", "FAILED"}
Final == {"returned", "raised", "cancelled"}

PCs == SuspensionPoints \cup Final \cup {"idle", "called", "teardown"}

NoLocals == [plug |-> NoPlugin, id |-> NoPlugin, old |-> NoPlugin, force |-> FALSE,
             newDeps |-> {}, oldDeps |-> {}, todo |-> <<>>, ends |-> "returned"]

Free == [owner |-> NoCall, depth |-> 0]

Init ==
  /\ state = "RUNNING" /\ clock = TRUE     \* core.start() has returned
  /\ lock = Free
  /\ active = {}
  /\ registry = R!EmptyRegistry
  /\ table = EmptyTable
  /\ handlers = {}
  /\ idOf = [p \in Plugin |-> p]
  /\ initialized = {} /\ shutdown = {}
  /\ collection = [dirty |-> TRUE, plugins |-> R!EmptyRegistry.plugins]
  /\ pc = [c \in Call |-> "idle"]
  /\ kind = [c \in Call |-> "none"]
  /\ task = [c \in Call |-> c]
  /\ parent = [c \in Call |-> NoCall]
  /\ loc = [c \in Call |-> NoLocals]

-----------------------------------------------------------------------------
(* Calls, the lock and the operation guard. *)

\* c waits in a callback for an operation that the callback invoked.
Blocked(c) == \E d \in Call : parent[d] = c /\ pc[d] \notin Final

Goto(c, point) == pc' = [pc EXCEPT ![c] = point]

\* _ReentrantLock: free, or held by the task of c already.
CanLock(c) == lock.depth = 0 \/ lock.owner = task[c]

Lock(c) == lock' = [owner |-> task[c], depth |-> lock.depth + 1]

\* Mutants: released at any depth; not released.
UnlockOutright(c) == lock' = Free
UnlockForgotten(c) == UNCHANGED lock

Unlock(c) ==
  lock' = IF lock.depth = 1 THEN Free ELSE [lock EXCEPT !.depth = lock.depth - 1]

\* stop() suspends nowhere between one unregistration and the next: nobody
\* else takes a step while a call is there.
MayRun(c) == \A d \in Call : pc[d] = "teardown" => d = c

\* Mutant: the guard is not consulted.
NeverBusy(id) == FALSE

\* Another operation on the id is under way: _active_operations.add fails.
Busy(id) == id \in active

LeaveLock(c, outcome) ==
  IF kind[c] = "stop"
  THEN Goto(c, IF outcome = "cancelled" THEN outcome ELSE "teardown") /\ UNCHANGED lock
  ELSE Goto(c, outcome) /\ Unlock(c)

\* Mutant: stop() releases the lock it never took.
FinishUnlocking(c, outcome) ==
  /\ active' = active \ {loc[c].id}
  /\ Goto(c, IF kind[c] = "stop" THEN "teardown" ELSE outcome)
  /\ Unlock(c)

\* The end of a guarded operation.  stop() runs unregistrations without the
\* lock and goes on with its teardown, whatever their outcome; cancellation
\* ends it too.
Finish(c, outcome) ==
  /\ active' = active \ {loc[c].id}
  /\ LeaveLock(c, outcome)

\* Mutant: an unregistration that fails ends stop() too.
RefuseStop(c, outcome) == Goto(c, outcome) /\ UNCHANGED <<lock, active>>

\* An operation that ends in the step that took the lock.
Refuse(c, outcome) ==
  /\ Goto(c, IF kind[c] = "stop" THEN "teardown" ELSE outcome)
  /\ UNCHANGED <<lock, active>>

\* Mutants: handlers are not drained; an instance is drained by its id; the
\* cache of core.list() is kept.
HandlersKept(id) == handlers
HandlersWithoutSiblings(p) == {q \in handlers : idOf[q] # idOf[p]}
StillCached == collection

\* drain_plugin_resources works by plugin id, _drain_instance by instance:
\* during a swap two instances share an id.
HandlersWithout(id) == {p \in handlers : idOf[p] # id}
HandlersWithoutInstance(p) == handlers \ {p}

Invalidated == [collection EXCEPT !.dirty = TRUE]

Registered == R!Members(registry)

-----------------------------------------------------------------------------
(* Invocation. *)

Handed(p) == \E c \in Call : loc[c].plug = p

Arguments(k) ==
  CASE k = "register" -> {[NoLocals EXCEPT !.plug = p, !.id = idOf[p]] :
                            p \in {q \in Instances : HandOnce => ~Handed(q)}}
    [] k = "load" -> {[NoLocals EXCEPT !.plug = p] : p \in {q \in Sources : ~Handed(q)}}
    [] k \in {"unregister", "force"} ->
         {[NoLocals EXCEPT !.id = i, !.force = (k = "force")] : i \in PluginId}
    [] k = "stop" -> {[NoLocals EXCEPT !.force = TRUE]}
    [] k = "start" -> {NoLocals}

\* load_plugin looks at the state before it compiles the source and again
\* under the lock.
Invoke(c, k, caller, own) ==
  /\ pc[c] = "idle" /\ MayRun(c)
  /\ caller # NoCall => pc[caller] \in Reentry /\ ~Blocked(caller)
  /\ \E args \in Arguments(k) : loc' = [loc EXCEPT ![c] = args]
  /\ Goto(c, CASE k \in {"start", "stop"} -> "called"
               [] k = "load" /\ state # "RUNNING" -> "raised"
               [] OTHER -> "await_lock")
  /\ kind' = [kind EXCEPT ![c] = k]
  /\ parent' = [parent EXCEPT ![c] = caller]
  /\ task' = [task EXCEPT ![c] = IF caller = NoCall \/ own THEN c ELSE task[caller]]
  /\ UNCHANGED <<core, lock, active, graph, instances, collection>>

-----------------------------------------------------------------------------
(* register_plugin, and load_plugin of a name that is not registered. *)

Live(name) == {i \in Registered : NameOf[registry.plugins[i]] = name}

\* c is about to register p under the lock.
AboutToRegister(c, p) ==
  /\ pc[c] = "await_lock" /\ CanLock(c)
  /\ \/ kind[c] = "register"
     \/ kind[c] = "load" /\ Live(NameOf[p]) = {}
  /\ p = loc[c].plug

Admissible(p) ==
  /\ state = "RUNNING"
  /\ idOf[p] \notin Registered
  /\ Admits(Collision, table, p)

NewEdges(p) == Declared[p] \cup RequirementEdges(table, p, idOf)

\* Not RUNNING, not admitted, or another operation on the id is under way.
RegisterRejected(c, p) ==
  /\ AboutToRegister(c, p)
  /\ ~Admissible(p) \/ Busy(idOf[p])
  /\ Refuse(c, "raised")
  /\ UNCHANGED <<core, graph, instances, collection, call, loc>>

\* registry.add raises: name taken, max_plugins, a dependency missing or
\* circular.  The rollback drains by id and leaves the registry alone.
RegisterRefused(c, p) ==
  /\ AboutToRegister(c, p)
  /\ Admissible(p) /\ ~Busy(idOf[p])
  /\ ~R!CanAdd(registry, idOf[p], p, NewEdges(p))
  /\ handlers' = HandlersWithout(idOf[p])
  /\ table' = WithoutPlugin(table, idOf[p], idOf)
  /\ Refuse(c, "raised")
  /\ UNCHANGED <<core, registry, instances, collection, call, loc>>

\* Commit to registry and capabilities, then Plugin.start(): an instance
\* that is _initialized returns at once, whether or not it was stopped; one
\* that is _shutdown only would be refused.
RegisterStart(c, p) ==
  /\ AboutToRegister(c, p)
  /\ Admissible(p) /\ ~Busy(idOf[p])
  /\ R!CanAdd(registry, idOf[p], p, NewEdges(p))
  /\ Lock(c)
  /\ active' = active \cup {idOf[p]}
  /\ registry' = R!Added(registry, idOf[p], p, NewEdges(p))
  /\ loc' = [loc EXCEPT ![c].id = idOf[p]]
  /\ IF p \in shutdown \ initialized
     THEN /\ handlers' = HandlersWithout(idOf[p])
          /\ table' = WithoutPlugin(WithPlugin(Collision, table, p), idOf[p], idOf)
          /\ Goto(c, "rollback")
     ELSE /\ table' = WithPlugin(Collision, table, p)
          /\ IF p \in initialized
             THEN Goto(c, "hook_registered") /\ UNCHANGED handlers
             ELSE Goto(c, "on_start") /\ handlers' = handlers \cup {p}
  /\ UNCHANGED <<core, instances, collection, call>>

\* on_start returns: the plugin is initialized, plugin.registered fires.
OnStartReturns(c) ==
  /\ pc[c] = "on_start"
  /\ initialized' = initialized \cup {loc[c].plug}
  /\ Goto(c, "hook_registered")
  /\ UNCHANGED <<core, lock, active, graph, idOf, shutdown, collection, call, loc>>

\* on_start, or the config validation before it, raises: drain by id.
OnStartRaises(c) ==
  /\ pc[c] = "on_start" /\ "on_start" \in Faults
  /\ handlers' = HandlersWithout(loc[c].id)
  /\ table' = WithoutPlugin(table, loc[c].id, idOf)
  /\ Goto(c, "rollback")
  /\ UNCHANGED <<core, lock, active, registry, instances, collection, call, loc>>

\* The drained tasks are gone: leave the registry and re-raise.
RegisterRolledBack(c) ==
  /\ pc[c] = "rollback"
  /\ registry' = IF loc[c].id \in Registered THEN R!Removed(registry, loc[c].id)
                                              ELSE registry
  /\ Finish(c, "raised")
  /\ UNCHANGED <<core, table, handlers, instances, collection, call, loc>>

RegisterReturns(c) ==
  /\ pc[c] = "hook_registered"
  /\ collection' = Invalidated
  /\ Finish(c, "returned")
  /\ UNCHANGED <<core, graph, instances, call, loc>>

-----------------------------------------------------------------------------
(* unregister_plugin, on its own under the lock or inside stop(). *)

AboutToUnregister(c, id) ==
  \/ /\ pc[c] = "await_lock" /\ CanLock(c)
     /\ kind[c] \in {"unregister", "force"}
     /\ id = loc[c].id
  \/ /\ pc[c] = "teardown" /\ loc[c].todo # <<>>
     /\ id = Head(loc[c].todo)

\* stop() takes the next id from its list in the same step.
Locals(c, id, p) ==
  IF pc[c] = "teardown"
  THEN [loc EXCEPT ![c].id = id, ![c].plug = p, ![c].todo = Tail(loc[c].todo)]
  ELSE [loc EXCEPT ![c].plug = p]

\* Nothing registered under the id (returns False), an operation on it under
\* way, or dependents present.
UnregisterRefused(c, id) ==
  /\ AboutToUnregister(c, id)
  /\ \/ id \notin Registered /\ Refuse(c, "returned")
     \/ /\ id \in Registered
        /\ Busy(id) \/ ~R!CanRemove(registry, id, loc[c].force)
        /\ Refuse(c, "raised")
  /\ loc' = Locals(c, id, NoPlugin)
  /\ UNCHANGED <<core, graph, instances, collection, call>>

\* Plugin.stop() runs on_stop, unless the instance never started or stopped
\* before: then the registry entry goes at once.
UnregisterStart(c, id) ==
  /\ AboutToUnregister(c, id)
  /\ id \in Registered /\ ~Busy(id)
  /\ R!CanRemove(registry, id, loc[c].force)
  /\ IF kind[c] = "stop" THEN UNCHANGED lock ELSE Lock(c)
  /\ active' = active \cup {id}
  /\ loc' = Locals(c, id, registry.plugins[id])
  /\ IF registry.plugins[id] \in initialized \ shutdown
     THEN Goto(c, "on_stop") /\ UNCHANGED registry
     ELSE Goto(c, "hook_unregistered") /\ registry' = R!Removed(registry, id)
  /\ UNCHANGED <<core, table, handlers, instances, collection, call>>

\* on_stop returns or raises, which is swallowed: the plugin's resources are
\* drained by id and its tasks cancelled.
OnStopEnds(c) ==
  /\ pc[c] = "on_stop"
  /\ handlers' = HandlersWithout(loc[c].id)
  /\ table' = WithoutPlugin(table, loc[c].id, idOf)
  /\ Goto(c, "stopping_tasks")
  /\ UNCHANGED <<core, lock, active, registry, instances, collection, call, loc>>

\* _shutdown is set and the registry entry removed; plugin.unregistered fires.
StopEnds(c) ==
  /\ pc[c] = "stopping_tasks"
  /\ shutdown' = shutdown \cup {loc[c].plug}
  /\ R!CanRemove(registry, loc[c].id, loc[c].force)
  /\ registry' = R!Removed(registry, loc[c].id)
  /\ Goto(c, "hook_unregistered")
  /\ UNCHANGED <<core, lock, active, table, handlers, idOf, initialized, collection,
                 call, loc>>

\* The `finally` of an unregistration drains by id once more.  Usually nothing
\* is left to wait for; it waits if tasks were created since the first drain
\* or if that was cut short.
DrainFinally(c, outcome) ==
  /\ handlers' = HandlersWithout(loc[c].id)
  /\ table' = WithoutPlugin(table, loc[c].id, idOf)
  /\ \/ Finish(c, outcome) /\ UNCHANGED loc
     \/ /\ loc' = [loc EXCEPT ![c].ends = outcome]
        /\ Goto(c, "final_drain")
        /\ UNCHANGED <<lock, active>>

\* Dependents appeared meanwhile: registry.remove raises, the exception path
\* removes the entry by force, drains and re-raises.
StopEndsWithDependents(c) ==
  /\ pc[c] = "stopping_tasks"
  /\ shutdown' = shutdown \cup {loc[c].plug}
  /\ ~R!CanRemove(registry, loc[c].id, loc[c].force)
  /\ registry' = IF loc[c].id \in Registered THEN R!Removed(registry, loc[c].id)
                                              ELSE registry
  /\ DrainFinally(c, "raised")
  /\ UNCHANGED <<core, idOf, initialized, collection, call>>

UnregisterReturns(c) ==
  /\ pc[c] = "hook_unregistered"
  /\ collection' = Invalidated
  /\ DrainFinally(c, "returned")
  /\ UNCHANGED <<core, registry, instances, call>>

FinalDrainEnds(c) ==
  /\ pc[c] = "final_drain"
  /\ Finish(c, loc[c].ends)
  /\ UNCHANGED <<core, graph, instances, collection, call, loc>>

-----------------------------------------------------------------------------
(* load_plugin of a registered name: hot reload. *)

AboutToReload(c, p, id) ==
  /\ pc[c] = "await_lock" /\ CanLock(c)
  /\ kind[c] = "load" /\ p = loc[c].plug
  /\ id \in Live(NameOf[p])

SwapEdges(p, id) == NewEdges(p) \ {id}

\* Mutant: the reverse edges stay those of the old version.
SwappedForwardOnly(r, c) ==
  [r EXCEPT !.plugins[loc[c].id] = loc[c].plug, !.dependencies[loc[c].id] = loc[c].newDeps]

Swapped(r, c) == R!SwapAttempted(r, loc[c].id, loc[c].plug, loc[c].newDeps)

\* Swap the old instance back, with the edges it had; a failure is suppressed.
SwappedBack(r, c) == R!SwapAttempted(r, loc[c].id, loc[c].old, loc[c].oldDeps)

ReloadRefused(c, p, id) ==
  /\ AboutToReload(c, p, id)
  /\ idOf' = [idOf EXCEPT ![p] = id]
  /\ \/ state # "RUNNING"
     \/ Busy(id)
     \/ MissingRequirements(table, p) # {}
  /\ Refuse(c, "raised")
  /\ UNCHANGED <<core, graph, initialized, shutdown, collection, call, loc>>

\* The new instance takes over the id; the edges of both versions are fixed
\* here, before get_state runs.
ReloadStart(c, p, id) ==
  /\ AboutToReload(c, p, id)
  /\ state = "RUNNING" /\ ~Busy(id) /\ MissingRequirements(table, p) = {}
  /\ Lock(c)
  /\ active' = active \cup {id}
  /\ idOf' = [idOf EXCEPT ![p] = id]
  /\ loc' = [loc EXCEPT ![c].id = id,
                        ![c].old = registry.plugins[id],
                        ![c].newDeps = SwapEdges(p, id),
                        ![c].oldDeps = registry.dependencies[id]]
  /\ Goto(c, "get_state")
  /\ UNCHANGED <<core, graph, initialized, shutdown, collection, call>>

GetStateRaises(c) ==
  /\ pc[c] = "get_state" /\ "get_state" \in Faults
  /\ Finish(c, "raised")
  /\ UNCHANGED <<core, graph, instances, collection, call, loc>>

\* start() of the new instance installs its handlers beside the old ones.
GetStateReturns(c) ==
  /\ pc[c] = "get_state"
  /\ handlers' = handlers \cup {loc[c].plug}
  /\ Goto(c, "reload_on_start")
  /\ UNCHANGED <<core, lock, active, registry, table, instances, collection, call, loc>>

ReloadOnStartRaises(c) ==
  /\ pc[c] = "reload_on_start" /\ "on_start" \in Faults
  /\ handlers' = HandlersWithoutInstance(loc[c].plug)
  /\ Goto(c, "reload_rollback")
  /\ UNCHANGED <<core, lock, active, registry, table, instances, collection, call, loc>>

\* Registry and capability table are switched in one step.
ReloadOnStartReturns(c) ==
  /\ pc[c] = "reload_on_start"
  /\ R!CanSwap(registry, loc[c].id, loc[c].plug, loc[c].newDeps)
  /\ loc[c].plug \notin Broken
  /\ initialized' = initialized \cup {loc[c].plug}
  /\ registry' = Swapped(registry, c)
  /\ table' = ProviderSwapped(table, loc[c].plug, idOf)
  /\ Goto(c, "restore_state")
  /\ UNCHANGED <<core, lock, active, handlers, idOf, shutdown, collection, call, loc>>

\* swap_instance raises, or swap_provider does after it: the instance is
\* swapped back and the new one drained.
SwapRaises(c) ==
  /\ pc[c] = "reload_on_start"
  /\ LET canSwap == R!CanSwap(registry, loc[c].id, loc[c].plug, loc[c].newDeps)
     IN  /\ ~canSwap \/ loc[c].plug \in Broken
         /\ registry' = IF canSwap THEN SwappedBack(Swapped(registry, c), c)
                                   ELSE Swapped(registry, c)
  /\ initialized' = initialized \cup {loc[c].plug}
  /\ handlers' = HandlersWithoutInstance(loc[c].plug)
  /\ Goto(c, "reload_rollback")
  /\ UNCHANGED <<core, lock, active, table, idOf, shutdown, collection, call, loc>>

\* The rollback swaps the registry back; the capability table keeps the new
\* instance.
RestoreStateRaises(c) ==
  /\ pc[c] = "restore_state" /\ "restore_state" \in Faults
  /\ registry' = SwappedBack(registry, c)
  /\ handlers' = HandlersWithoutInstance(loc[c].plug)
  /\ Goto(c, "reload_rollback")
  /\ UNCHANGED <<core, lock, active, table, instances, collection, call, loc>>

ReloadRolledBack(c) ==
  /\ pc[c] = "reload_rollback"
  /\ Finish(c, "raised")
  /\ UNCHANGED <<core, graph, instances, collection, call, loc>>

\* From here the reload cannot fail: on_stop of the old instance runs.
RestoreStateReturns(c) ==
  /\ pc[c] = "restore_state"
  /\ Goto(c, "reload_on_stop")
  /\ UNCHANGED <<core, lock, active, graph, instances, collection, call, loc>>

OldOnStopEnds(c) ==
  /\ pc[c] = "reload_on_stop"
  /\ shutdown' = shutdown \cup {loc[c].old}
  /\ handlers' = HandlersWithoutInstance(loc[c].old)
  /\ Goto(c, "reload_drain")
  /\ UNCHANGED <<core, lock, active, registry, table, idOf, initialized, collection,
                 call, loc>>

ReloadReturns(c) ==
  /\ pc[c] = "reload_drain"
  /\ Finish(c, "returned")
  /\ UNCHANGED <<core, graph, instances, collection, call, loc>>

-----------------------------------------------------------------------------
(* Core.stop, which takes no lock, and Core.start. *)

StopBegins(c) ==
  /\ pc[c] = "called" /\ kind[c] = "stop"
  /\ CASE state \in {"STOPPED", "FAILED"} -> Goto(c, "returned") /\ UNCHANGED core
       [] state = "INITIALIZED" ->
            Goto(c, "stopped_hook") /\ state' = "STOPPED" /\ UNCHANGED clock
       [] state = "STOPPING" ->
            Goto(c, "stop_drain") /\ clock' = FALSE /\ UNCHANGED state
       [] state = "RUNNING" ->
            Goto(c, "stop_hook") /\ state' = "STOPPING" /\ UNCHANGED clock
  /\ UNCHANGED <<lock, active, graph, instances, collection, call, loc>>

\* The state-changed hook is through: stop the clock, drain the event bus
\* and the scheduler, and wait for their tasks.
StopDrains(c) ==
  /\ pc[c] = "stop_hook"
  /\ clock' = FALSE
  /\ Goto(c, "stop_drain")
  /\ UNCHANGED <<state, lock, active, graph, instances, collection, call, loc>>

\* Reversed load_order(): dependents before the plugins they depend on.
TeardownOrders ==
  {s \in SetToAllKPermutations(Registered) :
     /\ ToSet(s) = Registered
     /\ \A m, n \in DOMAIN s : s[n] \in registry.dependencies[s[m]] => m < n}

StopOrders(c) ==
  /\ pc[c] = "stop_drain"
  /\ \E s \in TeardownOrders : loc' = [loc EXCEPT ![c].todo = s]
  /\ Goto(c, "teardown")
  /\ UNCHANGED <<core, lock, active, graph, instances, collection, call>>

\* finish_stop raises when another stop() has finished meanwhile.
StopFinishes(c) ==
  /\ pc[c] = "teardown" /\ loc[c].todo = <<>>
  /\ table' = EmptyTable
  /\ collection' = Invalidated
  /\ IF state = "STOPPING"
     THEN state' = "STOPPED" /\ Goto(c, "stopped_hook")
     ELSE UNCHANGED state /\ Goto(c, "raised")
  /\ UNCHANGED <<clock, lock, active, registry, handlers, instances, call, loc>>

StopReturns(c) ==
  /\ pc[c] = "stopped_hook"
  /\ Goto(c, "returned")
  /\ UNCHANGED <<core, lock, active, graph, instances, collection, call, loc>>

StartBegins(c) ==
  /\ pc[c] = "called" /\ kind[c] = "start"
  /\ CASE state \in {"STOPPED", "FAILED"} -> Goto(c, "init_hook") /\ state' = "INITIALIZED"
       [] state = "INITIALIZED" -> Goto(c, "run_hook") /\ state' = "RUNNING"
       [] OTHER -> Goto(c, "raised") /\ UNCHANGED state
  /\ UNCHANGED <<clock, lock, active, graph, instances, collection, call, loc>>

StartRuns(c) ==
  /\ pc[c] = "init_hook"
  /\ IF state = "INITIALIZED"
     THEN Goto(c, "run_hook") /\ state' = "RUNNING"
     ELSE Goto(c, "raised") /\ UNCHANGED state
  /\ UNCHANGED <<clock, lock, active, graph, instances, collection, call, loc>>

StartReturns(c) ==
  /\ pc[c] = "run_hook"
  /\ clock' = TRUE
  /\ Goto(c, "returned")
  /\ UNCHANGED <<state, lock, active, graph, instances, collection, call, loc>>

-----------------------------------------------------------------------------
(* Cancellation.  CancelledError is no Exception: no handler of the kernel  *)
(* catches it, and only what is in `finally` and in __aexit__ runs.        *)

CancelledOutside(c) ==
  /\ pc[c] \in Unguarded
  /\ Goto(c, "cancelled")
  /\ UNCHANGED <<core, lock, active, graph, instances, collection, call, loc>>

\* No rollback: what the operation has done so far stays.
CancelledInside(c) ==
  /\ pc[c] \in Registering \cup Reloading
  /\ Finish(c, "cancelled")
  /\ UNCHANGED <<core, graph, instances, collection, call, loc>>

CancelledUnregistering(c) ==
  /\ pc[c] \in Unregistering \ {"final_drain"}
  /\ DrainFinally(c, "cancelled")
  /\ UNCHANGED <<core, registry, instances, collection, call>>

\* In the `finally`: _active_operations.remove is not reached.
CancelledInFinally(c) ==
  /\ pc[c] = "final_drain"
  /\ LeaveLock(c, "cancelled")
  /\ UNCHANGED <<core, active, graph, instances, collection, call, loc>>

\* A call is cancelled from outside, or with the background task that made
\* it.  A callback that waits for a call passes the cancellation on to it and
\* may catch what comes back.
Cancel(c) ==
  /\ pc[c] \in Cancellable /\ ~Blocked(c) /\ MayRun(c)
  /\ \/ CancelledOutside(c) \/ CancelledInside(c)
     \/ CancelledUnregistering(c) \/ CancelledInFinally(c)

-----------------------------------------------------------------------------
(* core.list() rebuilds its cache from the registry when it is dirty. *)

List ==
  /\ Listing /\ collection.dirty
  /\ \A c \in Call : pc[c] # "teardown"
  /\ collection' = [dirty |-> FALSE, plugins |-> registry.plugins]
  /\ UNCHANGED <<core, lock, active, graph, instances, pc, call, loc>>

-----------------------------------------------------------------------------

RegisterStep(c) ==
  \/ \E p \in Plugin : RegisterRejected(c, p) \/ RegisterRefused(c, p) \/ RegisterStart(c, p)
  \/ OnStartReturns(c) \/ OnStartRaises(c) \/ RegisterRolledBack(c) \/ RegisterReturns(c)

UnregisterStep(c) ==
  \/ \E id \in PluginId : UnregisterRefused(c, id) \/ UnregisterStart(c, id)
  \/ OnStopEnds(c) \/ StopEnds(c) \/ StopEndsWithDependents(c) \/ UnregisterReturns(c)
  \/ FinalDrainEnds(c)

ReloadStep(c) ==
  \/ \E p \in Plugin, id \in PluginId : ReloadRefused(c, p, id) \/ ReloadStart(c, p, id)
  \/ GetStateRaises(c) \/ GetStateReturns(c)
  \/ ReloadOnStartRaises(c) \/ ReloadOnStartReturns(c) \/ SwapRaises(c)
  \/ RestoreStateRaises(c) \/ RestoreStateReturns(c) \/ ReloadRolledBack(c)
  \/ OldOnStopEnds(c) \/ ReloadReturns(c)

CoreStep(c) ==
  \/ StopBegins(c) \/ StopDrains(c) \/ StopOrders(c) \/ StopFinishes(c) \/ StopReturns(c)
  \/ StartBegins(c) \/ StartRuns(c) \/ StartReturns(c)

Step(c) ==
  /\ ~Blocked(c) /\ MayRun(c)
  /\ RegisterStep(c) \/ UnregisterStep(c) \/ ReloadStep(c) \/ CoreStep(c)

Next ==
  \/ \E c \in Call :
       \/ Step(c)
       \/ Cancel(c)
       \/ \E k \in Kinds, caller \in {NoCall} \cup Call, own \in OwnTask :
            Invoke(c, k, caller, own)
  \/ List

Spec == Init /\ [][Next]_vars

\* The event loop runs every task that can run, and callbacks come to an end;
\* nobody has to invoke anything.
FairSpec == Spec /\ \A c \in Call : WF_vars(Step(c))

-----------------------------------------------------------------------------
(* Properties. *)

InGuard(c) == pc[c] \in Guarded
InLock(c) == InGuard(c) /\ kind[c] # "stop"
Reload(c) == InGuard(c) /\ kind[c] = "load" /\ loc[c].old # NoPlugin

\* The type invariant.
TypeOK ==
  /\ state \in CoreStates /\ clock \in BOOLEAN
  /\ lock \in [owner : Call \cup {NoCall}, depth : Nat]
  /\ active \subseteq PluginId
  /\ R!TypeOK
  /\ table \in Tables
  /\ handlers \subseteq Plugin
  /\ idOf \in [Plugin -> PluginId]
  /\ initialized \subseteq Plugin /\ shutdown \subseteq Plugin
  /\ collection.dirty \in BOOLEAN
  /\ pc \in [Call -> PCs]
  /\ kind \in [Call -> Operations \cup {"none"}]
  /\ task \in [Call -> Call]
  /\ parent \in [Call -> Call \cup {NoCall}]

\* Two operations on one plugin never overlap, although stop() takes no lock
\* and callbacks re-enter the kernel: _active_operations holds exactly the ids
\* of the operations under way, one operation for each.
GuardExclusive ==
  /\ active = {loc[c].id : c \in {d \in Call : InGuard(d)}}
  /\ \A c, d \in Call : InGuard(c) /\ InGuard(d) /\ loc[c].id = loc[d].id => c = d

\* Lifecycle operations are serialized: of the operations inside the lock at
\* most one is not waiting for an operation its own callback invoked, they
\* all run in the task that owns the lock, and the depth counts them, so the
\* lock is free exactly when nobody is inside.
Serialized ==
  /\ \A c, d \in Call :
       InLock(c) /\ InLock(d) /\ ~Blocked(c) /\ ~Blocked(d) => c = d
  /\ \A c \in Call : InLock(c) => task[c] = lock.owner
  /\ lock.depth = Cardinality({c \in Call : InLock(c)})

\* Every change of the registry that the kernel makes is one that the
\* registry offers: no operation leaves half of an edge behind.
RegistryRefined == R!Spec

\* A plugin that is registered and that no operation works on is in full
\* service: started and not stopped, its handlers installed and its
\* capabilities resolved to this very instance.
RegisteredIsLive ==
  \A id \in Registered \ active :
    LET p == registry.plugins[id]
    IN  /\ p \in (initialized \ shutdown) \cap handlers
        /\ \A c \in Provides[p] : p \in Providers(table, c)

\* Nothing is left of an instance that is not registered: once no operation
\* works on its id, it is in no provider list and has no handlers.
NothingLeaks ==
  \A p \in Plugin :
    p \in handlers \/ (\E c \in Cap : p \in Providers(table, c)) =>
      registry.plugins[idOf[p]] = p \/ idOf[p] \in active

\* During a hot reload "capabilities remain available throughout": what both
\* versions provide resolves, at every suspension point, to an instance of
\* the plugin that has its handlers installed.
ReloadGapless ==
  \A c \in Call : Reload(c) =>
    \A cap \in Provides[loc[c].old] \cap Provides[loc[c].plug] :
      \E q \in Providers(table, cap) : idOf[q] = loc[c].id /\ q \in handlers

\* Which callback of an instance runs, or which has run last.
Starting(p) == \E c \in Call : pc[c] \in {"on_start", "reload_on_start"} /\ loc[c].plug = p

Stopping(p) ==
  \E c \in Call : \/ pc[c] \in {"on_stop", "stopping_tasks"} /\ loc[c].plug = p
                  \/ pc[c] = "reload_on_stop" /\ loc[c].old = p

Phase(p) ==
  CASE Starting(p) -> "starting"
    [] Stopping(p) -> "stopping"
    [] ~Starting(p) /\ ~Stopping(p) ->
         IF p \in shutdown THEN "stopped" ELSE IF p \in initialized THEN "live" ELSE "new"

Life == INSTANCE PluginLife WITH phase <- [p \in Plugin |-> Phase(p)]

\* Whatever is registered, reloaded, rolled back and removed at the same time
\* and from whichever callback, every instance lives as its author may expect:
\* on_start before on_stop, on_stop once and to its end, nothing after it.
LifeRefined == Life!Spec

\* PluginView.status, from the flags of the instance that is viewed.
ViewStatus(p) ==
  IF p \in shutdown THEN "stopped" ELSE IF p \in initialized THEN "active" ELSE "created"

\* While no operation is under way core.list() names exactly the registered
\* plugins, by id: every path that adds or removes one has invalidated the
\* cache after its change.  What it lists is the instance in service, as
\* active, or one that a reload has replaced, as stopped.
ListingComplete ==
  active = {} /\ ~collection.dirty =>
    \A id \in PluginId :
      LET listed == collection.plugins[id]
          current == registry.plugins[id]
      IN  /\ listed = NoPlugin <=> current = NoPlugin
          /\ listed # NoPlugin =>
               ViewStatus(listed) = IF listed = current THEN "active" ELSE "stopped"

\* "fresh on every `core.list()` call because the collection is rebuilt when the
\* registry changes": a view describes the instance that is registered, and
\* what is in service is listed as active.
ListingFresh ==
  active = {} /\ ~collection.dirty =>
    \A id \in Registered : /\ collection.plugins[id] = registry.plugins[id]
                           /\ ViewStatus(collection.plugins[id]) = "active"

\* "A plugin's on_start() and on_stop() handlers can safely use any required
\* capability, because lifecycle order guarantees the capability is up when
\* the handler runs."
CallbacksHaveRequirements ==
  \A c \in Call : pc[c] \in {"on_start", "on_stop"} =>
    MissingRequirements(table, loc[c].plug) = {}

\* While nobody forces a removal, whatever a registered plugin depends on
\* stays registered.
DependenciesPresent == R!DependenciesPresent

\* "After stop() the registry is empty".
StoppedIsEmpty == state = "STOPPED" => Registered = {}

\* STOPPING "ends when every plugin has stopped and every subsystem has
\* released its resources": no ticks in a stopped core.
StoppedIsReleased == state = "STOPPED" => ~clock

\* "Once stopped, the instance cannot be restarted": a stopped instance is
\* not registered, unless an operation on it is still under way.
OneShot == \A id \in Registered \ active : registry.plugins[id] \notin shutdown

\* The calls whose callbacks wait, directly or not, for d to end: the least
\* set with the caller of d and the callers of its members.
Callers(d) ==
  {e \in Call : \A S \in SUBSET Call :
     (/\ parent[d] \in S
      /\ \A x \in S : parent[x] \in S \cup {NoCall}) => e \in S}

\* d waits for the lock that a callback waiting for d holds in another task.
SelfDeadlock ==
  \E d \in Call :
    /\ pc[d] = "await_lock" /\ parent[d] # NoCall
    /\ \E e \in Callers(d) : InLock(e) /\ task[e] # task[d]

\* An invoked operation comes to an end ("the lifecycle lock is reentrant, so
\* a plugin's on_start() calling back into load_plugin/load_plugins during
\* commit does not deadlock"), whatever the others do.  The one exception is
\* a callback that awaits an operation through a task of its own.
Terminates == \A c \in Call : pc[c] # "idle" ~> pc[c] \in Final \/ SelfDeadlock

\* A core that began to stop reaches STOPPED, with the same exception, unless
\* the stop() is cancelled.
StopCompletes ==
  state = "STOPPING" ~> \/ state = "STOPPED" \/ SelfDeadlock
                        \/ \E c \in Call : kind[c] = "stop" /\ pc[c] = "cancelled"

=============================================================================

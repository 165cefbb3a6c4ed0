# A verification of the uxok kernel

uxok is an asyncio microkernel for Python: plugins are registered, started, hot-reloaded and
unregistered while the program runs, find each other through named capabilities, and talk through
events and hooks. This directory holds TLA+ models of the kernel, configurations that check them with
TLC, and theorems proved with TLAPS. Source paths below are relative to the package,
`src/uxok/` of the repository.

## Inventory of the system

| Component | State | Operations | Hard because |
|---|---|---|---|
| Registry (`registry/impl.py`) | `_plugins`, `_dependencies`, `_dependents` | `add`, `remove`, `swap_instance`, `dependents`, `load_order` | forward and reverse edges are edited in different methods; rollback on a cycle; forced removal |
| Capability system (`core/_capability_system.py`) | provider list per capability | admission predicates, `register_capabilities`, `unregister_capabilities_by_plugin`, `swap_provider`, `drain_all`, selection | order of the list decides who answers; ids are shared by two instances during a swap |
| Kernel (`core/_core.py`, `core/_state_manager.py`) | core state, lifecycle lock, `_active_operations` | `start`, `stop`, `register_plugin`, `load_plugin`, `load_plugins`, `try_load_plugins`, `unregister_plugin`, `list`, `get_capability` | every operation suspends in plugin code; `stop` takes no lock; callbacks re-enter; rollback |
| Plugin base (`plugin/_base.py`) | `_initialized`, `_shutdown`, id, handlers, tasks | `start`, `stop`, `emit`, `subscribe`, `register_hook` | two flags, one-shot instances, drain by id or by instance |
| Collection cache (`registry/_plugin_collection_service.py`) | cached collection, dirty flag | `invalidate`, `list` | invalidation by every path that changes the registry |
| Event bus (`events/`) | subscriptions, pattern cache, in-flight tasks | `publish`, `subscribe`, `unsubscribe*`, `mute`, `drain` | cache staleness, handlers that outlive their plugin |
| Hook system (`hooks/`) | hook lists by name, sorted cache | `register`, `execute`, `unregister*` | priority order, changes during execution |
| Tick clock and scheduler (`timing/`) | tick, next boundary, loop task, scheduled entries, launched tasks | `start`, `stop`, tick loop, `schedule_at`, `unschedule_owner`, `cancel_all` | a loop that wakes late, entries that must fire once, hot reload between scheduling and firing |
| Background tasks (`utils/_helpers.py`, `plugin/_base.py`) | tracked tasks | `create_background_task`, done-callback, `cancel_all` | cancellation is a request; tasks resist, create others, fail in their cleanup, drain their own plugin |
| Contract check (`utils/_capability_utils.py`) | none | `signature_incompatibility` | defaults, keyword-only parameters, `*args` and `**kwargs` on both sides |
| Batch planner (`core/_core.py`) | none (a plan) | `_collect_batch_plan`, `_plan_batch_order` | pruning to a loadable subgraph |
| Facets (`core/_core_facet.py`, `core/_capability_facet.py`) | none | forwarding, with a new resolution on every call | held across swaps |

How they interact. The kernel calls registry, capability system, event bus and hook system by
coroutines that contain no suspension point, so each such call is atomic; it calls plugin code
(`on_start`, `on_stop`, `get_state`, `restore_state`, hook handlers), which may suspend for any time and
may call the kernel again. `_lifecycle_lock` serializes register, load and unregister;
`_active_operations` refuses a second operation on the same plugin; `stop()` uses only the latter.

What makes each component correct. Registry: acyclic, sound reverse edges, walks that find what they are
for, no removal under a dependent except by force. Capability system: lists name live versions once, a swap keeps its place, losses
are announced. Kernel: operations exclude each other, a registered plugin is in full service, a
failed operation leaves nothing behind, a reload leaves no gap, every call ends, every stop
completes, callbacks find what the plugin requires, an instance is started and stopped once. Background
tasks: none is lost sight of, failures are reported, drains end. Contract check: refusals are justified. Event bus: the lookup cache is never stale,
events reach exactly their subscribers, draining ends. Tick system: one loop counts, deferred work
fires once, on time, for its own instance, and never after a stop.

## Modules

`Registry` is the registry alone. Each method is a guard (`CanAdd`, `CanRemove`, `CanSwap`: does it raise?)
and a function from registry to registry (`Added`, `Removed`, `SwapAttempted`); the actions combine
them. The dictionaries are total functions with {} or `NoPlugin` for an absent key. `ClosesCycle` gives the
result of the depth-first search as a statement about closed sets. `RegistryProofs` holds its
theorems.

`GraphWalks` extends it with the two walks as the code does them: the depth-first search with its stack
and visited set (`Reaches` of `GraphSearch`), and `load_order`, which is `TopoSort` of `TopologicalOrder` (Kahn's algorithm with
its queue). `WalksExact` compares both with what they are for, in every registry
that can come about. The other modules use `ClosesCycle` and the set of all orders, `TeardownOrders`. Each walk is a
recursive function over the turns of its loop, `Visit` and `TakeTurn`. The code does not count turns: a turn that finds nothing to do
changes nothing, and the functions take as many as there can be: one per node to sort, one per thing that the search can push.

`Arrangement` has what several components do to a list whose entries carry ids: filter out, replace in place,
rebind, sort by a key. `ArrangementProofs` holds the lemmas about it (what each returns, and that it names an id once if
the list did), stated by position, which is why the proofs need no induction over sequences, and the lemmas about the sort and the search.

`CapabilityTable` holds the operators on the capability table: admission, the three collision policies,
the two selection policies, registration, removal by id, swap. An instance's id can be reassigned
(`_assign_id`), so operators take the assignment as a parameter, and the collision policy likewise. Protocol contracts are
abstracted to the constant set `Broken`.

`Contract` is the check behind that set, for one method: a signature is a record of its parameters, `Violation`
the two rules of `signature_incompatibility`. Its reference is an independent definition of what a Python call
does with its arguments (`Accepts`). Rule 3, return annotations, is a comparison of strings and left out.

`CapabilitySystem` drives these operators as the kernel does, one plugin version after the other, with the
events published by the latest step as state. The collision policy is a variable, chosen in `Init`,
so that one run covers the three of them.
`LiveProvider` is what `get_capability` selects, with a tag or without, and what a facet resolves to anew on each call.

`BatchLoad` extends it with `load_plugins` and `try_load_plugins`. `Plan` is the planner, stage by stage, on
sets of positions in the batch: names, rivals, contracts, missing capabilities, the transitive prune
(`Supported`, given as the largest set whose needs its own members meet), the topological order
(`TopoSort`), the core of the cycles and the cut at `max_plugins`. The dict in which rivals are looked
up is filled from frozensets, so its order (`Orders`) is a nondeterministic choice. `BatchBegins` is everything before the
lock is taken; then `CommitLoads`, `CommitSkips` and `CommitFails` deal with one candidate each.
`OthersAct` is what other tasks do between plan and commit, or a callback in the course of it. The core is taken to be
RUNNING throughout. What the registry asks of a plugin is in `Registrable`, its declared dependencies (`Depends`) included, which the planner
does not look at.

`HookSystem` has the handlers by name, the cache of sorted chains and the executions under way. An execution is
at one of its handlers (`fired` have returned); whatever a handler calls, on its own hook too, is an action
between two of its own. `frame` remembers what was registered at the start, which the code does not, so that
`AtomicFrame` can compare. Validation of names, tick contexts and the error event of a failing handler are left out.

`Lifecycle` composes registry, capability table, plugin flags, lock, operation guard, core state, clock
flag and collection cache. A *call* is one invocation of an operation. `pc[c]` names the suspension
point at which it is, and each action is the code from one suspension point to the next:

| `pc` | where the code is suspended |
|---|---|
| `await_lock` | `async with self._lifecycle_lock` |
| `on_start`, `hook_registered`, `rollback` | `_register_plugin_now`: `plugin.start()`, the hook `plugin.registered`, cancelled tasks of the drained plugin |
| `on_stop`, `stopping_tasks`, `hook_unregistered`, `final_drain` | `_unregister_plugin_now`: `plugin.stop()`, its `cancel_all`, the hook `plugin.unregistered`, the drain in the `finally` when there is something to wait for |
| `get_state`, `reload_on_start`, `restore_state`, `reload_on_stop`, `reload_drain`, `reload_rollback` | `_swap_plugin` |
| `stop_hook`, `stop_drain`, `teardown`, `stopped_hook` | `Core.stop` (`teardown` is no suspension point: a call there is the only one that runs) |
| `init_hook`, `run_hook` | `_StateManager.start` |

`loc[c]` holds the local variables a call uses after a suspension: instance, id, old instance, force,
the edges of both versions (read before `get_state`, used after `on_start`), the ids left to tear down.
`parent[c]` is the call whose callback invoked c and waits for it; `task[c]` is the asyncio task,
its caller's unless it runs in a task of its own. `stop()` reuses the unregistration actions without the lock.
A waiting call takes the lock in any order; the code's order is first come first served, which is one
of them.

A call may be cancelled wherever it is suspended (`Cancel`; the constant `Cancellable` names the points). `CancelledError` is no
`Exception`, so none of the rollbacks runs: `CancelledInside` gives back guard and lock and leaves the rest as it is;
an unregistration drains in its `finally` first, where it can be cancelled again, before the guard is given back
(`CancelledInFinally`). `ViewStatus` is the status that a view of `core.list()` shows, from the flags of the instance it refers to.

`PluginLife` is the abstract specification of one instance's life (new, starting, live, stopping, stopped) and
`Lifecycle` implements it under the mapping `Phase`, from suspension points and flags.

`BackgroundTasks` has the asyncio tasks of one plugin with `AsyncTaskManager`, and the drains the kernel runs on it: two in
a row when the plugin is unregistered, one when it is replaced. Cancelling is a request (`pending`) that the task meets when it
runs next; it gives in, or resists (`Stubborn` bounds how many requests it takes), creates tasks, ends in any way. `tracked` is
the manager's set, `drain` the `cancel_all` under way with its snapshot, `OnTaskDone` the callback by which the event loop
tells the manager. Any task may drain its own plugin.

`TickSystem` has the clock, the scheduler of deferred work and the part of `Core.stop` that winds them
down. Wall-clock time (`now`) advances by itself; the loop of the clock suspends only in its sleep, so
everything from one waking to the next sleep is one action, `Wake`, which may come any time after the
boundary. In burst mode the code replays missed boundaries one by one without suspending; `Wake` does
them at once. `loop[l]` is an asyncio task that runs the clock's loop, one for each start that gets as far;
`work[w]` is one call of `emit` or `hook` with `at_tick`, from scheduling to its end. `retired` and
`handling` stand for the plugins: an instance that has been drained, and one with a handler in flight,
which outlives the drain (`_drain_instance` cancels the plugin's own tasks, not handlers).

`EventBus` has subscriptions, the lookup cache, mutes and dispatch. The sets a pattern matches
(`Covers`) are a constant: fnmatch is external. A subscriber's callback is an element of the bag `running`, which is what the event loop
runs; `tasks` is `_dispatch_tasks`, what the bus knows of. A callback may end, raise (which publishes `core.plugin_error`) or be
cancelled by a drain, and is free to call any method in between; when it ends its done-callback takes it out of `tasks`.
A drain is a loop over rounds: it cancels what is in `tasks` and waits for it (`DrainBegins`; `awaited[d]` is what still runs of
its round, `Settled` takes out what has ended), then takes the round out of `tasks` and goes on with what has come since, or returns
(`DrainGoesOn`). Several may be under way (`Drain`), as a second `stop()` joins one under way. Eviction
removes any entry, the code the oldest.

`RegistryProofs`, `LifecycleProofs`, `EventBusProofs`, `HookSystemProofs`, `TickSystemProofs` and `BackgroundTasksProofs` hold the
theorems about the modules they are named after, `CapabilityProofs` those about `CapabilitySystem`, `BatchLoad` and `Contract`.

The operators preceded by a comment *Mutant* are wrong versions of the definition that follows them;
`PROJECT.json` names the property each of them breaks.

## Runs and bounds

| Run | Shows |
|---|---|
| `registry` | three ids, four instances (two share a name), any sequence of methods, forced removals included: type, `Acyclic`, `ReverseEdgesSound`, and `WalksExact` for all plugins, sets of new edges, orders of registration and selections |
| `batch` | batches of up to three sources out of six (rivals, a cycle, a broken contract, a name claimed twice, one that does not compile), both verbs, three policies, one declared dependency, others registering, reloading and removing: `PlannedIsAdmitted`, `LoadsMaximalWithoutRivals`, `ListsFollowRegistry`, `SwapKeepsSelection` |
| `hooks` | two executions, four handlers on two names, all removals, at any time: `ChainsFresh`, `AtomicFrame` |
| `life_serial` | four calls of register, load, unregister and `stop` on three plugins, re-entered from all callbacks, in own tasks too, all faults, cancelled in a callback of each operation and in `stop`: `GuardExclusive`, `Serialized`, and every step is a `Registry` step (`RegistryRefined`) |
| `life_reload` | four calls, no `stop`, `restore_state` reliable: `RegisteredIsLive`, `NothingLeaks`, `ReloadGapless`, and every step moves one instance along its life (`LifeRefined`) |
| `life_requirements` | four calls, no forced removal: `CallbacksHaveRequirements`, `DependenciesPresent`, `ListingComplete` |
| `life_termination` | three calls with `start` and `stop` under fairness: `Terminates`, `StopCompletes` |
| `life_restore_fails` | a raising `restore_state` leaves the capability table with the drained new instance (expected violation) |
| `tick` | both catch-up modes, two versions of a plugin with deferred work, restarts, reloads and stops at any time: `SoleLoop`, `NothingStranded`, `LeavesWhenDue`, `KeepsTime`, `StoppedIsQuiet` |
| `bus` | an exact subscription, a wildcard and a subscriber to errors, with one owner id shared by two instances, and two drains that overlap: `CacheFresh`, the bound of the cache (in `TypeOK`), `DeliversToSubscribers`, `NothingOutlivesDrain`, `DrainCompletes` |
| `tasks` | three background tasks, each of which may create, resist once, fail or take the plugin down: `NothingLost`, `FailuresReported`, `DrainCompletes` |
| `contract` | all pairs of signatures over two names, and a missing method: `RefusalsJustified`, `KeywordCallsBind` |

Bounds. Calls: an overlap of two operations, a third that re-enters one of them and a fourth that set
the scene (registered the provider) is what every scenario in the hazards needs. Plugins: one provider, one
consumer and a later version of one or both give every kind of edge, swap and rollback. Calls are
interchangeable, so safety runs use symmetry over them; `life_termination` does not. Deadlock is not checked
in the lifecycle runs: a finite set of calls ends in a state without steps.

Batches: three sources are a provider, a consumer and a rival or a third plugin that makes the batch overflow; a cycle needs two.
`max_plugins` is 3, below the number of plugins that can be live. One change by others in the course of a batch invalidates any
one assumption of the plan; between batches they are unbounded, so a batch meets every table the four plugins can produce.
Two capabilities tell a version that drops one from a version that adds one. Hooks: two handlers of equal priority and one
of a higher one on the same name, two of them with the same callback, two owned by different versions of one plugin; a second
name; two executions suspend inside each other. The batch run may stop (nothing more to load), the hook run never does.

Background tasks: one that waits in the drain, one that resists and one that is created meanwhile. `Stubborn` is 2, as a drain cancels
twice; with 3 `DrainCompletes` fails (`MCTasksStubborn.cfg`). Contract: two names give every combination of
kinds of one parameter, beside the order of two; a call has up to three arguments by position and may name a keyword that
no signature has. With forced removals the registry run lets edges dangle and ids come back.

Tick system: a period of two units of time tells a wake-up on its boundary from one between boundaries; time up
to 7 allows a stall of two periods and boundaries after it, before and after a restart (two loops); work is
scheduled at most two ticks ahead, so that a stall can jump over it. Event bus: a cache of two entries
for three names evicts, and two publications, with the errors that failing callbacks publish,
make tasks of one round publish into the next. Two drains are what it takes for the
round of one to hold, or to lack, what the other waits for. Neither is checked for deadlock, as time and
publications are bounded.

Fairness. `FairSpec` is weak fairness of every call's step: the event loop runs every ready task, and
callbacks return. A call that waits for the lock is not always enabled, but calls are finite in number,
so from some point on nobody else takes it. Nobody is obliged to invoke anything.
In `EventBus`, tasks end (`TaskEnds` or `TaskFails`) because the event loop runs them and callbacks are
assumed to return, and drains go on when the tasks they gathered have ended: some task, and some drain, of those that can; nobody is
obliged to publish.
In `BackgroundTasks` requests to cancel are delivered, done-callbacks called, timers expire and drains go on; a task that nobody
cancels may run for ever, which is why `FailuresReported` starts from a task that has failed.
`TickSystem` states safety only.

## What is proved

Each theorem holds for every value of the constants that satisfies the ASSUME of its module, and under no other hypothesis, except
where one of `UnbrokenFinally`, `NoForcedRemoval`, `Undisturbed`, `Listable`, `Steady`, `Unforced` and `PlainPatterns` is named.

**Registry** (`RegistryProofs`). For any ids, plugins, names and limit the registry keeps its type, stays
acyclic and keeps its reverse edges sound (`RegistryTyped`, `RegistryAcyclic`, `RegistryReverseEdges`). The cycle check is a
statement about closed sets, and
acyclicity says that no non-empty set of ids depends only into itself, so no induction over paths is needed.
Adding an id whose dependencies cannot reach it keeps the graph acyclic: the members of an offending
set that reach the id would have to be reachable from its dependencies.
Reverse edges alone are not inductive; their proof uses the type invariant and shows it edge by edge.
When nobody forces a removal (`Unforced`), more is kept (`RequirementsStay`): what a registered plugin depends on is registered and
has the reverse edge (`Present`). Hence `RemovalRespectsDependents`, which a forced removal
breaks (`MCRegistryReadd.cfg`).

`WalksAreExact`: in every registry that the operations can make, the search finds a cycle exactly when new edges would close one, and
`load_order` lists all that it was asked for, dependencies first. The lemmas behind it hold for any graph. `TopoSortProperties`: what
is placed or queued are the nodes all of whose dependencies are placed (`Sorting`), so `topo_sort` lists nodes after what they depend on, and
leaves out only those that depend on one left out; in an acyclic graph that is nobody (`AcyclicSorts`). `ReachesExactly`: what is visited or on the stack is in
every closed set around the start, and an empty stack leaves a closed set without the id (`Searching`). That the loop is over by then
is the last conjunct: the stack and the edges ahead never exceed the turns that are left. It needs finitely many
edges, which is an invariant too (`FiniteGraph`): an operation gives an id edges to registered plugins only, and `max_plugins` bounds
those. In place of induction over a predicate, which the provers cannot instantiate, `UpTo` takes the least number outside a set.

**Kernel** (`LifecycleProofs`). For any plugins, tasks and calls, whatever callbacks invoke:

* `GuardExcludes`: `_active_operations` holds exactly the
  ids of the operations under way, and no two of them are on one plugin. Calls may be cancelled anywhere but in the drain of a
  `finally` (`UnbrokenFinally`), where the guard would not be given back. The invariant `Guarding` adds to
  `GuardExclusive` that calls are at the points, and have the locals, that the actions produce. Each action then
  keeps it by one of four lemmas: a call stays outside the guard, enters it when its id is free, stays inside with the
  same id, or leaves and gives the id back.
* `LifecycleTyped`, from `Typed`: which locals a call has depends on the point where it is suspended (`Equipped`), and the registry
  is always in a `Consistent` state of `RegistryProofs`.
* `LocksSerialize`: the calls of one task are a chain, each but the last waiting for the one that its callback made (`Chains`); those
  inside the lock are all of the owning task, and the depth is their number (`Counted`). Every action moves along the chain by one of
  the lemmas `LeavesLockAlone`, `TakesLock`, `LeavesLock`, `DrainsInLock`. Cancellation at any point is included.
* `KernelRefinesRegistry`: every kernel step is a step of `Registry` or leaves it alone, so what `RegistryProofs` shows of the registry holds
  in the kernel. A reload whose swap of capabilities raises swaps the instances and back in one step; `SwapAndBack` shows
  that two swaps in a row come to one.
* `RequirementsStayRegistered`: what a registered plugin depends on stays registered, across every
  suspension, when no removal is forced (`NoForcedRemoval`). The hypothesis names the four ways in which the code forces one:
  the caller, `stop`, an `on_stop` in which others come to depend on the plugin, and the rollback of an `on_start` in which they did; the
  last two are disagreements listed below. The guard of `remove` is evaluated before `on_stop` is awaited and the removal
  follows it, so the invariant `Depending` says that a plugin *bound* to be removed has no dependents; that nobody registers
  one meanwhile is `AloneInLock`, a consequence of `Chains` and `Counted`.
* `RegisteredServe`, `LeavesNothing`, `ReloadsGapless` and `KernelRefinesLife`: what is registered is in full service, what is not
  leaves nothing behind, a reload has no gap, and every instance lives as `PluginLife` says, with plugins that register, load,
  reload and remove each other by force from their callbacks, and callbacks that raise. The hypothesis is `Undisturbed`, each
  conjunct of which keeps out something that does leave an instance half in service: one registered again after it stopped is never
  started; `stop()` clears the capabilities of a plugin that was still starting and that it does not stop; an operation that is
  cancelled does not roll back; a failed `restore_state` leaves the capabilities to the new instance; first_wins may leave
  a provider unlisted; a swap cannot be taken back when what the old version depends on has been removed by force.
  The properties only speak of ids on which no operation is under way, so they are not inductive: the invariant `Residence` says of
  every suspension point what there is of the two instances of an operation (`Alone`, `Beside`): entry, edges, handlers, listings,
  flags. What belongs to an id is one record (`At`), a step of an operation changes that of its own id only (`Confined`), and `Resides`
  turns what the step does to the one record into the whole invariant. That a reload taken back restores the
  edges it found is `SwapRestores`; with force excluded it needs `Depending`.
* `ListsComplete`: what `core.list()` has cached is what is registered. Two removals leave the
  cache as it was: the rollback of an `on_start`, and the exception path of an unregistration that others came to depend on. The hypothesis
  `Listable` adds to `Undisturbed` that no `on_start` fails and no removal is forced, so that by `Depending` the second is never taken.
  A list may be rebuilt while operations are suspended, so the invariant `Listed` says of every suspension point
  what a list that was made there or earlier can show, until the operation makes it stale: a plugin that is being
  announced or withdrawn or not, one that is being replaced as old or new.
* `CallbacksFindRequirements`: a plugin finds the capabilities that it requires in its `on_start` and `on_stop`. The hypothesis `Steady`
  adds to `Undisturbed` that no removal is forced and that the versions of a plugin provide the same: `reload` checks what the new version
  requires, and nobody
  checks those that required the old one. The invariant `Required` says that what is registered requires no more than it and what
  it depends on provide. The edges of a new version are those of the moment the reload began; if one of them has gone since,
  it has gone for good, as an instance is registered once, and the swap raises. That what is depended on is listed as well comes from `Residence` and `Depending`.

**Capabilities, batches, contracts** (`CapabilityProofs`). `ProviderListsFollow` and `SwapsKeepSelection`, for any plugins, policies and
batches and whatever others do in between. The invariant `CapInv` describes the lists from both sides: what is listed is live,
once, and declares the capability (`OnlyLive`); what is live is listed, unless first_wins dropped it (`AllLive`). A swap
rewrites the list in place, so the position that the selection policy picks, among all or among those with a tag, keeps its id.
`KeywordCallsExact`: a keyword call takes exactly the
provider's declared parameters, or any with `**kwargs`, and leaves out exactly the needed ones that the protocol does not declare.
`RefusalsHaveWitness`: the witness of a refusal is that call.
`PlannedAdmission`: while nobody else interferes, neither admission nor the registry refuses a planned candidate, unless one of its
providers was not loaded, or a plugin that it names in `metadata.dependencies` is not registered.
`MaximalLoad`: when each capability has one provider in the batch, whatever `try_load_plugins` leaves out for want of a capability still wants one at
the end. Both hold for any batch, policy, order of the rivals and `max_plugins`; the plugins' `provides` are taken to be finite. `PlanProperties` says what
a plan is when it is made (`Sound`, `Wanting`), from `TopoSortProperties`, `RivalsProperties` and `SupportedProperties`. The invariant
`BatchInv` carries it through the commit: what is still to do keeps its order and its distance to the limit (`InOrder`, `Unobstructed`), a
need of it is met by the core or by one that is ahead of it (`NeedsCovered`), what was loaded has its needs met
(`NeedsMetByLoaded`), and who is left wanting wants what nobody in the plan provides (`WantingStill`).

**Hooks** (`HookSystemProofs`). `CachedChainsFresh` and `FramesAreAtomic`: a cached chain is `Sorted` of the handlers that are registered, and
the chain of an execution is `Sorted` of those that were when it began. `SortedProperties` derives order, stability and completeness from that.

**Events** (`EventBusProofs`). `CacheStaysFresh` for any names, patterns, subscriptions and cache size, under
`PlainPatterns`: a pattern without * or ? matches its own name only. `MCEventBusBrackets.cfg` shows that the assumption is
needed. The invariant adds `FlagKnown`: `_has_wildcard_patterns` is never off while a wildcard is
subscribed to; without it a removal could spare entries that a wildcard filled. `DeliveriesExact` follows, under the same assumption: what a
lookup answers is who is subscribed, cached or not. `EventBusTyped` bounds the cache by its size. `DrainLeavesNothing`: when a drain returns,
no callback is running, whichever round or other drain it belonged to. The drain only sees that `tasks` is empty, so the proof needs the
invariant `Tracked`: every callback that runs is in `tasks`, as often as it runs. It is kept because a round is over when
all of it has ended, and what has ended has taken itself out of `tasks` (`RoundLeavesTasks`), so that `difference_update` takes away nothing
that runs.

**Ticks** (`TickSystemProofs`), for any period, plugins, work and number of starts, with time and horizon
unbounded (the two bounds are arbitrary numbers). `TickSystemTyped`, `NoWorkIsStranded` and `WorkLeavesWhenDue` from
`Processing`: the scheduler has looked at every tick that the clock has counted, and at no other. `OneLoopDrives` and `QuietAfterStop`
from `Winding`: the clock runs
exactly while the core is up, a loop that is alive is the one `stop` cancels, and each stage of `stop`
leaves nothing of what it waited for. `ClockKeepsTime` from `Keeping`: in burst mode the next boundary is on the grid
that the start laid, in skip mode it is never before it.

**Background tasks** (`BackgroundTasksProofs`), for any number of tasks and any stubbornness: `TasksTypeCorrect` and `NoTaskIsLost`. `NothingLost`
is inductive together with the type invariant and two facts about the drain: it discards its snapshot only when all of it has
ended, and it is the only one, which the operation guard provides.

Only model-checked: liveness (`Terminates`, `StopCompletes`, `DrainCompletes`, `FailuresReported`), which is out of reach of the prover.
Every other property of a passing run is a theorem, some under the hypotheses named above.

## Disagreements that no run shows

Found with the same models, under configurations that are kept beside the project but are no runs of it; the
property named is violated. The properties are defined, with the text they quote, in the modules.

Kernel:

* `stop()` over a registration in flight finds the plugin under way, logs that and goes on: the plugin stays
  registered in a stopped core (`MCLifeStopRace.cfg`, `StoppedIsEmpty`), although `_core.py:1535` says "After stop() the registry is empty".
* `stop()` over a suspended `start()` leaves the clock running (`MCLifeStopStart.cfg`, `StoppedIsReleased`). Likewise a `stop()` that
  joined another one and was suspended over the next `start()` stops the clock of a running core.
* Two overlapping `stop()` calls: the one that ends last attempts STOPPED -> STOPPED and raises, although
  `_state_manager.py:152` says a re-entrant stop may proceed.
* A stopped instance can be registered again and never starts (`MCLifeRestart.cfg`, `OneShot`), although
  `docs/explanation/plugin-architecture.md:51` says "Once stopped, the instance cannot be restarted". When it is then replaced by a hot
  reload, its `on_stop` runs a second time (`LifeRefined` with `HandOnce = FALSE`).
* A reload does not invalidate the collection cache: `core.list()` goes on listing the replaced instance, with its fields and
  the status "stopped", while the new version is in service (`MCLifeListing.cfg`, `ListingFresh`), although
  `_plugin_view.py:67` says views are "fresh on every `core.list()` call".
* `DependenciesPresent` with `on_stop` among the re-entering callbacks: `unregister_plugin` raises
  "dependents present" and the plugin is gone (`_core.py:1233`). The same with a failing
  `on_start` that had registered a dependent.
* `CallbacksHaveRequirements` with `stop` among the operations: the provider is torn down while the
  consumer's `on_start` runs.
* `RegisteredIsLive` with a reload whose old version loses a dependency meanwhile and which fails after
  the swap: the swap back raises, which is suppressed, and the drained new instance stays.
* Cancellation: a registration that is cancelled in `on_start` leaves the plugin registered and not started, an
  unregistration leaves it registered with its handlers drained, a reload leaves the handlers of both versions
  (`RegisteredIsLive`, `NothingLeaks`, `ListingComplete` and `LifeRefined` fail with `Cancellable` as in `life_serial`). A `stop()` that is
  cancelled leaves the core in STOPPING until somebody calls it again. A call that is cancelled in the drain of its `finally`
  leaves the plugin guarded for good: every later operation on it is refused (`GuardExclusive` with `final_drain` cancellable).

Registry, capabilities, batches:

* `remove(force=False)` takes away a plugin with registered dependents after a forced removal and a
  re-registration of its id (`MCRegistryReadd.cfg`, `RemoveRespectsDependents`).
* A hot reload that drops a capability publishes no `core.capability.revoked` (`MCCapRevoked.cfg`, `LossIsAnnounced`).
* `swap_provider` applies no collision policy: under `error_on_conflict` a reload adds a second provider.
* The structural contract check admits providers that fail calls the protocol allows (`MCContractGuarantee.cfg`, `ProviderSatisfies`),
  although `docs/explanation/capability-system.md:29` says "A provider that passes validation is structurally guaranteed to satisfy the
  protocol": one that drops a default, changes the order or the kind of a parameter, or takes a keyword only into `*args`.
* A provider on a cycle makes the planner of a batch leave out what another provider in the batch would have carried
  (`MCBatchMaximal.cfg`, `LoadsMaximalSubgraph`), although `_core.py:1050` says it commits "the maximal loadable subgraph".
* The planner of a batch does not look at `metadata.dependencies`: a planned candidate is refused by the registry when a plugin that it
  declares is not registered, or comes later in the batch (`MCBatchDeclared.cfg`, `OnlyOnStartFails`), although `_core.py:966` says
  "The only fault that can surface here is a candidate's own `on_start()` raising (or a TOCTOU loss re-detected under the lock)".
* Under `error_on_conflict`, with A providing x and y, B providing x and C providing y, A and one of B and C are skipped
  and the other one is loaded; which one depends on the hash seed (`MCBatchRivals.cfg`, `NoWinnerChosen`), although
  `protocols/core.py:79` says "every in-batch claimant skips (no winner is chosen)".

Events, ticks, tasks:

* A pattern in which only brackets are wild, such as `a[12]`, matches by fnmatch while another pattern is wild, but counts as exact
  when the lookup cache is invalidated: a removed callback is still called (`MCEventBusBrackets.cfg`, `CacheFresh`).
* `stop()` drains the event bus before it unregisters the plugins; a callback of an event that `on_stop` or the unregistration publishes
  is waited for by nobody, although `docs/explanation/event-system.md:19` says "no orphaned callbacks outlive the core". Seen in
  the code, not in a run: the bus is not composed with the teardown.
* In skip mode the clock re-anchors its boundary at the moment it wakes, so every stall loses a fraction of a
  period for good (`MCTickDrift.cfg`, `NoDrift`), although `timing/_clock.py` says "no drift accumulation".
* A handler that is suspended while its plugin is drained schedules deferred work, which fires for an unregistered
  plugin (`MCTickZombie.cfg`, `NoZombieWork`), although `docs/explanation/tick-system.md:148` says "no zombie work fires after unregistration".
* A background task that is created while the last drain waits, or after it, survives the plugin (`MCTasksSurvive.cfg`,
  `NothingSurvives`), although `docs/how-to/how-to-subscribe-to-events.md:130` says background tasks are "tracked and cancelled automatically when the plugin stops".
* A background task that resists two cancellations keeps `cancel_all` waiting for ever, its timeout notwithstanding
  (`MCTasksStubborn.cfg`, `DrainCompletes`); one that unregisters its own plugin waits for itself, with the lifecycle lock held.

## Not modelled, and the plan

Limits of the present modules. `TickSystem`: slip is reported, not accounted; the crash guard of the loop and a
`start()` that races `stop()` inside the clock are not there (`Lifecycle` has that race, with the clock as a flag).
`EventBus`: the stamp of tick and slip on an event; publishing without a running event loop; a drain that is itself cancelled, by
its caller or as one of the callbacks it drains. `Lifecycle`: a `stop()` that ends in FAILED because something besides an
unregistration raised (`_core.py:1570`); background tasks of plugins are suspension points (`BackgroundTasks` has what happens in one), and a
callback that catches a cancellation just goes on. `BackgroundTasks`: one plugin; `cleanup_task`, which the package never calls.
`BatchLoad`: a registration inside the commit is one step; an id belongs to a name (in the code, to an instance); the registry's check
for cycles, which can refuse an id that is not registered only along an edge that a forced removal left (`Registry` has it). `Contract`: annotations, and methods that cannot be introspected.

Next: the teardown of `stop` composed with the event bus; then
`RegisteredServe` with cancellations at the points where nothing is yet registered.

Left out for good: attenuation by facets, view filters, decorators, configuration and name validation, which keep
no state; logging; introspection of capabilities.

------------------------------ MODULE EventBus ------------------------------
(***************************************************************************)
(* The event bus of uxok: subscriptions with their lookup cache            *)
(* (src/uxok/events/_subscriptions.py) and concurrent fire-and-forget      *)
(* dispatch (_bus.py).                                                     *)
(*                                                                         *)
(* subscribe, unsubscribe* and publish suspend nowhere.  A subscriber's    *)
(* callback runs in a task of its own, for any time, and may call the bus. *)
(* drain, which Core.stop awaits, cancels tasks and waits for them, round  *)
(* after round; as stop() may be called again while it is under way, so    *)
(* may drain.                                                              *)
(***************************************************************************)
EXTENDS Naturals, FiniteSets, Bags

CONSTANTS Name,        \* names of events that are published
          ErrorName,   \* core.plugin_error
          Pattern,     \* patterns subscribed to, names among them
          Covers,      \* Covers[p]: the names that match p by fnmatch
          Wild,        \* patterns that contain * or ?
          Sub,         \* subscriptions
          PatternOf,   \* PatternOf[s]: the pattern of s
          PluginOf,    \* PluginOf[s]: the id of the subscribing plugin
          OwnerOf,     \* OwnerOf[s]: the subscribing instance
          MaxCache,    \* _max_cache_size
          Drain,       \* calls of drain, each of which may be made again
          Budget       \* bound: publish calls, errors not counted

ASSUME BusAssumption ==
  /\ ErrorName \in Name
  /\ Covers \in [Pattern -> SUBSET Name]
  /\ Wild \subseteq Pattern
  /\ PatternOf \in [Sub -> Pattern]
  /\ DOMAIN PluginOf = Sub /\ DOMAIN OwnerOf = Sub
  /\ MaxCache \in Nat \ {0}
  /\ Budget \in Nat

VARIABLES
  live,       \* subscriptions in force
  wildcards,  \* _has_wildcard_patterns
  cache,      \* _exact_match_cache; {}, which is never cached, is a miss
  muted,      \* _mute_patterns
  running,    \* the tasks that have not ended: a bag of <<subscription, name>>
  tasks,      \* _dispatch_tasks, the tasks that the bus knows of
  draining,   \* the drains under way
  awaited,    \* for each drain: what is running of those it has cancelled
  budget

subscriptions == <<live, wildcards, muted>>
dispatch == <<running, tasks, draining, awaited>>
vars == <<subscriptions, cache, dispatch, budget>>

Init ==
  /\ live = {} /\ wildcards = FALSE
  /\ cache = [n \in Name |-> {}]
  /\ muted = {}
  /\ running = EmptyBag /\ tasks = EmptyBag
  /\ draining = {} /\ awaited = [d \in Drain |-> EmptyBag]
  /\ budget = Budget

-----------------------------------------------------------------------------
(* Lookup. *)

\* Patterns are matched against the name only while some pattern is wild.
Scan(n) ==
  {s \in live : PatternOf[s] = n \/ (wildcards /\ n \in Covers[PatternOf[s]])}

Resolved(n) == IF cache[n] # {} THEN cache[n] ELSE Scan(n)

CachedNames(c) == {n \in Name : c[n] # {}}

\* Mutant: eviction comes one entry late.
EvictedLate(c) ==
  IF Cardinality(CachedNames(c)) > MaxCache
  THEN {[c EXCEPT ![m] = {}] : m \in CachedNames(c)} ELSE {c}

\* A full cache evicts one entry: the oldest, here any.
Evicted(c) ==
  IF Cardinality(CachedNames(c)) >= MaxCache
  THEN {[c EXCEPT ![m] = {}] : m \in CachedNames(c)} ELSE {c}

\* get_subscribers stores what it finds, unless that is nothing.
Looked(n) ==
  IF cache[n] # {} \/ Scan(n) = {} THEN {cache}
  ELSE {[c EXCEPT ![n] = Scan(n)] : c \in Evicted(cache)}

Muted(n) == \E p \in muted : n \in Covers[p]

HasSubscribers(n) ==
  /\ ~Muted(n)
  /\ cache' \in Looked(n)
  /\ UNCHANGED <<subscriptions, dispatch, budget>>

-----------------------------------------------------------------------------
(* Subscriptions. *)

\* _invalidate_cache, for several patterns: everything when one is wild.
Invalidated(c, patterns, wild) ==
  [n \in Name |-> IF n \in patterns \/ (wild /\ patterns \cap Wild # {}) THEN {} ELSE c[n]]

AnyWild(S) == \E s \in S : PatternOf[s] \in Wild

Subscribe(s) ==
  /\ s \notin live
  /\ live' = live \cup {s}
  /\ wildcards' = (wildcards \/ AnyWild({s}))
  /\ cache' = Invalidated(cache, {PatternOf[s]}, wildcards')
  /\ UNCHANGED <<muted, dispatch, budget>>

\* Mutant: the flag is recomputed before it decides on the cache.
UnsubscribedFlagFirst(S) ==
  /\ live' = live \ S
  /\ wildcards' = IF AnyWild(S) THEN AnyWild(live \ S) ELSE wildcards
  /\ cache' = Invalidated(cache, {PatternOf[s] : s \in S}, wildcards')

\* unsubscribe, for each of S: the cache is invalidated while the flag still
\* reflects the removed pattern.
Unsubscribed(S) ==
  /\ live' = live \ S
  /\ cache' = Invalidated(cache, {PatternOf[s] : s \in S}, wildcards)
  /\ wildcards' = IF AnyWild(S) THEN AnyWild(live \ S) ELSE wildcards

Unsubscribe(s) ==
  /\ s \in live
  /\ Unsubscribed({s})
  /\ UNCHANGED <<muted, dispatch, budget>>

UnsubscribePlugin(id) ==
  /\ Unsubscribed({s \in live : PluginOf[s] = id})
  /\ UNCHANGED <<muted, dispatch, budget>>

UnsubscribeOwner(o) ==
  /\ Unsubscribed({s \in live : OwnerOf[s] = o})
  /\ UNCHANGED <<muted, dispatch, budget>>

Mute(p) ==
  /\ muted' = muted \cup {p}
  /\ UNCHANGED <<live, wildcards, cache, dispatch, budget>>

Unmute(p) ==
  /\ muted' = muted \ {p}
  /\ UNCHANGED <<live, wildcards, cache, dispatch, budget>>

-----------------------------------------------------------------------------
(* Dispatch. *)

\* A task for each subscriber, beside those that run; the bus takes note of it.
Dispatch(n, runs, known) ==
  LET added == SetToBag({<<s, n>> : s \in Resolved(n)})
  IN  /\ cache' \in Looked(n)
      /\ running' = runs (+) added
      /\ tasks' = known (+) added

\* Mutant: publish does not consult the mutes.
PublishedThoughMuted(n, runs, known) == Dispatch(n, runs, known)

\* publish.
PublishedTo(n, runs, known) ==
  \/ Muted(n) /\ running' = runs /\ tasks' = known /\ UNCHANGED cache
  \/ ~Muted(n) /\ Dispatch(n, runs, known)

Publish(n) ==
  /\ budget > 0 /\ budget' = budget - 1
  /\ PublishedTo(n, running, tasks)
  /\ UNCHANGED <<subscriptions, draining, awaited>>

One(k) == SetToBag({k})

\* A task k has ended.  Which drains waited for it is open where tasks are alike.
Settled(k) ==
  /\ BagIn(k, running)
  /\ \E D \in SUBSET {d \in Drain : BagIn(k, awaited[d])} :
       awaited' = [d \in Drain |-> IF d \in D THEN awaited[d] (-) One(k) ELSE awaited[d]]
  /\ \A d \in Drain : awaited'[d] \sqsubseteq running (-) One(k)

\* The callback returns, or gives in to being cancelled.  The done-callback
\* that discards the task runs before any drain that waits for it goes on.
TaskEnds(k) ==
  /\ Settled(k)
  /\ running' = running (-) One(k) /\ tasks' = tasks (-) One(k)
  /\ UNCHANGED <<subscriptions, cache, draining, budget>>

\* Mutant: a failure is published whatever the event was.
AlwaysReported(n) == TRUE

\* Failures in handling core.plugin_error are only logged.
Reported(n) == n # ErrorName

\* The callback raises, perhaps on being cancelled: core.plugin_error.
TaskFails(k) ==
  /\ Reported(k[2])
  /\ Settled(k)
  /\ PublishedTo(ErrorName, running (-) One(k), tasks (-) One(k))
  /\ UNCHANGED <<subscriptions, draining, budget>>

\* drain finds tasks, cancels them and waits.
DrainBegins(d) ==
  /\ d \notin draining /\ tasks # EmptyBag
  /\ draining' = draining \cup {d}
  /\ awaited' = [awaited EXCEPT ![d] = tasks]
  /\ UNCHANGED <<subscriptions, cache, running, tasks, budget>>

\* Mutant: drain does not wait for what it has cancelled.
NotAwaited(d) == TRUE

\* gather returns when all tasks of the round have ended.
RoundIsOver(d) == awaited[d] = EmptyBag

\* Mutant: the set is cleared of whatever it holds by then.
Cleared(round) == EmptyBag

\* difference_update takes away the round, no matter who was added since.
Remaining(round) == tasks (-) round

\* The tasks of this round have ended: go on with those that came since.
DrainGoesOn(d) ==
  /\ d \in draining /\ RoundIsOver(d)
  /\ tasks' = Remaining(awaited[d])
  /\ draining' = IF tasks' = EmptyBag THEN draining \ {d} ELSE draining
  /\ awaited' = [awaited EXCEPT ![d] = tasks']
  /\ UNCHANGED <<subscriptions, cache, running, budget>>

-----------------------------------------------------------------------------

Task == Sub \X Name

Dispatching == \/ \E k \in Task : TaskEnds(k) \/ TaskFails(k)
               \/ \E d \in Drain : DrainBegins(d) \/ DrainGoesOn(d)

Next ==
  \/ \E n \in Name : HasSubscribers(n) \/ Publish(n)
  \/ \E s \in Sub : \/ Subscribe(s) \/ Unsubscribe(s)
                    \/ UnsubscribePlugin(PluginOf[s]) \/ UnsubscribeOwner(OwnerOf[s])
  \/ \E p \in Pattern : Mute(p) \/ Unmute(p)
  \/ Dispatching

Spec == Init /\ [][Next]_vars

\* The event loop does not leave all tasks that can run waiting for ever, nor
\* all drains that can go on.
FairSpec ==
  /\ Spec
  /\ WF_vars(\E k \in Task : TaskEnds(k) \/ TaskFails(k))
  /\ WF_vars(\E d \in Drain : DrainGoesOn(d))

-----------------------------------------------------------------------------
(* Properties. *)

\* Who is subscribed to n, by the rules of fnmatch.
Subscribers(n) == {s \in live : PatternOf[s] = n \/ n \in Covers[PatternOf[s]]}

\* The type invariant; the cache stays within _max_cache_size.
TypeOK ==
  /\ live \subseteq Sub /\ wildcards \in BOOLEAN
  /\ cache \in [Name -> SUBSET Sub] /\ Cardinality(CachedNames(cache)) <= MaxCache
  /\ muted \subseteq Pattern
  /\ \A b \in {running, tasks} \cup {awaited[d] : d \in Drain} :
       IsABag(b) /\ BagToSet(b) \subseteq Task
  /\ DOMAIN awaited = Drain /\ draining \subseteq Drain /\ budget \in Nat

\* What the cache holds is what a lookup would find, whatever sequence of
\* subscriptions and removals went before: an entry that outlived its
\* subscription would call a plugin that has been stopped, and an early one
\* would hide a later subscriber.
CacheFresh == \A n \in Name : cache[n] # {} => cache[n] = Subscribers(n)

\* How many tasks for s and n run.
Running(s, n) == IF BagIn(<<s, n>>, running) THEN running[<<s, n>>] ELSE 0

\* An event that is dispatched at all goes to everyone who is subscribed at
\* that moment, to nobody else, and only when it is not muted; and what is
\* published and not muted is dispatched.
Dispatched(n) == {s \in Sub : Running(s, n)' > Running(s, n)}

DeliversToSubscribers ==
  [][\A n \in Name :
       /\ Dispatched(n) # {} => ~Muted(n) /\ Dispatched(n) = Subscribers(n)
       /\ Publish(n) /\ ~Muted(n) => Dispatched(n) = Subscribers(n)]_vars

\* When a drain returns no callback is running, whatever the bus knows of:
\* neither one that the drain has cancelled, nor one that such a callback's
\* publication started meanwhile, nor one that another drain waits for ("no
\* orphaned subscriber callbacks outlive the core").
NothingOutlivesDrain ==
  [][\A d \in draining : d \notin draining' => running' = EmptyBag]_vars

\* All drains return, although callbacks that are cancelled may fail and every
\* failure is published to subscribers that may fail.
DrainCompletes == draining # {} ~> draining = {}

=============================================================================

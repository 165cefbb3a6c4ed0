--------------------------- MODULE EventBusProofs ---------------------------
(***************************************************************************)
(* The event bus, for any names, patterns, subscriptions, tasks and cache  *)
(* size.  The lookup cache is never stale and never too large, and events  *)
(* are dispatched to exactly those who are subscribed, provided every      *)
(* pattern that is not taken for a wildcard matches its own name only.     *)
(* MCEventBusBrackets shows what happens otherwise.                        *)
(***************************************************************************)
EXTENDS EventBus, FiniteSetTheorems, TLAPS

PlainPatterns == \A p \in Pattern \ Wild : Covers[p] \subseteq {p}

Shaped == /\ live \subseteq Sub /\ wildcards \in BOOLEAN
          /\ cache \in [Name -> SUBSET Sub]

\* _has_wildcard_patterns is never off while a wildcard is subscribed to.
FlagKnown == AnyWild(live) => wildcards

\* Without FlagKnown a removal could spare entries that a wildcard filled.
Caching == Shaped /\ FlagKnown /\ CacheFresh

-----------------------------------------------------------------------------

\* A lookup that misses the cache, and matches names only while it believes
\* no pattern is wild, finds everyone who is subscribed.
LEMMA ScanFindsAll ==
  ASSUME PlainPatterns, Shaped, FlagKnown, NEW n \in Name
  PROVE  Scan(n) = Subscribers(n)
<1>1. ASSUME NEW s \in live, n \in Covers[PatternOf[s]], ~wildcards
      PROVE  PatternOf[s] = n
  <2>1. PatternOf[s] \in Pattern \ Wild
    BY <1>1, BusAssumption DEF Shaped, FlagKnown, AnyWild
  <2>. QED BY <2>1, <1>1 DEF PlainPatterns
<1>2. CASE wildcards
  BY <1>2 DEF Scan, Subscribers
<1>3. CASE ~wildcards
  BY <1>1, <1>3 DEF Scan, Subscribers
<1>. QED BY <1>2, <1>3

\* What a lookup leaves in the cache, an eviction included, is fresh.
LEMMA LookupKeepsFresh ==
  ASSUME PlainPatterns, Caching, NEW n \in Name, cache' \in Looked(n), UNCHANGED subscriptions
  PROVE  Caching'
<1>. USE DEF Caching
<1>1. ASSUME NEW c \in Evicted(cache)
      PROVE  /\ c \in [Name -> SUBSET Sub]
             /\ \A m \in Name : c[m] = cache[m] \/ c[m] = {}
  BY <1>1 DEF Evicted, CachedNames, Shaped
<1>2. Scan(n) = Subscribers(n) /\ Scan(n) \subseteq Sub
  <2>1. Scan(n) = Subscribers(n)
    BY ScanFindsAll
  <2>. QED BY <2>1 DEF Shaped, Subscribers
<1>3. /\ cache' \in [Name -> SUBSET Sub]
      /\ \A m \in Name : cache'[m] \in {{}, cache[m], Subscribers(m)}
  <2>1. CASE cache' = cache
    BY <2>1 DEF Shaped
  <2>2. CASE cache' \in {[c EXCEPT ![n] = Scan(n)] : c \in Evicted(cache)}
    <3>1. PICK c \in Evicted(cache) : cache' = [c EXCEPT ![n] = Scan(n)]
      BY <2>2
    <3>. QED BY <3>1, <1>1, <1>2
  <2>. QED BY <2>1, <2>2 DEF Looked
<1>4. \A m \in Name : Subscribers(m)' = Subscribers(m)
  BY DEF subscriptions, Subscribers
<1>5. Shaped' /\ FlagKnown'
  BY <1>3 DEF subscriptions, Shaped, FlagKnown, AnyWild
<1>6. CacheFresh'
  BY <1>3, <1>4 DEF CacheFresh
<1>. QED BY <1>5, <1>6

\* A pattern that comes or goes, and is not a wildcard, concerns one name.
LEMMA PlainConcernsItsName ==
  ASSUME PlainPatterns, NEW s \in Sub, PatternOf[s] \notin Wild,
         NEW n \in Name, n # PatternOf[s]
  PROVE  n \notin Covers[PatternOf[s]]
BY BusAssumption DEF PlainPatterns

LEMMA SubscribeKeepsFresh ==
  ASSUME PlainPatterns, Caching, NEW s \in Sub, Subscribe(s)
  PROVE  Caching'
<1>. USE DEF Caching, Subscribe
<1>1. Shaped' /\ FlagKnown'
  BY DEF Shaped, FlagKnown, AnyWild, Invalidated
<1>2. ASSUME NEW n \in Name, cache'[n] # {}
      PROVE  cache'[n] = Subscribers(n)'
  <2>1. /\ cache'[n] = cache[n] /\ n # PatternOf[s]
        /\ PatternOf[s] \notin Wild
    BY <1>2 DEF Invalidated, AnyWild, Shaped
  <2>2. n \notin Covers[PatternOf[s]]
    BY <2>1, PlainConcernsItsName
  <2>3. Subscribers(n)' = Subscribers(n)
    BY <2>1, <2>2 DEF Subscribers
  <2>. QED BY <2>1, <2>3, <1>2 DEF CacheFresh
<1>. QED BY <1>1, <1>2 DEF CacheFresh

LEMMA UnsubscribeKeepsFresh ==
  ASSUME PlainPatterns, Caching, NEW S \in SUBSET live, Unsubscribed(S)
  PROVE  Caching'
<1>. USE DEF Caching, Unsubscribed
<1>1. Shaped'
  BY DEF Shaped, AnyWild, Invalidated
<1>2. FlagKnown'
  BY DEF Shaped, FlagKnown, AnyWild
<1>3. ASSUME NEW n \in Name, cache'[n] # {}
      PROVE  cache'[n] = Subscribers(n)'
  <2>1. /\ cache'[n] = cache[n] /\ ~AnyWild(S)
        /\ \A s \in S : n # PatternOf[s]
    BY <1>3 DEF Invalidated, AnyWild, FlagKnown
  <2>2. \A s \in S : n \notin Covers[PatternOf[s]]
    BY <2>1, PlainConcernsItsName DEF AnyWild, Shaped
  <2>3. Subscribers(n)' = Subscribers(n)
    BY <2>1, <2>2 DEF Subscribers
  <2>. QED BY <2>1, <2>3, <1>3 DEF CacheFresh
<1>. QED BY <1>1, <1>2, <1>3 DEF CacheFresh

\* Publishing changes the cache by a lookup, if at all.
LEMMA PublishingKeepsFresh ==
  ASSUME PlainPatterns, Caching, NEW n \in Name, NEW runs, NEW known,
         PublishedTo(n, runs, known), UNCHANGED subscriptions
  PROVE  Caching'
<1>1. CASE UNCHANGED cache
  BY <1>1 DEF subscriptions, Caching, Shaped, FlagKnown, AnyWild, CacheFresh, Subscribers
<1>2. CASE cache' \in Looked(n)
  BY <1>2, LookupKeepsFresh
<1>. QED BY <1>1, <1>2 DEF PublishedTo, Dispatch

-----------------------------------------------------------------------------

LEMMA CachingInvariant ==
  ASSUME PlainPatterns
  PROVE  (Init => Caching) /\ (Caching /\ [Next]_vars => Caching')
<1>1. Init => Caching
  BY DEF Init, Caching, Shaped, FlagKnown, AnyWild, CacheFresh
<1>2. ASSUME Caching, UNCHANGED <<subscriptions, cache>>
      PROVE  Caching'
  BY <1>2 DEF subscriptions, Caching, Shaped, FlagKnown, AnyWild, CacheFresh, Subscribers
<1>3. ASSUME Caching, Next
      PROVE  Caching'
  <2>1. ASSUME NEW n \in Name, HasSubscribers(n)
        PROVE  Caching'
    BY <2>1, <1>3, LookupKeepsFresh DEF HasSubscribers
  <2>2. ASSUME NEW n \in Name, Publish(n)
        PROVE  Caching'
    BY <2>2, <1>3, PublishingKeepsFresh DEF Publish
  <2>3. ASSUME NEW s \in Sub, Subscribe(s)
        PROVE  Caching'
    BY <2>3, <1>3, SubscribeKeepsFresh
  <2>4. ASSUME NEW S \in SUBSET live, Unsubscribed(S)
        PROVE  Caching'
    BY <2>4, <1>3, UnsubscribeKeepsFresh
  <2>5. ASSUME NEW s \in Sub, Unsubscribe(s)
        PROVE  Caching'
    BY <2>4, <2>5 DEF Unsubscribe
  <2>6. ASSUME NEW id, UnsubscribePlugin(id)
        PROVE  Caching'
    BY <2>4, <2>6 DEF UnsubscribePlugin
  <2>7. ASSUME NEW o, UnsubscribeOwner(o)
        PROVE  Caching'
    BY <2>4, <2>7 DEF UnsubscribeOwner
  <2>8. ASSUME NEW p \in Pattern, Mute(p) \/ Unmute(p)
        PROVE  Caching'
    BY <2>8, <1>3 DEF Mute, Unmute, Caching, Shaped, FlagKnown, AnyWild, CacheFresh, Subscribers
  <2>9. ASSUME NEW k \in Task, TaskEnds(k)
        PROVE  Caching'
    BY <2>9, <1>2, <1>3 DEF TaskEnds
  <2>10. ASSUME NEW k \in Task, TaskFails(k)
         PROVE  Caching'
    BY <2>10, <1>3, PublishingKeepsFresh, BusAssumption DEF TaskFails
  <2>11. ASSUME NEW d \in Drain, DrainBegins(d) \/ DrainGoesOn(d)
         PROVE  Caching'
    BY <2>11, <1>2, <1>3 DEF DrainBegins, DrainGoesOn
  <2>. QED
    BY <2>1, <2>2, <2>3, <2>5, <2>6, <2>7, <2>8, <2>9, <2>10, <2>11, <1>3 DEF Next, Dispatching
<1>. QED BY <1>1, <1>2, <1>3 DEF vars

\* Whatever subscribes, unsubscribes, looks up and publishes, in any order
\* and for any cache size, a cached entry is what a fresh lookup would find:
\* get_subscribers never answers with a subscription that is gone and never
\* misses one that is there.
THEOREM CacheStaysFresh ==
  ASSUME PlainPatterns
  PROVE  Spec => []CacheFresh
<1>1. Caching => CacheFresh
  BY DEF Caching
<1>. QED BY <1>1, CachingInvariant, PTL DEF Spec

-----------------------------------------------------------------------------
(* Tasks in flight are bags: how many there are of each, and their types. *)

Count(b, k) == IF BagIn(k, b) THEN b[k] ELSE 0

TaskBag(b) == IsABag(b) /\ BagToSet(b) \subseteq Task

LEMMA TasksAdded ==
  ASSUME NEW b, TaskBag(b), NEW S \in SUBSET Task
  PROVE  /\ TaskBag(b (+) SetToBag(S))
         /\ \A k : Count(b (+) SetToBag(S), k) = Count(b, k) + (IF k \in S THEN 1 ELSE 0)
<1>1. IsABag(b (+) SetToBag(S))
  BY DEF TaskBag, IsABag, (+), SetToBag
<1>2. BagToSet(b (+) SetToBag(S)) = BagToSet(b) \cup S
  BY DEF (+), SetToBag, BagToSet
<1>3. ASSUME NEW k
      PROVE  Count(b (+) SetToBag(S), k) = Count(b, k) + (IF k \in S THEN 1 ELSE 0)
  BY DEF TaskBag, IsABag, Count, BagIn, (+), SetToBag, BagToSet
<1>. QED  BY <1>1, <1>2, <1>3 DEF TaskBag

LEMMA TaskTaken ==
  ASSUME NEW b, TaskBag(b), NEW k, BagIn(k, b)
  PROVE  /\ TaskBag(b (-) One(k))
         /\ \A j : j # k => Count(b (-) One(k), j) = Count(b, j)
         /\ Count(b (-) One(k), k) < Count(b, k)
<1>1. IsABag(b (-) One(k)) /\ BagToSet(b (-) One(k)) \subseteq BagToSet(b)
  BY DEF TaskBag, IsABag, BagIn, One, (-), SetToBag, BagToSet
<1>2. ASSUME NEW j, j # k
      PROVE  Count(b (-) One(k), j) = Count(b, j)
  BY <1>2 DEF TaskBag, IsABag, Count, BagIn, One, (-), SetToBag, BagToSet
<1>3. Count(b (-) One(k), k) < Count(b, k)
  BY DEF TaskBag, IsABag, Count, BagIn, One, (-), SetToBag, BagToSet
<1>. QED  BY <1>1, <1>2, <1>3 DEF TaskBag

LEMMA TasksLessOne ==
  ASSUME NEW b, TaskBag(b), NEW k
  PROVE  TaskBag(b (-) One(k))
BY DEF TaskBag, IsABag, One, (-), SetToBag, BagToSet

LEMMA NoTasks == TaskBag(EmptyBag) /\ \A k : Count(EmptyBag, k) = 0
BY DEF TaskBag, IsABag, EmptyBag, SetToBag, BagToSet, Count, BagIn

\* difference_update finds nothing to take away when a round is over: its
\* tasks have discarded themselves.
LEMMA RoundLeavesTasks ==
  ASSUME NEW d, RoundIsOver(d), TaskBag(tasks)
  PROVE  Remaining(awaited[d]) = tasks
<1>1. tasks (-) EmptyBag = tasks
  BY DEF TaskBag, IsABag, EmptyBag, (-), SetToBag
<1>. QED  BY <1>1 DEF RoundIsOver, Remaining

-----------------------------------------------------------------------------
(* Types, and the size of the cache. *)

Sized == /\ IsFiniteSet(CachedNames(cache))
         /\ Cardinality(CachedNames(cache)) <= MaxCache

\* Names that leave the cache make room, whoever takes them out.
LEMMA FewerSized ==
  ASSUME Sized, CachedNames(cache') \subseteq CachedNames(cache)
  PROVE  Sized'
<1>1. /\ IsFiniteSet(CachedNames(cache'))
      /\ Cardinality(CachedNames(cache')) <= Cardinality(CachedNames(cache))
      /\ Cardinality(CachedNames(cache')) \in Nat /\ Cardinality(CachedNames(cache)) \in Nat
  BY FS_Subset, FS_CardinalityType DEF Sized
<1>. QED  BY <1>1, BusAssumption DEF Sized

LEMMA LookupTyped ==
  ASSUME Shaped, Sized, NEW n \in Name, cache' \in Looked(n)
  PROVE  cache' \in [Name -> SUBSET Sub] /\ Sized'
<1>1. CASE cache' = cache
  BY <1>1 DEF Shaped, Sized
<1>2. CASE cache' \in {[c EXCEPT ![n] = Scan(n)] : c \in Evicted(cache)}
  <2>1. PICK c \in Evicted(cache) : cache' = [c EXCEPT ![n] = Scan(n)]
    BY <1>2
  <2>2. c \in [Name -> SUBSET Sub] /\ Scan(n) \in SUBSET Sub
    BY DEF Evicted, CachedNames, Shaped, Scan
  <2>3. Cardinality(CachedNames(cache)) \in Nat
    BY FS_CardinalityType DEF Sized
  <2>4. IsFiniteSet(CachedNames(c)) /\ Cardinality(CachedNames(c)) <= MaxCache - 1
        /\ Cardinality(CachedNames(c)) \in Nat
    <3>1. CASE Cardinality(CachedNames(cache)) >= MaxCache
      <4>1. PICK m \in CachedNames(cache) : c = [cache EXCEPT ![m] = {}]
        BY <3>1 DEF Evicted
      <4>2. CachedNames(c) = CachedNames(cache) \ {m}
        BY <4>1 DEF CachedNames, Shaped
      <4>3. /\ IsFiniteSet(CachedNames(cache) \ {m})
            /\ Cardinality(CachedNames(cache) \ {m}) = Cardinality(CachedNames(cache)) - 1
            /\ Cardinality(CachedNames(cache) \ {m}) \in Nat
        BY <4>1, FS_RemoveElement, FS_CardinalityType DEF Sized
      <4>. QED  BY <2>3, <4>2, <4>3, BusAssumption DEF Sized
    <3>2. CASE ~(Cardinality(CachedNames(cache)) >= MaxCache)
      <4>1. c = cache
        BY <3>2 DEF Evicted
      <4>. QED  BY <2>3, <3>2, <4>1, BusAssumption DEF Sized
    <3>. QED  BY <3>1, <3>2
  <2>5. CachedNames(cache') \subseteq CachedNames(c) \cup {n}
    BY <2>1, <2>2 DEF CachedNames
  <2>6. /\ IsFiniteSet(CachedNames(c) \cup {n})
        /\ Cardinality(CachedNames(c) \cup {n}) <= MaxCache
        /\ Cardinality(CachedNames(c) \cup {n}) \in Nat
    <3>1. /\ IsFiniteSet(CachedNames(c) \cup {n})
          /\ \/ Cardinality(CachedNames(c) \cup {n}) = Cardinality(CachedNames(c))
             \/ Cardinality(CachedNames(c) \cup {n}) = Cardinality(CachedNames(c)) + 1
      BY <2>4, FS_AddElement
    <3>. QED  BY <2>4, <3>1, BusAssumption
  <2>7. /\ IsFiniteSet(CachedNames(cache'))
        /\ Cardinality(CachedNames(cache')) <= Cardinality(CachedNames(c) \cup {n})
        /\ Cardinality(CachedNames(cache')) \in Nat
    BY <2>5, <2>6, FS_Subset, FS_CardinalityType
  <2>. QED  BY <2>1, <2>2, <2>6, <2>7, BusAssumption DEF Sized
<1>. QED  BY <1>1, <1>2 DEF Looked

Typed == TypeOK /\ Sized

LEMMA PublishTyped ==
  ASSUME Typed, NEW n \in Name, NEW runs, NEW known, TaskBag(runs), TaskBag(known),
         PublishedTo(n, runs, known)
  PROVE  /\ TaskBag(running') /\ TaskBag(tasks')
         /\ cache' \in [Name -> SUBSET Sub] /\ Sized'
<1>1. CASE Muted(n)
  BY <1>1 DEF PublishedTo, Typed, TypeOK, Sized
<1>2. CASE ~Muted(n)
  <2>1. Shaped /\ Sized /\ cache' \in Looked(n)
    BY <1>2 DEF PublishedTo, Dispatch, Typed, TypeOK, Shaped
  <2>2. {<<s, n>> : s \in Resolved(n)} \in SUBSET Task
    BY DEF Typed, TypeOK, Resolved, Scan, Task
  <2>3. TaskBag(running') /\ TaskBag(tasks')
    BY <1>2, <2>2, TasksAdded DEF PublishedTo, Dispatch
  <2>. QED  BY <2>1, <2>3, LookupTyped
<1>. QED  BY <1>1, <1>2

LEMMA InvalidatedTyped ==
  ASSUME Typed, NEW patterns, NEW wild, cache' = Invalidated(cache, patterns, wild)
  PROVE  cache' \in [Name -> SUBSET Sub] /\ Sized'
<1>1. cache' \in [Name -> SUBSET Sub]
  BY DEF Typed, TypeOK, Invalidated
<1>2. CachedNames(cache') \subseteq CachedNames(cache)
  BY DEF CachedNames, Invalidated
<1>. QED  BY <1>1, <1>2, FewerSized DEF Typed

LEMMA TypedInvariant == (Init => Typed) /\ (Typed /\ [Next]_vars => Typed')
<1>1. Init => Typed
  <2> SUFFICES ASSUME Init PROVE Typed
    OBVIOUS
  <2>1. CachedNames(cache) = {}
    BY DEF Init, CachedNames
  <2>2. Cardinality(CachedNames(cache)) = 0 /\ IsFiniteSet(CachedNames(cache))
    BY <2>1, FS_EmptySet
  <2>3. Sized
    BY <2>2, BusAssumption DEF Sized
  <2>. QED  BY <2>3, NoTasks, BusAssumption DEF Init, Typed, TypeOK, Sized, TaskBag
<1>2. ASSUME Typed, [Next]_vars
      PROVE  Typed'
  <2>. USE <1>2
  <2>1. /\ TaskBag(running) /\ TaskBag(tasks) /\ \A d \in Drain : TaskBag(awaited[d])
        /\ DOMAIN awaited = Drain /\ TypeOK /\ Sized
    BY DEF Typed, TypeOK, TaskBag
  <2>2. ASSUME cache' \in [Name -> SUBSET Sub], Sized', TaskBag(running'), TaskBag(tasks'),
               \A d \in Drain : TaskBag(awaited'[d]), DOMAIN awaited' = Drain,
               live' \subseteq Sub, wildcards' \in BOOLEAN, muted' \subseteq Pattern,
               draining' \subseteq Drain, budget' \in Nat
        PROVE  Typed'
    BY <2>2 DEF Typed, TypeOK, Sized, TaskBag
  <2>3. UNCHANGED cache => cache' \in [Name -> SUBSET Sub] /\ Sized'
    BY <2>1 DEF TypeOK, Sized
  <2>4. ASSUME NEW n \in Name, HasSubscribers(n)  PROVE Typed'
    <3>1. cache' \in [Name -> SUBSET Sub] /\ Sized'
      BY <2>1, <2>4, LookupTyped DEF HasSubscribers, TypeOK, Shaped
    <3>. QED  BY <2>1, <2>2, <2>4, <3>1 DEF HasSubscribers, TypeOK, subscriptions, dispatch
  <2>5. ASSUME NEW n \in Name, Publish(n)  PROVE Typed'
    <3>1. /\ TaskBag(running') /\ TaskBag(tasks')
          /\ cache' \in [Name -> SUBSET Sub] /\ Sized'
      BY <2>1, <2>5, PublishTyped DEF Publish
    <3>. QED  BY <2>1, <2>2, <2>5, <3>1 DEF Publish, TypeOK, subscriptions
  <2>6. ASSUME NEW s \in Sub, Subscribe(s)  PROVE Typed'
    <3>1. cache' \in [Name -> SUBSET Sub] /\ Sized'
      BY <2>6, InvalidatedTyped DEF Subscribe
    <3>. QED  BY <2>1, <2>2, <2>6, <3>1 DEF Subscribe, TypeOK, AnyWild, dispatch
  <2>7. ASSUME NEW S, Unsubscribed(S), UNCHANGED <<muted, dispatch, budget>>  PROVE Typed'
    <3>1. cache' \in [Name -> SUBSET Sub] /\ Sized'
      BY <2>7, InvalidatedTyped DEF Unsubscribed
    <3>. QED  BY <2>1, <2>2, <2>7, <3>1 DEF Unsubscribed, TypeOK, AnyWild, dispatch
  <2>8. ASSUME NEW s \in Sub,
               Unsubscribe(s) \/ UnsubscribePlugin(PluginOf[s]) \/ UnsubscribeOwner(OwnerOf[s])
        PROVE  Typed'
    BY <2>7, <2>8 DEF Unsubscribe, UnsubscribePlugin, UnsubscribeOwner
  <2>9. ASSUME NEW p \in Pattern, Mute(p) \/ Unmute(p)  PROVE Typed'
    BY <2>1, <2>2, <2>3, <2>9 DEF Mute, Unmute, TypeOK, dispatch
  <2>10. ASSUME NEW k, Settled(k)
         PROVE  /\ TaskBag(running (-) One(k)) /\ TaskBag(tasks (-) One(k))
                /\ \A d \in Drain : TaskBag(awaited'[d])
                /\ DOMAIN awaited' = Drain
    <3>1. PICK D \in SUBSET Drain :
            awaited' = [d \in Drain |-> IF d \in D THEN awaited[d] (-) One(k) ELSE awaited[d]]
      BY <2>10 DEF Settled
    <3>. QED  BY <2>1, <3>1, TasksLessOne
  <2>11. ASSUME NEW k \in Task, TaskEnds(k)  PROVE Typed'
    <3>1. /\ TaskBag(running') /\ TaskBag(tasks')
          /\ \A d \in Drain : TaskBag(awaited'[d])
          /\ DOMAIN awaited' = Drain
      BY <2>10, <2>11 DEF TaskEnds
    <3>. QED  BY <2>1, <2>2, <2>3, <2>11, <3>1 DEF TaskEnds, TypeOK, subscriptions
  <2>12. ASSUME NEW k \in Task, TaskFails(k)  PROVE Typed'
    <3>1. /\ TaskBag(running (-) One(k)) /\ TaskBag(tasks (-) One(k))
          /\ \A d \in Drain : TaskBag(awaited'[d])
          /\ DOMAIN awaited' = Drain
      BY <2>10, <2>12 DEF TaskFails
    <3>2. /\ TaskBag(running') /\ TaskBag(tasks')
          /\ cache' \in [Name -> SUBSET Sub] /\ Sized'
      BY <2>12, <3>1, PublishTyped, BusAssumption DEF TaskFails
    <3>. QED  BY <2>1, <2>2, <2>12, <3>1, <3>2 DEF TaskFails, TypeOK, subscriptions
  <2>13. ASSUME NEW d \in Drain, DrainBegins(d)  PROVE Typed'
    <3>1. DOMAIN awaited' = Drain /\ \A e \in Drain : TaskBag(awaited'[e])
      BY <2>1, <2>13 DEF DrainBegins
    <3>. QED  BY <2>1, <2>2, <2>3, <2>13, <3>1 DEF DrainBegins, TypeOK, subscriptions
  <2>14. ASSUME NEW d \in Drain, DrainGoesOn(d)  PROVE Typed'
    <3>1. tasks' = tasks
      BY <2>1, <2>14, RoundLeavesTasks DEF DrainGoesOn
    <3>2. DOMAIN awaited' = Drain /\ \A e \in Drain : TaskBag(awaited'[e])
      BY <2>1, <2>14, <3>1 DEF DrainGoesOn
    <3>. QED  BY <2>1, <2>2, <2>3, <2>14, <3>1, <3>2 DEF DrainGoesOn, TypeOK, subscriptions
  <2>15. CASE UNCHANGED vars
    BY <2>1, <2>2, <2>3, <2>15 DEF vars, TypeOK, subscriptions, dispatch
  <2>. QED
    BY <2>4, <2>5, <2>6, <2>8, <2>9, <2>11, <2>12, <2>13, <2>14, <2>15 DEF Next, Dispatching
<1>. QED  BY <1>1, <1>2

\* The lookup cache never grows beyond _max_cache_size, and the state of the
\* bus keeps its types, for any names, patterns and tasks.
THEOREM EventBusTyped == Spec => []TypeOK
<1>1. Typed => TypeOK
  BY DEF Typed
<1>. QED  BY <1>1, TypedInvariant, PTL DEF Spec

-----------------------------------------------------------------------------
(* Deliveries. *)

\* A lookup answers with the subscribers of the moment.
LEMMA ResolvesSubscribers ==
  ASSUME PlainPatterns, Caching, NEW n \in Name
  PROVE  Resolved(n) = Subscribers(n) /\ Resolved(n) \subseteq Sub
<1>1. Resolved(n) = Subscribers(n)
  BY ScanFindsAll DEF Caching, CacheFresh, Resolved
<1>. QED  BY <1>1 DEF Caching, Shaped, Subscribers

\* What is published to n is dispatched to the subscribers of n, whichever
\* task has ended in the same step, if that was about another event.
LEMMA PublishDelivers ==
  ASSUME PlainPatterns, Caching, NEW n \in Name, NEW runs, NEW known, TaskBag(runs),
         PublishedTo(n, runs, known), IsABag(running),
         \A k : Count(runs, k) <= Count(running, k),
         \A s \in Sub : Count(runs, <<s, n>>) = Count(running, <<s, n>>)
  PROVE  /\ ~Muted(n) => Dispatched(n) = Subscribers(n)
         /\ \A m \in Name : Dispatched(m) # {} => ~Muted(m) /\ Dispatched(m) = Subscribers(m)
<1>0. /\ \A k : Count(runs, k) \in Nat /\ Count(running, k) \in Nat
      /\ \A s, m : Running(s, m) = Count(running, <<s, m>>)
      /\ \A s, m : Running(s, m)' = Count(running', <<s, m>>)
  BY DEF TaskBag, IsABag, Count, BagIn, BagToSet, Running
<1>1. CASE Muted(n)
  <2>1. running' = runs
    BY <1>1 DEF PublishedTo
  <2>2. ASSUME NEW s, NEW m  PROVE ~(Running(s, m)' > Running(s, m))
    <3>1. /\ Count(running', <<s, m>>) <= Count(running, <<s, m>>)
          /\ Count(running', <<s, m>>) \in Nat /\ Count(running, <<s, m>>) \in Nat
      BY <1>0, <2>1
    <3>. QED  BY <1>0, <3>1
  <2>. QED  BY <1>1, <2>2 DEF Dispatched
<1>2. CASE ~Muted(n)
  <2>1. {<<s, n>> : s \in Resolved(n)} \in SUBSET Task
    BY ResolvesSubscribers DEF Task
  <2>2. \A k : Count(running', k) = Count(runs, k)
                  + (IF k \in {<<s, n>> : s \in Resolved(n)} THEN 1 ELSE 0)
    BY <1>2, <2>1, TasksAdded DEF PublishedTo, Dispatch
  <2>3. ASSUME NEW s \in Sub, NEW m \in Name
        PROVE  s \in Dispatched(m) <=> m = n /\ s \in Resolved(n)
    <3>1. <<s, m>> \in {<<t, n>> : t \in Resolved(n)} <=> m = n /\ s \in Resolved(n)
      OBVIOUS
    <3>2. Count(running', <<s, m>>) = Count(runs, <<s, m>>)
            + (IF m = n /\ s \in Resolved(n) THEN 1 ELSE 0)
      BY <2>2, <3>1
    <3>3. /\ Count(runs, <<s, m>>) \in Nat /\ Count(running, <<s, m>>) \in Nat
          /\ Count(runs, <<s, m>>) <= Count(running, <<s, m>>)
          /\ m = n => Count(runs, <<s, m>>) = Count(running, <<s, m>>)
      BY <1>0
    <3>4. s \in Dispatched(m) <=> Count(running', <<s, m>>) > Count(running, <<s, m>>)
      BY <1>0 DEF Dispatched
    <3>. QED  BY <3>2, <3>3, <3>4
  <2>4. Dispatched(n) = Subscribers(n)
    BY <2>3, ResolvesSubscribers DEF Dispatched
  <2>5. \A m \in Name : Dispatched(m) # {} => m = n
    BY <2>3 DEF Dispatched
  <2>. QED  BY <1>2, <2>4, <2>5
<1>. QED  BY <1>1, <1>2

\* One that runs more often than before was dispatched in this step.
LEMMA NothingDispatched ==
  ASSUME IsABag(running), \A k : Count(running', k) <= Count(running, k), IsABag(running')
  PROVE  \A n \in Name : Dispatched(n) = {}
<1>1. \A k : Count(running', k) \in Nat /\ Count(running, k) \in Nat
  BY DEF IsABag, Count, BagIn, BagToSet
<1>2. \A s, n : /\ Running(s, n) = Count(running, <<s, n>>)
                /\ Running(s, n)' = Count(running', <<s, n>>)
  BY DEF Count, Running
<1>3. ASSUME NEW s, NEW n  PROVE ~(Running(s, n)' > Running(s, n))
  <2>1. /\ Count(running', <<s, n>>) <= Count(running, <<s, n>>)
        /\ Count(running', <<s, n>>) \in Nat /\ Count(running, <<s, n>>) \in Nat
    BY <1>1
  <2>. QED  BY <1>2, <2>1
<1>. QED  BY <1>3 DEF Dispatched

\* A task that has ended leaves the others as they were.
LEMMA OneTaken ==
  ASSUME NEW b, TaskBag(b), NEW k, BagIn(k, b)
  PROVE  /\ TaskBag(b (-) One(k))
         /\ \A j : Count(b (-) One(k), j) <= Count(b, j)
         /\ \A j : j # k => Count(b (-) One(k), j) = Count(b, j)
<1>. DEFINE rest == b (-) One(k)
<1>1. /\ TaskBag(rest) /\ Count(rest, k) < Count(b, k)
      /\ \A j : j # k => Count(rest, j) = Count(b, j)
  BY TaskTaken
<1>. HIDE DEF rest
<1>2. \A j : Count(rest, j) \in Nat /\ Count(b, j) \in Nat
  BY <1>1 DEF TaskBag, IsABag, Count, BagIn, BagToSet
<1>3. \A j : Count(rest, j) <= Count(b, j)
  BY <1>1, <1>2
<1>. QED  BY <1>1, <1>3 DEF rest

LEMMA StepDelivers ==
  ASSUME PlainPatterns, Caching, Typed, [Next]_vars, NEW m \in Name
  PROVE  /\ Dispatched(m) # {} => ~Muted(m) /\ Dispatched(m) = Subscribers(m)
         /\ Publish(m) /\ ~Muted(m) => Dispatched(m) = Subscribers(m)
<1>0. /\ TaskBag(running) /\ IsABag(running)
      /\ \A k : Count(running, k) \in Nat
  BY DEF Typed, TypeOK, TaskBag, IsABag, Count, BagIn, BagToSet
<1>1. ASSUME Publish(m)
      PROVE  ~Muted(m) => Dispatched(m) = Subscribers(m)
  BY <1>0, <1>1, PublishDelivers DEF Publish
<1>2. ASSUME NEW n \in Name, Publish(n), Dispatched(m) # {}
      PROVE  ~Muted(m) /\ Dispatched(m) = Subscribers(m)
  BY <1>0, <1>2, PublishDelivers DEF Publish
<1>3. ASSUME NEW k \in Task, TaskEnds(k)
      PROVE  Dispatched(m) = {}
  <2>1. BagIn(k, running) /\ running' = running (-) One(k)
    BY <1>3 DEF TaskEnds, Settled
  <2>2. TaskBag(running') /\ \A j : Count(running', j) <= Count(running, j)
    BY <1>0, <2>1, OneTaken
  <2>. QED  BY <1>0, <2>2, NothingDispatched DEF TaskBag
<1>4. ASSUME NEW k \in Task, TaskFails(k), Dispatched(m) # {}
      PROVE  ~Muted(m) /\ Dispatched(m) = Subscribers(m)
  <2>1. ErrorName \in Name /\ k[2] # ErrorName
    BY <1>4, BusAssumption DEF TaskFails, Reported
  <2>2. /\ BagIn(k, running)
        /\ PublishedTo(ErrorName, running (-) One(k), tasks (-) One(k))
    BY <1>4 DEF TaskFails, Settled
  <2>3. /\ TaskBag(running (-) One(k))
        /\ \A j : Count(running (-) One(k), j) <= Count(running, j)
        /\ \A j : j # k => Count(running (-) One(k), j) = Count(running, j)
    BY <1>0, <2>2, OneTaken
  <2>4. \A s \in Sub : <<s, ErrorName>> # k
    BY <2>1
  <2>5. \A s \in Sub :
          Count(running (-) One(k), <<s, ErrorName>>) = Count(running, <<s, ErrorName>>)
    BY <2>3, <2>4
  <2>. QED  BY <1>0, <1>4, <2>1, <2>2, <2>3, <2>5, PublishDelivers
<1>5. ASSUME UNCHANGED running  PROVE Dispatched(m) = {}
  BY <1>0, <1>5, NothingDispatched
<1>6. /\ \A d \in Drain : DrainBegins(d) \/ DrainGoesOn(d) => running' = running
      /\ UNCHANGED vars => running' = running
      /\ \A n \in Name : HasSubscribers(n) => running' = running
      /\ \A s \in Sub : Subscribe(s) \/ Unsubscribe(s) \/ UnsubscribePlugin(PluginOf[s])
                          \/ UnsubscribeOwner(OwnerOf[s]) => running' = running
      /\ \A p \in Pattern : Mute(p) \/ Unmute(p) => running' = running
  BY DEF DrainBegins, DrainGoesOn, vars, HasSubscribers, Subscribe, Unsubscribe,
         UnsubscribePlugin, UnsubscribeOwner, Mute, Unmute, dispatch
<1>. QED  BY <1>1, <1>2, <1>3, <1>4, <1>5, <1>6 DEF Next, Dispatching

\* Whatever is cached, muted, subscribed and failing at the moment, an event
\* that is dispatched goes to everyone who is subscribed and to nobody else,
\* and every event that is published and not muted is dispatched.
THEOREM DeliveriesExact ==
  ASSUME PlainPatterns
  PROVE  Spec => DeliversToSubscribers
<1>1. Caching /\ Typed /\ [Next]_vars
        => [\A n \in Name :
              /\ Dispatched(n) # {} => ~Muted(n) /\ Dispatched(n) = Subscribers(n)
              /\ Publish(n) /\ ~Muted(n) => Dispatched(n) = Subscribers(n)]_vars
  BY StepDelivers
<1>. QED  BY <1>1, CachingInvariant, TypedInvariant, PTL DEF Spec, DeliversToSubscribers

-----------------------------------------------------------------------------
(* Drains. *)

\* The bus knows of every task that runs: dispatch adds each to
\* _dispatch_tasks, and no drain that goes on takes one away that has not
\* ended.  A drain only looks at what is known, so it needs this to be all.
Tracked == \A k : Count(running, k) <= Count(tasks, k)

\* What is dispatched is added to both.
LEMMA PublishTracked ==
  ASSUME Typed, NEW n \in Name, NEW runs, NEW known, TaskBag(runs), TaskBag(known),
         \A k : Count(runs, k) <= Count(known, k), PublishedTo(n, runs, known)
  PROVE  Tracked'
<1>1. CASE Muted(n)
  BY <1>1 DEF PublishedTo, Tracked
<1>2. CASE ~Muted(n)
  <2>1. {<<s, n>> : s \in Resolved(n)} \in SUBSET Task
    BY DEF Typed, TypeOK, Resolved, Scan, Task
  <2>2. \A k : /\ Count(running', k) = Count(runs, k)
                    + (IF k \in {<<s, n>> : s \in Resolved(n)} THEN 1 ELSE 0)
               /\ Count(tasks', k) = Count(known, k)
                    + (IF k \in {<<s, n>> : s \in Resolved(n)} THEN 1 ELSE 0)
    BY <1>2, <2>1, TasksAdded DEF PublishedTo, Dispatch
  <2>3. \A k : Count(runs, k) \in Nat /\ Count(known, k) \in Nat
    BY DEF TaskBag, IsABag, Count, BagIn, BagToSet
  <2>. QED  BY <2>2, <2>3 DEF Tracked
<1>. QED  BY <1>1, <1>2

\* A task that ends is known, and is forgotten once.
LEMMA EndTracked ==
  ASSUME Typed, Tracked, NEW k, BagIn(k, running)
  PROVE  /\ TaskBag(running (-) One(k)) /\ TaskBag(tasks (-) One(k))
         /\ \A j : Count(running (-) One(k), j) <= Count(tasks (-) One(k), j)
<1>1. TaskBag(running) /\ TaskBag(tasks)
  BY DEF Typed, TypeOK, TaskBag
<1>2. \A j : Count(tasks (-) One(k), j) \in Nat
  BY <1>1, TasksLessOne DEF TaskBag, IsABag, Count, BagIn, BagToSet
<1>3. Count(running (-) One(k), k) = Count(running, k) - 1
  BY <1>1 DEF TaskBag, IsABag, Count, BagIn, One, (-), SetToBag, BagToSet
<1>4. BagIn(k, tasks)
  BY <1>1 DEF Tracked, TaskBag, IsABag, Count, BagIn, BagToSet
<1>5. Count(tasks (-) One(k), k) = Count(tasks, k) - 1
  BY <1>1, <1>4 DEF TaskBag, IsABag, Count, BagIn, One, (-), SetToBag, BagToSet
<1>6. Count(running, k) \in Nat /\ Count(tasks, k) \in Nat
  BY <1>1 DEF TaskBag, IsABag, Count, BagIn, BagToSet
<1>7. \A j : j # k => /\ Count(running (-) One(k), j) = Count(running, j)
                      /\ Count(tasks (-) One(k), j) = Count(tasks, j)
  BY <1>1, <1>4, TaskTaken
<1>. QED  BY <1>1, <1>3, <1>5, <1>6, <1>7, TasksLessOne DEF Tracked

LEMMA TrackedInvariant ==
  /\ Init => Tracked
  /\ Typed /\ Tracked /\ [Next]_vars => Tracked'
<1>1. Init => Tracked
  BY NoTasks DEF Init, Tracked
<1>2. ASSUME Typed, Tracked, [Next]_vars
      PROVE  Tracked'
  <2>. USE <1>2
  <2>1. TaskBag(running) /\ TaskBag(tasks)
    BY DEF Typed, TypeOK, TaskBag
  <2>2. ASSUME UNCHANGED <<running, tasks>>  PROVE Tracked'
    BY <2>2 DEF Tracked
  <2>3. ASSUME NEW n \in Name, Publish(n)  PROVE Tracked'
    BY <2>1, <2>3, PublishTracked DEF Publish, Tracked
  <2>4. ASSUME NEW k \in Task, TaskEnds(k)  PROVE Tracked'
    BY <2>4, EndTracked DEF TaskEnds, Settled, Tracked
  <2>5. ASSUME NEW k \in Task, TaskFails(k)  PROVE Tracked'
    BY <2>5, EndTracked, PublishTracked, BusAssumption DEF TaskFails, Settled
  <2>6. ASSUME NEW d \in Drain, DrainGoesOn(d)  PROVE Tracked'
    BY <2>1, <2>2, <2>6, RoundLeavesTasks DEF DrainGoesOn
  <2>7. \/ \E d \in Drain : DrainBegins(d)
        \/ UNCHANGED vars
        \/ \E n \in Name : HasSubscribers(n)
        \/ \E s \in Sub : Subscribe(s) \/ Unsubscribe(s) \/ UnsubscribePlugin(PluginOf[s])
                            \/ UnsubscribeOwner(OwnerOf[s])
        \/ \E p \in Pattern : Mute(p) \/ Unmute(p)
        => UNCHANGED <<running, tasks>>
    BY DEF DrainBegins, vars, HasSubscribers, Subscribe, Unsubscribe,
           UnsubscribePlugin, UnsubscribeOwner, Mute, Unmute, dispatch
  <2>. QED  BY <2>2, <2>3, <2>4, <2>5, <2>6, <2>7 DEF Next, Dispatching
<1>. QED  BY <1>1, <1>2

\* Only a drain that knows of no task returns, and so none is running.
LEMMA ReturnLeavesNothing ==
  ASSUME Typed, Tracked, [Next]_vars, NEW d \in draining, d \notin draining'
  PROVE  running' = EmptyBag
<1>0. TaskBag(running) /\ TaskBag(tasks)
  BY DEF Typed, TypeOK, TaskBag
<1>1. PICK e \in Drain : DrainGoesOn(e)
  BY DEF Next, Dispatching, vars, HasSubscribers, Publish, Subscribe, Unsubscribe,
         UnsubscribePlugin, UnsubscribeOwner, Mute, Unmute, TaskEnds, TaskFails,
         DrainBegins, dispatch
<1>2. running' = running /\ tasks' = tasks /\ tasks' = EmptyBag
  BY <1>0, <1>1, RoundLeavesTasks DEF DrainGoesOn
<1>3. \A k : Count(running, k) <= 0
  BY <1>2, NoTasks DEF Tracked
<1>4. ASSUME NEW k \in DOMAIN running  PROVE FALSE
  <2>1. running[k] \in Nat /\ running[k] > 0
    BY <1>0 DEF TaskBag, IsABag
  <2>2. Count(running, k) = running[k]
    BY DEF Count, BagIn, BagToSet
  <2>. QED  BY <1>3, <2>1, <2>2
<1>5. running = EmptyBag
  BY <1>0, <1>4 DEF TaskBag, IsABag, EmptyBag, SetToBag
<1>. QED  BY <1>2, <1>5

\* When any of several drains returns, no callback is running: of those it has
\* cancelled, of those dispatched while it waited, and of those that another
\* drain has cancelled, for any number of subscriptions, tasks and drains.
THEOREM DrainLeavesNothing == Spec => NothingOutlivesDrain
<1>1. Typed /\ Tracked /\ [Next]_vars
        => [\A d \in draining : d \notin draining' => running' = EmptyBag]_vars
  BY ReturnLeavesNothing
<1>. QED  BY <1>1, TypedInvariant, TrackedInvariant, PTL DEF Spec, NothingOutlivesDrain

=============================================================================

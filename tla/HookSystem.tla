----------------------------- MODULE HookSystem -----------------------------
(***************************************************************************)
(* The hook system of uxok: handlers by hook name and priority, and the    *)
(* cache of sorted chains (src/uxok/hooks/_system.py, _cache.py).          *)
(*                                                                         *)
(* An execution awaits one handler after the other in its caller's task.   *)
(* Handlers suspend and may call the hook system themselves, and several   *)
(* executions overlap, so anything may happen between two handlers.        *)
(***************************************************************************)
EXTENDS Arrangement, SequencesExt

CONSTANTS Name,        \* hook names
          Hook,        \* Hook objects, one for each registration
          NameOf,      \* NameOf[h]: the hook name h is registered for
          PriorityOf,  \* PriorityOf[h]: higher runs first
          CallbackOf,  \* CallbackOf[h]: the function it calls
          PluginOf, OwnerOf,   \* plugin_id and owner
          Execution,   \* calls of execute
          NotCached, None

ASSUME HookAssumption ==
  /\ NameOf \in [Hook -> Name]
  /\ PriorityOf \in [Hook -> Nat]
  /\ DOMAIN CallbackOf = Hook /\ DOMAIN PluginOf = Hook /\ DOMAIN OwnerOf = Hook
  /\ NotCached \notin Seq(Hook)
  /\ None \notin Name

VARIABLES
  hooks,    \* _hooks[n]: in the order of registration
  cache,    \* the sorted chains; one may be cached and empty
  running   \* running[e]: the execution: its hook name, firstresult, the chain
            \* it took at its start, how many handlers have returned, and the
            \* registrations of that moment, which the code does not keep

vars == <<hooks, cache, running>>

Idle == [name |-> None, first |-> FALSE, chain |-> <<>>, fired |-> 0, frame |-> <<>>]

Init ==
  /\ hooks = [n \in Name |-> <<>>]
  /\ cache = [n \in Name |-> NotCached]
  /\ running = [e \in Execution |-> Idle]

Registered == UNION {ToSet(hooks[n]) : n \in Name}

-----------------------------------------------------------------------------

\* _sort_hooks: sorted(), which is stable, by descending priority.
Earlier(s) ==
  {jk \in (DOMAIN s) \X (DOMAIN s) :
     \/ PriorityOf[s[jk[1]]] > PriorityOf[s[jk[2]]]
     \/ PriorityOf[s[jk[1]]] = PriorityOf[s[jk[2]]] /\ jk[1] < jk[2]}

Sorted(s) == ArrangedBy(s, DOMAIN s, Earlier(s))

\* A hit, or the chain sorted anew.
Chain(n) == IF cache[n] # NotCached THEN cache[n] ELSE Sorted(hooks[n])

\* Mutant: the cached chains outlive a change of the handlers.
CacheKept(names) == cache

Invalidated(names) == [n \in Name |-> IF n \in names THEN NotCached ELSE cache[n]]

Register(h) ==
  /\ h \notin Registered
  /\ hooks' = [hooks EXCEPT ![NameOf[h]] = Append(@, h)]
  /\ cache' = Invalidated({NameOf[h]})
  /\ UNCHANGED running

\* _remove_hooks and unregister: the hooks of H go.
Removed(H) ==
  /\ hooks' = [n \in Name |-> Kept(hooks[n], {k \in DOMAIN hooks[n] : hooks[n][k] \notin H})]
  /\ cache' = Invalidated({NameOf[h] : h \in H \cap Registered})
  /\ UNCHANGED running

UnregisterPlugin(id) == Removed({h \in Hook : PluginOf[h] = id})

UnregisterOwner(o) == Removed({h \in Hook : OwnerOf[h] = o})

\* unregister compares callbacks, and priorities when it is given one.
Unregister(n, callback, priorities) ==
  Removed({h \in Hook : /\ NameOf[h] = n /\ CallbackOf[h] = callback
                        /\ PriorityOf[h] \in priorities})

\* precache_hooks, for all names that have handlers.
Precache ==
  /\ cache' = [n \in Name |-> IF hooks[n] # <<>> THEN Chain(n) ELSE cache[n]]
  /\ UNCHANGED <<hooks, running>>

ClearCache ==
  /\ cache' = Invalidated(Name)
  /\ UNCHANGED <<hooks, running>>

-----------------------------------------------------------------------------
(* Executions. *)

\* An execution that finds nobody returns at once.
Begun(n, first) ==
  IF Chain(n) = <<>> THEN Idle
  ELSE [name |-> n, first |-> first, chain |-> Chain(n), fired |-> 0, frame |-> hooks[n]]

Execute(e, n, first) ==
  /\ running[e] = Idle
  /\ cache' = [cache EXCEPT ![n] = Chain(n)]
  /\ running' = [running EXCEPT ![e] = Begun(n, first)]
  /\ UNCHANGED hooks

\* Mutant: the chain is looked up again for every handler.
Renewed(e) ==
  [running[e] EXCEPT !.fired = @ + 1, !.chain = Sorted(hooks[running[e].name])]

\* On to the next handler of the chain that was taken at the start.
Advanced(e) == [running[e] EXCEPT !.fired = @ + 1]

\* The handler that was awaited returns something or, also when it raises,
\* None.  With firstresult something ends the execution.
HandlerReturns(e, something) ==
  /\ running[e] # Idle
  /\ LET next == Advanced(e)
         over == (next.first /\ something) \/ next.fired >= Len(next.chain)
     IN  running' = [running EXCEPT ![e] = IF over THEN Idle ELSE next]
  /\ UNCHANGED <<hooks, cache>>

Next ==
  \/ \E h \in Hook :
       \/ Register(h) \/ UnregisterPlugin(PluginOf[h]) \/ UnregisterOwner(OwnerOf[h])
       \/ Unregister(NameOf[h], CallbackOf[h], {PriorityOf[h]})
       \/ Unregister(NameOf[h], CallbackOf[h], Nat)
  \/ \E e \in Execution :
       \/ \E n \in Name, first \in BOOLEAN : Execute(e, n, first)
       \/ \E something \in BOOLEAN : HandlerReturns(e, something)
  \/ Precache \/ ClearCache

Spec == Init /\ [][Next]_vars

-----------------------------------------------------------------------------
(* Properties. *)

\* s has the hooks of t, by descending priority and, where that is equal, in
\* the order they have in t.
InPriorityOrder(s, t) ==
  /\ Len(s) = Len(t) /\ ToSet(s) = ToSet(t)
  /\ \A j, k \in DOMAIN t :
       j < k => \E m, n \in DOMAIN s :
                  /\ s[m] = t[j] /\ s[n] = t[k]
                  /\ m < n <=> PriorityOf[t[j]] >= PriorityOf[t[k]]

\* A cached chain is the chain of the handlers that are registered, whatever
\* came and went since it was cached: a stale one would call handlers of a
\* plugin that has been drained, or leave out those of one that was reloaded.
ChainsFresh ==
  \A n \in Name : cache[n] # NotCached => InPriorityOrder(cache[n], hooks[n])

\* "Atomic-frame property": an execution awaits the handlers that were
\* registered when it began, in order of priority, whoever is registered or
\* removed in the meantime, its own handlers' calls included; until it has
\* ended there is one that it awaits.
AtomicFrame ==
  \A e \in Execution : running[e] # Idle =>
    /\ InPriorityOrder(running[e].chain, running[e].frame)
    /\ running[e].fired < Len(running[e].chain)

=============================================================================

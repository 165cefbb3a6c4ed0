--------------------------- MODULE LifecycleProofs ---------------------------
(***************************************************************************)
(* The lifecycle kernel, for any number of calls, plugins and capabilities *)
(* and any interleaving, re-entry, failure and cancellation of operations. *)
(*                                                                         *)
(* The operation guard: _active_operations holds exactly the ids of the    *)
(* operations under way, and no two of them work on one id.  For the guard *)
(* a step is of one of four forms: a call stays outside, enters, stays     *)
(* inside or leaves.  There is a lemma for each form, and every action is  *)
(* shown to have one of them.                                              *)
(*                                                                         *)
(* The types, with what the registry keeps (see RegistryProofs).           *)
(*                                                                         *)
(* The lock: the operations inside it are a chain, each invoked by a       *)
(* callback of another, and the depth of the lock counts them.             *)
(*                                                                         *)
(* The registry: every step of the kernel is a step of module Registry.    *)
(*                                                                         *)
(* The dependencies: what a registered plugin depends on stays registered, *)
(* unless a removal is forced.  The invariant says of every operation that *)
(* may end in a removal that nobody depends on its plugin; only one        *)
(* operation at the lock can change that.                                  *)
(*                                                                         *)
(* The instances: for every suspension point of every operation the        *)
(* invariant Residence says which of the instances that carry the id is    *)
(* registered, which have handlers, which are listed as providers, which   *)
(* have been started and stopped.  From it follow that what is registered  *)
(* serves, that nothing is left of what is not, that a reload leaves no    *)
(* gap, and that every instance lives as PluginLife promises.  With what   *)
(* core.list() may have cached at every point (Listed) it shows that a     *)
(* list names what is registered; with what is registered of what a plugin *)
(* requires (Required), that its callbacks find it.                        *)
(***************************************************************************)
EXTENDS Lifecycle, ArrangementProofs

\* The names of the suspension points are used throughout.
USE DEF Registering, Unregistering, Reloading, Unguarded, SuspensionPoints

IsLocals(l) == DOMAIN l = DOMAIN NoLocals /\ l.ends \in Final

\* GuardExclusive with what its proof needs of the types: where EXCEPT takes
\* effect, and that StopBegins has a case for the core's state.
Guarding ==
  /\ state \in CoreStates
  /\ pc \in [Call -> PCs]
  /\ DOMAIN loc = Call
  /\ \A c \in Call : IsLocals(loc[c])
  /\ GuardExclusive

\* Nobody is cancelled while the `finally` of an unregistration waits: the
\* removal of the id from the guard comes after it.
UnbrokenFinally == "final_drain" \notin Cancellable

\* A step of call c from its suspension point to point, which leaves the
\* locals of the other calls alone.
Moves(c, point) ==
  /\ state' \in CoreStates
  /\ point \in PCs
  /\ Goto(c, point)
  /\ DOMAIN loc' = Call
  /\ IsLocals(loc'[c])
  /\ \A d \in Call : d # c => loc'[d] = loc[d]

-----------------------------------------------------------------------------
(* The four forms of a step. *)

\* What a move does to the calls that are inside the guard.
LEMMA MovesInGuard ==
  ASSUME Guarding, NEW c \in Call, NEW point, Moves(c, point)
  PROVE  /\ pc' \in [Call -> PCs]
         /\ \A d \in Call : IsLocals(loc'[d])
         /\ InGuard(c)' <=> point \in Guarded
         /\ \A d \in Call : d # c => (InGuard(d)' <=> InGuard(d))
BY DEF Guarding, Moves, Goto, InGuard

LEMMA StaysOutside ==
  ASSUME Guarding, NEW c \in Call, NEW point, Moves(c, point),
         pc[c] \notin Guarded, point \notin Guarded, active' = active
  PROVE  Guarding'
<1>1. \A d \in Call : InGuard(d)' => d # c /\ InGuard(d) /\ loc'[d] = loc[d]
  BY MovesInGuard DEF Moves
<1>2. \A d \in Call : InGuard(d) => d # c /\ InGuard(d)' /\ loc'[d] = loc[d]
  BY MovesInGuard DEF Moves, InGuard
<1>3. active' = {loc'[d].id : d \in {e \in Call : InGuard(e)'}}
  BY <1>1, <1>2 DEF Guarding, GuardExclusive
<1>4. GuardExclusive'
  BY <1>1, <1>3 DEF Guarding, GuardExclusive
<1>. QED  BY <1>4, MovesInGuard DEF Guarding, Moves

LEMMA Enters ==
  ASSUME Guarding, NEW c \in Call, NEW point, Moves(c, point),
         pc[c] \notin Guarded, point \in Guarded,
         ~Busy(loc'[c].id), active' = active \cup {loc'[c].id}
  PROVE  Guarding'
<1>1. \A d \in Call : InGuard(d)' => d = c \/ (InGuard(d) /\ loc'[d] = loc[d])
  BY MovesInGuard DEF Moves
<1>2. \A d \in Call : InGuard(d) => d # c /\ InGuard(d)' /\ loc'[d] = loc[d]
  BY MovesInGuard DEF Moves, InGuard
<1>3. InGuard(c)'
  BY MovesInGuard
<1>4. active' = {loc'[d].id : d \in {e \in Call : InGuard(e)'}}
  BY <1>1, <1>2, <1>3 DEF Guarding, GuardExclusive
<1>5. \A d \in Call : InGuard(d) => loc[d].id # loc'[c].id
  BY DEF Guarding, GuardExclusive, Busy
<1>6. GuardExclusive'
  BY <1>1, <1>4, <1>5 DEF Guarding, GuardExclusive
<1>. QED  BY <1>6, MovesInGuard DEF Guarding, Moves

LEMMA StaysInside ==
  ASSUME Guarding, NEW c \in Call, NEW point, Moves(c, point),
         pc[c] \in Guarded, point \in Guarded,
         loc'[c].id = loc[c].id, active' = active
  PROVE  Guarding'
<1>1. \A d \in Call : /\ InGuard(d)' <=> InGuard(d)
                      /\ loc'[d].id = loc[d].id
  BY MovesInGuard DEF Moves, InGuard
<1>2. active' = {loc'[d].id : d \in {e \in Call : InGuard(e)'}}
  BY <1>1 DEF Guarding, GuardExclusive
<1>3. GuardExclusive'
  BY <1>1, <1>2 DEF Guarding, GuardExclusive
<1>. QED  BY <1>3, MovesInGuard DEF Guarding, Moves

LEMMA Leaves ==
  ASSUME Guarding, NEW c \in Call, NEW point, Moves(c, point),
         pc[c] \in Guarded, point \notin Guarded,
         active' = active \ {loc[c].id}
  PROVE  Guarding'
<1>1. \A d \in Call : InGuard(d)' => d # c /\ InGuard(d) /\ loc'[d] = loc[d]
  BY MovesInGuard DEF Moves
<1>2. \A d \in Call : InGuard(d) /\ d # c => InGuard(d)' /\ loc'[d] = loc[d]
  BY MovesInGuard DEF Moves
<1>3. InGuard(c)
  BY DEF InGuard
<1>4. \A d \in Call : InGuard(d) /\ loc[d].id = loc[c].id => d = c
  BY <1>3 DEF Guarding, GuardExclusive
<1>5. active' = {loc'[d].id : d \in {e \in Call : InGuard(e)'}}
  BY <1>1, <1>2, <1>4 DEF Guarding, GuardExclusive
<1>6. GuardExclusive'
  BY <1>1, <1>5 DEF Guarding, GuardExclusive
<1>. QED  BY <1>6, MovesInGuard DEF Guarding, Moves

\* An operation that is refused stays outside, one that finishes leaves: in
\* stop() both go on with the teardown.
LEMMA Refused ==
  ASSUME Guarding, NEW c \in Call, NEW outcome \in Final,
         pc[c] \notin Guarded, Refuse(c, outcome), state' \in CoreStates,
         DOMAIN loc' = Call, IsLocals(loc'[c]),
         \A d \in Call : d # c => loc'[d] = loc[d]
  PROVE  Guarding'
<1> DEFINE point == IF kind[c] = "stop" THEN "teardown" ELSE outcome
<1>1. point \in PCs /\ point \notin Guarded
  BY DEF PCs, Guarded, Final
<1>2. Moves(c, point) /\ active' = active
  BY <1>1 DEF Refuse, Moves
<1>. QED  BY <1>1, <1>2, StaysOutside

LEMMA Finished ==
  ASSUME Guarding, NEW c \in Call, NEW outcome \in Final,
         pc[c] \in Guarded, Finish(c, outcome), state' = state, loc' = loc
  PROVE  Guarding'
<1> DEFINE point == IF kind[c] = "stop" /\ outcome # "cancelled" THEN "teardown"
                                                               ELSE outcome
<1>1. point \in PCs /\ point \notin Guarded
  BY DEF PCs, Guarded, Final
<1>2. Goto(c, point)
  BY DEF Finish, LeaveLock
<1>3. Moves(c, point) /\ active' = active \ {loc[c].id}
  BY <1>1, <1>2 DEF Finish, Moves, Guarding
<1>. QED  BY <1>1, <1>3, Leaves

\* A suspended operation goes on to its next suspension point.
LEMMA Continues ==
  ASSUME Guarding, NEW c \in Call, NEW point \in Guarded,
         pc[c] \in Guarded, Goto(c, point),
         state' = state, active' = active, loc' = loc
  PROVE  Guarding'
<1>1. Moves(c, point)
  BY DEF Moves, Guarding, PCs
<1>. QED  BY <1>1, StaysInside

\* The `finally` of an unregistration ends it, or waits inside.
LEMMA DrainsFinally ==
  ASSUME Guarding, NEW c \in Call, NEW outcome \in Final,
         pc[c] \in Guarded, DrainFinally(c, outcome), state' = state
  PROVE  Guarding'
<1>1. CASE Finish(c, outcome) /\ loc' = loc
  BY <1>1, Finished
<1>2. CASE /\ loc' = [loc EXCEPT ![c].ends = outcome]
           /\ Goto(c, "final_drain") /\ active' = active
  <2>1. /\ DOMAIN loc' = Call /\ IsLocals(loc'[c]) /\ loc'[c].id = loc[c].id
        /\ \A d \in Call : d # c => loc'[d] = loc[d]
    BY <1>2 DEF Guarding, IsLocals, NoLocals
  <2>2. Moves(c, "final_drain") /\ "final_drain" \in Guarded
    BY <1>2, <2>1 DEF Moves, Guarding, PCs, Guarded
  <2>. QED  BY <1>2, <2>1, <2>2, StaysInside
<1>. QED  BY <1>1, <1>2 DEF DrainFinally

-----------------------------------------------------------------------------
(* The actions. *)

LEMMA ArgumentsAreLocals ==
  ASSUME NEW k \in Operations, NEW args \in Arguments(k)
  PROVE  IsLocals(args)
<1>1. IsLocals(NoLocals)
  BY DEF IsLocals, NoLocals, Final
<1>2. /\ DOMAIN args = DOMAIN NoLocals /\ args.ends = NoLocals.ends
  BY DEF Arguments, Operations, NoLocals
<1>. QED  BY <1>1, <1>2 DEF IsLocals

LEMMA InvokeGuarding ==
  ASSUME Guarding, NEW c \in Call, NEW k \in Kinds, NEW caller, NEW own,
         Invoke(c, k, caller, own)
  PROVE  Guarding'
<1> DEFINE point == CASE k \in {"start", "stop"} -> "called"
                      [] k = "load" /\ state # "RUNNING" -> "raised"
                      [] OTHER -> "await_lock"
<1>1. point \in PCs /\ point \notin Guarded
  BY DEF PCs, Guarded, Final
<1>2. PICK args \in Arguments(k) : loc' = [loc EXCEPT ![c] = args]
  BY DEF Invoke
<1>3. IsLocals(args)
  BY ArgumentsAreLocals, LifecycleAssumption
<1>4. Moves(c, point)
  BY <1>1, <1>2, <1>3 DEF Moves, Invoke, core, Guarding
<1>5. pc[c] \notin Guarded /\ active' = active
  BY DEF Invoke, Guarded
<1>. QED  BY <1>1, <1>4, <1>5, StaysOutside

LEMMA RegisterGuarding ==
  ASSUME Guarding, NEW c \in Call, RegisterStep(c)
  PROVE  Guarding'
<1>1. ASSUME NEW p \in Plugin, RegisterRejected(c, p)  PROVE Guarding'
  <2>1. pc[c] \notin Guarded /\ Refuse(c, "raised")
    BY <1>1 DEF RegisterRejected, AboutToRegister, Guarded
  <2>. QED  BY <1>1, <2>1, Refused DEF RegisterRejected, core, Guarding, Final
<1>2. ASSUME NEW p \in Plugin, RegisterRefused(c, p)  PROVE Guarding'
  <2>1. pc[c] \notin Guarded /\ Refuse(c, "raised")
    BY <1>2 DEF RegisterRefused, AboutToRegister, Guarded
  <2>. QED  BY <1>2, <2>1, Refused DEF RegisterRefused, core, Guarding, Final
<1>3. ASSUME NEW p \in Plugin, RegisterStart(c, p)  PROVE Guarding'
  <2>1. pc[c] \notin Guarded /\ ~Busy(idOf[p]) /\ active' = active \cup {idOf[p]}
    BY <1>3 DEF RegisterStart, AboutToRegister, Guarded
  <2>2. loc' = [loc EXCEPT ![c].id = idOf[p]]
    BY <1>3 DEF RegisterStart
  <2>3. /\ DOMAIN loc' = Call /\ IsLocals(loc'[c]) /\ loc'[c].id = idOf[p]
        /\ \A d \in Call : d # c => loc'[d] = loc[d]
    BY <2>2 DEF Guarding, IsLocals, NoLocals
  <2>4. PICK point \in {"rollback", "hook_registered", "on_start"} : Goto(c, point)
    BY <1>3 DEF RegisterStart
  <2>5. Moves(c, point) /\ point \in Guarded
    BY <1>3, <2>3, <2>4 DEF RegisterStart, Moves, Guarding, core, PCs, Guarded
  <2>. QED  BY <2>1, <2>3, <2>5, Enters
<1>4. CASE OnStartReturns(c)
  BY <1>4, Continues DEF OnStartReturns, Guarded, core
<1>5. CASE OnStartRaises(c)
  BY <1>5, Continues DEF OnStartRaises, Guarded, core
<1>6. CASE RegisterRolledBack(c)
  BY <1>6, Finished DEF RegisterRolledBack, Guarded, Final, core
<1>7. CASE RegisterReturns(c)
  BY <1>7, Finished DEF RegisterReturns, Guarded, Final, core
<1>. QED  BY <1>1, <1>2, <1>3, <1>4, <1>5, <1>6, <1>7 DEF RegisterStep

LEMMA UnregisterGuarding ==
  ASSUME Guarding, NEW c \in Call, UnregisterStep(c)
  PROVE  Guarding'
<1>1. ASSUME NEW id, NEW p, loc' = Locals(c, id, p)
      PROVE  /\ DOMAIN loc' = Call /\ IsLocals(loc'[c])
             /\ pc[c] = "teardown" => loc'[c].id = id
             /\ pc[c] # "teardown" => loc'[c].id = loc[c].id
             /\ \A d \in Call : d # c => loc'[d] = loc[d]
  BY <1>1 DEF Locals, Guarding, IsLocals, NoLocals
<1>2. ASSUME NEW id \in PluginId, UnregisterRefused(c, id)  PROVE Guarding'
  <2>1. pc[c] \notin Guarded /\ state' = state
    BY <1>2 DEF UnregisterRefused, AboutToUnregister, Guarded, core
  <2>2. PICK outcome \in Final : Refuse(c, outcome)
    BY <1>2 DEF UnregisterRefused, Final
  <2>3. loc' = Locals(c, id, NoPlugin)
    BY <1>2 DEF UnregisterRefused
  <2>. QED  BY <1>1, <2>1, <2>2, <2>3, Refused DEF Guarding
<1>3. ASSUME NEW id \in PluginId, UnregisterStart(c, id)  PROVE Guarding'
  <2>1. pc[c] \notin Guarded /\ ~Busy(id) /\ active' = active \cup {id}
    BY <1>3 DEF UnregisterStart, AboutToUnregister, Guarded
  <2>2. loc' = Locals(c, id, registry.plugins[id])
    BY <1>3 DEF UnregisterStart
  <2>3. loc'[c].id = id
    BY <1>1, <1>3, <2>2 DEF UnregisterStart, AboutToUnregister
  <2>4. PICK point \in {"on_stop", "hook_unregistered"} : Goto(c, point)
    BY <1>3 DEF UnregisterStart
  <2>5. Moves(c, point) /\ point \in Guarded
    BY <1>1, <1>3, <2>2, <2>4 DEF UnregisterStart, Moves, Guarding, core, PCs, Guarded
  <2>. QED  BY <2>1, <2>3, <2>5, Enters
<1>4. CASE OnStopEnds(c)
  BY <1>4, Continues DEF OnStopEnds, Guarded, core
<1>5. CASE StopEnds(c)
  BY <1>5, Continues DEF StopEnds, Guarded, core
<1>6. CASE StopEndsWithDependents(c)
  BY <1>6, DrainsFinally DEF StopEndsWithDependents, Guarded, Final, core
<1>7. CASE UnregisterReturns(c)
  BY <1>7, DrainsFinally DEF UnregisterReturns, Guarded, Final, core
<1>8. CASE FinalDrainEnds(c)
  BY <1>8, Finished DEF FinalDrainEnds, Guarded, Guarding, IsLocals, core
<1>. QED  BY <1>2, <1>3, <1>4, <1>5, <1>6, <1>7, <1>8 DEF UnregisterStep

LEMMA ReloadGuarding ==
  ASSUME Guarding, NEW c \in Call, ReloadStep(c)
  PROVE  Guarding'
<1>1. ASSUME NEW p \in Plugin, NEW id \in PluginId, ReloadRefused(c, p, id)
      PROVE  Guarding'
  <2>1. pc[c] \notin Guarded /\ Refuse(c, "raised")
    BY <1>1 DEF ReloadRefused, AboutToReload, Guarded
  <2>. QED  BY <1>1, <2>1, Refused DEF ReloadRefused, core, Guarding, Final
<1>2. ASSUME NEW p \in Plugin, NEW id \in PluginId, ReloadStart(c, p, id)
      PROVE  Guarding'
  <2>1. /\ pc[c] \notin Guarded /\ ~Busy(id) /\ active' = active \cup {id}
        /\ Goto(c, "get_state") /\ state' = state
    BY <1>2 DEF ReloadStart, AboutToReload, Guarded, core
  <2>2. /\ DOMAIN loc' = Call /\ IsLocals(loc'[c]) /\ loc'[c].id = id
        /\ \A d \in Call : d # c => loc'[d] = loc[d]
    BY <1>2 DEF ReloadStart, Guarding, IsLocals, NoLocals
  <2>3. Moves(c, "get_state") /\ "get_state" \in Guarded
    BY <2>1, <2>2 DEF Moves, Guarding, PCs, Guarded
  <2>. QED  BY <2>1, <2>2, <2>3, Enters
<1>3. CASE GetStateRaises(c)
  BY <1>3, Finished DEF GetStateRaises, Guarded, Final, core
<1>4. CASE GetStateReturns(c)
  BY <1>4, Continues DEF GetStateReturns, Guarded, core
<1>5. CASE ReloadOnStartRaises(c)
  BY <1>5, Continues DEF ReloadOnStartRaises, Guarded, core
<1>6. CASE ReloadOnStartReturns(c)
  BY <1>6, Continues DEF ReloadOnStartReturns, Guarded, core
<1>7. CASE SwapRaises(c)
  BY <1>7, Continues DEF SwapRaises, Guarded, core
<1>8. CASE RestoreStateRaises(c)
  BY <1>8, Continues DEF RestoreStateRaises, Guarded, core
<1>9. CASE RestoreStateReturns(c)
  BY <1>9, Continues DEF RestoreStateReturns, Guarded, core
<1>10. CASE ReloadRolledBack(c)
  BY <1>10, Finished DEF ReloadRolledBack, Guarded, Final, core
<1>11. CASE OldOnStopEnds(c)
  BY <1>11, Continues DEF OldOnStopEnds, Guarded, core
<1>12. CASE ReloadReturns(c)
  BY <1>12, Finished DEF ReloadReturns, Guarded, Final, core
<1>. QED  BY <1>1, <1>2, <1>3, <1>4, <1>5, <1>6, <1>7, <1>8, <1>9, <1>10, <1>11, <1>12
          DEF ReloadStep

\* start() and stop() of the core enter the guard only through the
\* unregistrations of the teardown.
LEMMA CoreGuarding ==
  ASSUME Guarding, NEW c \in Call, CoreStep(c)
  PROVE  Guarding'
<1> DEFINE Outside == {"returned", "raised", "stopped_hook", "stop_drain", "stop_hook",
                       "teardown", "init_hook", "run_hook"}
<1>1. SUFFICES ASSUME pc[c] \notin Guarded, active' = active, state' \in CoreStates,
                      DOMAIN loc' = Call, IsLocals(loc'[c]),
                      \A d \in Call : d # c => loc'[d] = loc[d],
                      NEW point \in Outside, Goto(c, point)
               PROVE  Guarding'
  <2>1. CASE StopBegins(c)
    <3>1. state \in {"INITIALIZED", "RUNNING", "STOPPING", "STOPPED", "FAILED"}
      BY DEF Guarding, CoreStates
    <3>2. pc[c] \notin Guarded /\ active' = active /\ loc' = loc
      BY <2>1 DEF StopBegins, Guarded
    <3>3. /\ state' \in CoreStates
          /\ \E point \in Outside : Goto(c, point)
      BY <2>1, <3>1 DEF StopBegins, core, CoreStates
    <3>. QED  BY <3>2, <3>3, <1>1 DEF Guarding
  <2>2. CASE StopDrains(c)
    BY <2>2, <1>1 DEF StopDrains, Guarded, Guarding
  <2>3. CASE StopOrders(c)
    <3>1. PICK s \in TeardownOrders : loc' = [loc EXCEPT ![c].todo = s]
      BY <2>3 DEF StopOrders
    <3>2. /\ DOMAIN loc' = Call /\ IsLocals(loc'[c])
          /\ \A d \in Call : d # c => loc'[d] = loc[d]
      BY <3>1 DEF Guarding, IsLocals
    <3>. QED  BY <2>3, <3>2, <1>1 DEF StopOrders, Guarded, Guarding, core
  <2>4. CASE StopFinishes(c)
    BY <2>4, <1>1 DEF StopFinishes, Guarded, Guarding, CoreStates
  <2>5. CASE StopReturns(c)
    BY <2>5, <1>1 DEF StopReturns, Guarded, Guarding, core
  <2>6. CASE StartBegins(c)
    BY <2>6, <1>1 DEF StartBegins, Guarded, Guarding, CoreStates
  <2>7. CASE StartRuns(c)
    BY <2>7, <1>1 DEF StartRuns, Guarded, Guarding, CoreStates
  <2>8. CASE StartReturns(c)
    BY <2>8, <1>1 DEF StartReturns, Guarded, Guarding
  <2>. QED  BY <2>1, <2>2, <2>3, <2>4, <2>5, <2>6, <2>7, <2>8 DEF CoreStep
<1>2. point \in PCs /\ point \notin Guarded
  BY DEF PCs, Guarded, Final
<1>3. Moves(c, point)
  BY <1>1, <1>2 DEF Moves
<1>. QED  BY <1>1, <1>2, <1>3, StaysOutside

\* Whoever is cancelled inside the guard leaves it.
LEMMA CancelGuarding ==
  ASSUME UnbrokenFinally, Guarding, NEW c \in Call, Cancel(c)
  PROVE  Guarding'
<1>1. CASE CancelledOutside(c)
  <2>1. Moves(c, "cancelled") /\ "cancelled" \notin Guarded /\ active' = active
    BY <1>1 DEF CancelledOutside, Moves, Guarding, PCs, Final, Guarded, core
  <2>2. pc[c] \notin Guarded
    BY <1>1 DEF CancelledOutside, Guarded
  <2>. QED  BY <2>1, <2>2, StaysOutside
<1>2. CASE CancelledInside(c)
  BY <1>2, Finished DEF CancelledInside, Guarded, Final, core
<1>3. CASE CancelledUnregistering(c)
  BY <1>3, DrainsFinally DEF CancelledUnregistering, Guarded, Final, core
<1>4. CASE CancelledInFinally(c)
  BY <1>4 DEF CancelledInFinally, Cancel, UnbrokenFinally
<1>. QED  BY <1>1, <1>2, <1>3, <1>4 DEF Cancel

-----------------------------------------------------------------------------

LEMMA InitGuarding == Init => Guarding
<1> SUFFICES ASSUME Init PROVE Guarding
  OBVIOUS
<1>1. \A c \in Call : ~InGuard(c)
  BY DEF Init, InGuard, Guarded
<1>2. GuardExclusive
  BY <1>1 DEF Init, GuardExclusive
<1>. QED  BY <1>2 DEF Init, Guarding, CoreStates, PCs, IsLocals, NoLocals, Final

LEMMA NextGuarding ==
  ASSUME UnbrokenFinally
  PROVE  Guarding /\ [Next]_vars => Guarding'
<1> SUFFICES ASSUME Guarding, [Next]_vars PROVE Guarding'
  OBVIOUS
<1>1. ASSUME NEW c \in Call, Step(c)  PROVE Guarding'
  BY <1>1, RegisterGuarding, UnregisterGuarding, ReloadGuarding, CoreGuarding DEF Step
<1>2. ASSUME NEW c \in Call, NEW k \in Kinds, NEW caller \in {NoCall} \cup Call,
             NEW own \in OwnTask, Invoke(c, k, caller, own)
      PROVE  Guarding'
  BY <1>2, InvokeGuarding
<1>3. ASSUME state' = state, active' = active, pc' = pc, loc' = loc
      PROVE  Guarding'
  BY <1>3 DEF Guarding, GuardExclusive, InGuard
<1>4. CASE List
  BY <1>3, <1>4 DEF List, core
<1>5. CASE UNCHANGED vars
  BY <1>3, <1>5 DEF vars, core
<1>6. ASSUME NEW c \in Call, Cancel(c)  PROVE Guarding'
  BY <1>6, CancelGuarding
<1>. QED  BY <1>1, <1>2, <1>4, <1>5, <1>6 DEF Next

\* Two operations on one plugin never overlap, however many calls there are
\* and wherever they come from: _active_operations holds exactly the ids of
\* the operations under way, one operation for each; and so it is
\* when they are cancelled, unless in the `finally` of an unregistration.
THEOREM GuardExcludes ==
  ASSUME UnbrokenFinally
  PROVE  Spec => []GuardExclusive
<1>1. Guarding => GuardExclusive
  BY DEF Guarding
<1>. QED  BY <1>1, InitGuarding, NextGuarding, PTL DEF Spec

-----------------------------------------------------------------------------
(* Types. *)

RP == INSTANCE RegistryProofs WITH Forcing <- BOOLEAN

TypedLocals(l) ==
  /\ DOMAIN l = DOMAIN NoLocals
  /\ l.plug \in Plugin \cup {NoPlugin} /\ l.old \in Plugin \cup {NoPlugin}
  /\ l.id \in PluginId \cup {NoPlugin}
  /\ l.force \in BOOLEAN
  /\ l.newDeps \in SUBSET PluginId /\ l.oldDeps \in SUBSET PluginId
  /\ l.todo \in Seq(PluginId)
  /\ l.ends \in Final

\* What an operation inside the guard knows: the plugin it works on, and in a
\* reload the instance to swap back to.
Equipped(point, l) ==
  /\ point \in Guarded => l.id \in PluginId /\ l.plug \in Plugin
  /\ point \in Reloading => l.old \in Plugin

CallsTyped ==
  /\ pc \in [Call -> PCs]
  /\ kind \in [Call -> Operations \cup {"none"}]
  /\ task \in [Call -> Call]
  /\ parent \in [Call -> Call \cup {NoCall}]
  /\ DOMAIN loc = Call
  /\ \A c \in Call : TypedLocals(loc[c]) /\ Equipped(pc[c], loc[c])

\* The registry is more than typed, see RegistryProofs.
GraphTyped ==
  /\ RP!Consistent(registry)
  /\ table \in Tables
  /\ handlers \in SUBSET Plugin

InstancesTyped ==
  /\ idOf \in [Plugin -> PluginId]
  /\ initialized \in SUBSET Plugin /\ shutdown \in SUBSET Plugin

CoreTyped ==
  /\ state \in CoreStates /\ clock \in BOOLEAN
  /\ active \in SUBSET PluginId
  /\ collection \in [dirty : BOOLEAN, plugins : [PluginId -> Plugin \cup {NoPlugin}]]

\* All but the lock, whose depth is a number because no one releases what he
\* did not take.
Typed == CallsTyped /\ GraphTyped /\ InstancesTyped /\ CoreTyped

LEMMA KernelRegistry == RP!RegistryAssumption
BY LifecycleAssumption DEF RP!RegistryAssumption

\* The kernel uses the operators of module Registry through R; what is proved
\* of them is named through RP.
LEMMA RegistryOperators ==
  ASSUME NEW r, NEW id, NEW p, NEW deps
  PROVE  /\ R!Members(r) = RP!Members(r)
         /\ R!CanAdd(r, id, p, deps) <=> RP!CanAdd(r, id, p, deps)
         /\ R!Added(r, id, p, deps) = RP!Added(r, id, p, deps)
         /\ R!Removed(r, id) = RP!Removed(r, id)
         /\ R!SwapAttempted(r, id, p, deps) = RP!SwapAttempted(r, id, p, deps)
<1>1. R!Members(r) = RP!Members(r)
  BY DEF R!Members, RP!Members
<1>2. R!CanAdd(r, id, p, deps) <=> RP!CanAdd(r, id, p, deps)
  BY DEF R!Members, RP!Members, R!CanAdd, RP!CanAdd, R!ClosesCycle, RP!ClosesCycle,
         R!Cardinality, RP!Cardinality
<1>3. R!Added(r, id, p, deps) = RP!Added(r, id, p, deps)
  BY DEF R!Added, RP!Added, R!Installed, RP!Installed
<1>4. R!Removed(r, id) = RP!Removed(r, id)
  BY DEF R!Removed, RP!Removed, R!Detached, RP!Detached
<1>5. R!SwapAttempted(r, id, p, deps) = RP!SwapAttempted(r, id, p, deps)
  BY DEF R!SwapAttempted, RP!SwapAttempted, R!EdgesReplaced, RP!EdgesReplaced,
         R!CanReplaceEdges, RP!CanReplaceEdges, R!ClosesCycle, RP!ClosesCycle,
         R!Detached, RP!Detached, R!Installed, RP!Installed, R!Members, RP!Members
<1>. QED  BY <1>1, <1>2, <1>3, <1>4, <1>5

LEMMA RegistryStepTyped ==
  ASSUME NEW r, RP!Consistent(r), NEW id \in PluginId
  PROVE  /\ RP!Consistent(R!Removed(r, id))
         /\ \A p \in Plugin, deps \in SUBSET PluginId :
              /\ R!CanAdd(r, id, p, deps) => RP!Consistent(R!Added(r, id, p, deps))
              /\ RP!Consistent(R!SwapAttempted(r, id, p, deps))
<1>1. RP!Consistent(R!Removed(r, id))
  BY KernelRegistry, RegistryOperators, RP!RemovedConsistent
<1>2. ASSUME NEW p \in Plugin, NEW deps \in SUBSET PluginId
      PROVE  /\ R!CanAdd(r, id, p, deps) => RP!Consistent(R!Added(r, id, p, deps))
             /\ RP!Consistent(R!SwapAttempted(r, id, p, deps))
  BY KernelRegistry, RegistryOperators, RP!AddedConsistent, RP!SwapAttemptedConsistent
<1>. QED  BY <1>1, <1>2

LEMMA RegistryTypes ==
  ASSUME NEW r, RP!Consistent(r)
  PROVE  /\ r.plugins \in [PluginId -> Plugin \cup {NoPlugin}]
         /\ r.dependencies \in [PluginId -> SUBSET PluginId]
         /\ r.dependents \in [PluginId -> SUBSET PluginId]
BY DEF RP!Consistent, RP!Registries, RP!Graph

LEMMA TableStepTyped ==
  ASSUME NEW t \in Tables
  PROVE  /\ EmptyTable \in Tables
         /\ \A p \in Plugin : WithPlugin(Collision, t, p) \in Tables
         /\ \A id \in PluginId : WithoutPlugin(t, id, idOf) \in Tables
         /\ \A p \in Plugin : ProviderSwapped(t, p, idOf) \in Tables
<1>1. \A c \in Cap : t[c] \in Seq(Plugin)
  BY DEF Tables
<1>2. \A p \in Plugin : WithPlugin(Collision, t, p) \in Tables
  BY <1>1 DEF WithPlugin, Tables
<1>3. \A id \in PluginId : WithoutPlugin(t, id, idOf) \in Tables
  BY <1>1, OthersProperties DEF WithoutPlugin, Tables
<1>4. \A p \in Plugin : ProviderSwapped(t, p, idOf) \in Tables
  BY <1>1, OthersProperties, ReboundProperties DEF ProviderSwapped, Tables
<1>. QED  BY <1>2, <1>3, <1>4 DEF EmptyTable, Tables

\* Whoever requires a capability that is provided gets edges to plugins.
LEMMA NewEdgesTyped ==
  ASSUME GraphTyped, InstancesTyped, NEW p \in Plugin, MissingRequirements(table, p) = {}
  PROVE  NewEdges(p) \in SUBSET PluginId
<1>1. ASSUME NEW c \in Requires[p]
      PROVE  idOf[Selected(table, c)] \in PluginId
  <2>1. c \in Cap /\ table[c] # <<>> /\ table[c] \in Seq(Plugin)
    BY <1>1, TableAssumption DEF MissingRequirements, Provided, GraphTyped, Tables
  <2>2. Selected(table, c) \in Plugin
    BY <2>1 DEF Selected, Last
  <2>. QED  BY <2>2 DEF InstancesTyped
<1>. QED  BY <1>1, LifecycleAssumption DEF NewEdges, RequirementEdges, PluginId

-----------------------------------------------------------------------------
(* What a step leaves of the calls, when it suspends c at point. *)

LEMMA CallMoves ==
  ASSUME CallsTyped, NEW c \in Call, NEW point \in PCs, Goto(c, point), UNCHANGED call,
         DOMAIN loc' = Call, \A d \in Call : d # c => loc'[d] = loc[d],
         TypedLocals(loc'[c]), Equipped(point, loc'[c])
  PROVE  CallsTyped'
BY DEF CallsTyped, Goto, call, Equipped, TypedLocals

\* It goes on inside the guard, or ends outside.
LEMMA CallGoesOn ==
  ASSUME CallsTyped, NEW c \in Call, NEW point \in PCs, Goto(c, point), UNCHANGED call,
         loc' = loc,
         point \in Guarded => pc[c] \in Guarded,
         point \in Reloading => pc[c] \in Reloading
  PROVE  CallsTyped'
<1>1. TypedLocals(loc[c]) /\ Equipped(pc[c], loc[c]) /\ DOMAIN loc = Call
  BY DEF CallsTyped
<1>2. Equipped(point, loc[c])
  BY <1>1 DEF Equipped
<1>3. /\ DOMAIN loc' = Call /\ TypedLocals(loc'[c]) /\ Equipped(point, loc'[c])
      /\ \A d \in Call : d # c => loc'[d] = loc[d]
  BY <1>1, <1>2
<1>. QED  BY <1>3, CallMoves

LEMMA CallFinishes ==
  ASSUME CallsTyped, NEW c \in Call, NEW outcome \in Final, UNCHANGED call, loc' = loc,
         LeaveLock(c, outcome)
  PROVE  CallsTyped'
<1>1. PICK point \in Final \cup {"teardown"} : Goto(c, point)
  BY DEF LeaveLock, Final
<1>2. point \in PCs /\ point \notin Guarded
  BY DEF PCs, Guarded, Final
<1>. QED  BY <1>1, <1>2, CallGoesOn DEF Guarded

LEMMA CallRefused ==
  ASSUME CallsTyped, NEW c \in Call, NEW outcome \in Final, UNCHANGED call,
         Refuse(c, outcome),
         DOMAIN loc' = Call, \A d \in Call : d # c => loc'[d] = loc[d], TypedLocals(loc'[c])
  PROVE  CallsTyped'
<1>1. PICK point \in Final \cup {"teardown"} : Goto(c, point)
  BY DEF Refuse, Final
<1>2. point \in PCs /\ point \notin Guarded
  BY DEF PCs, Guarded, Final
<1>3. Equipped(point, loc'[c])
  BY <1>2 DEF Equipped, Guarded
<1>. QED  BY <1>1, <1>2, <1>3, CallMoves

LEMMA CallDrains ==
  ASSUME CallsTyped, NEW c \in Call, NEW outcome \in Final, UNCHANGED call,
         DrainFinally(c, outcome), pc[c] \in Unregistering
  PROVE  CallsTyped'
<1>1. CASE Finish(c, outcome) /\ loc' = loc
  BY <1>1, CallFinishes DEF Finish
<1>2. CASE loc' = [loc EXCEPT ![c].ends = outcome] /\ Goto(c, "final_drain")
  <2>1. TypedLocals(loc[c]) /\ Equipped(pc[c], loc[c]) /\ DOMAIN loc = Call
    BY DEF CallsTyped
  <2>2. /\ DOMAIN loc' = Call /\ \A d \in Call : d # c => loc'[d] = loc[d]
        /\ TypedLocals(loc'[c]) /\ loc'[c].id = loc[c].id /\ loc'[c].plug = loc[c].plug
    BY <1>2, <2>1 DEF TypedLocals, NoLocals
  <2>3. "final_drain" \in PCs /\ Equipped("final_drain", loc'[c])
    BY <2>1, <2>2 DEF PCs, Equipped, Guarded
  <2>. QED  BY <1>2, <2>2, <2>3, CallMoves
<1>. QED  BY <1>1, <1>2 DEF DrainFinally

\* What the operations do to the handlers.
LEMMA HandlersTyped ==
  ASSUME GraphTyped
  PROVE  /\ \A id : HandlersWithout(id) \in SUBSET Plugin
         /\ \A p : HandlersWithoutInstance(p) \in SUBSET Plugin
         /\ \A p \in Plugin : handlers \cup {p} \in SUBSET Plugin
BY DEF GraphTyped, HandlersWithout, HandlersWithoutInstance

\* The guard of an operation that ends keeps its type.
LEMMA GuardTyped ==
  ASSUME CoreTyped, UNCHANGED <<core, collection>>, NEW S, active' = active \ S
  PROVE  CoreTyped'
BY DEF CoreTyped, core

LEMMA InvokeTyped ==
  ASSUME Typed, NEW c \in Call, NEW k \in Kinds, NEW caller \in {NoCall} \cup Call,
         NEW own \in OwnTask, Invoke(c, k, caller, own)
  PROVE  Typed'
<1> DEFINE point == CASE k \in {"start", "stop"} -> "called"
                      [] k = "load" /\ state # "RUNNING" -> "raised"
                      [] OTHER -> "await_lock"
<1>1. point \in PCs /\ point \notin Guarded
  BY DEF PCs, Guarded, Final
<1>2. PICK args \in Arguments(k) : loc' = [loc EXCEPT ![c] = args]
  BY DEF Invoke
<1>3. k \in Operations
  BY LifecycleAssumption
<1>4. TypedLocals(NoLocals)
  BY DEF TypedLocals, NoLocals, Final
<1>5. TypedLocals(args)
  <2>1. CASE k = "register"
    <3>1. PICK p \in Plugin : args = [NoLocals EXCEPT !.plug = p, !.id = idOf[p]]
      BY <1>2, <2>1, LifecycleAssumption DEF Arguments
    <3>2. idOf[p] \in PluginId
      BY DEF Typed, InstancesTyped
    <3>. QED  BY <1>4, <3>1, <3>2 DEF TypedLocals, NoLocals
  <2>2. CASE k = "load"
    <3>1. PICK p \in Plugin : args = [NoLocals EXCEPT !.plug = p]
      BY <1>2, <2>2, LifecycleAssumption DEF Arguments
    <3>. QED  BY <1>4, <3>1 DEF TypedLocals, NoLocals
  <2>3. CASE k \in {"unregister", "force"}
    <3>1. PICK id \in PluginId :
            args = [NoLocals EXCEPT !.id = id, !.force = (k = "force")]
      BY <1>2, <2>3 DEF Arguments
    <3>. QED  BY <1>4, <3>1 DEF TypedLocals, NoLocals
  <2>4. CASE k \in {"start", "stop"}
    <3>1. args = NoLocals \/ args = [NoLocals EXCEPT !.force = TRUE]
      BY <1>2, <2>4 DEF Arguments
    <3>. QED  BY <1>4, <3>1 DEF TypedLocals, NoLocals
  <2>. QED  BY <1>3, <2>1, <2>2, <2>3, <2>4 DEF Operations
<1>6. CallsTyped'
  <2>1. pc' = [pc EXCEPT ![c] = point]
    BY DEF Invoke, Goto
  <2>2. /\ pc' \in [Call -> PCs]
        /\ \A d \in Call : TypedLocals(loc'[d]) /\ Equipped(pc'[d], loc'[d])
    BY <1>1, <1>2, <1>5, <2>1 DEF Typed, CallsTyped, Equipped, Guarded
  <2>3. /\ kind' \in [Call -> Operations \cup {"none"}]
        /\ task' \in [Call -> Call]
        /\ parent' \in [Call -> Call \cup {NoCall}]
    BY <1>3 DEF Invoke, Typed, CallsTyped
  <2>. QED  BY <1>2, <2>2, <2>3 DEF Typed, CallsTyped
<1>. QED  BY <1>6 DEF Invoke, Typed, GraphTyped, InstancesTyped, CoreTyped, core, graph, instances

LEMMA RegisterTyped ==
  ASSUME Typed, NEW c \in Call, RegisterStep(c)
  PROVE  Typed'
<1>0. /\ CallsTyped /\ GraphTyped /\ InstancesTyped /\ CoreTyped
      /\ DOMAIN loc = Call /\ TypedLocals(loc[c]) /\ Equipped(pc[c], loc[c])
  BY DEF Typed, CallsTyped
<1>1. ASSUME NEW p \in Plugin, RegisterRejected(c, p)  PROVE Typed'
  <2>1. CallsTyped'
    BY <1>0, <1>1, CallRefused DEF RegisterRejected, Final
  <2>. QED  BY <1>0, <1>1, <2>1 DEF RegisterRejected, Refuse, Typed, GraphTyped,
              InstancesTyped, CoreTyped, core, graph, instances
<1>2. ASSUME NEW p \in Plugin, RegisterRefused(c, p)  PROVE Typed'
  <2>1. CallsTyped'
    BY <1>0, <1>2, CallRefused DEF RegisterRefused, Final
  <2>2. GraphTyped'
    BY <1>0, <1>2, HandlersTyped, TableStepTyped DEF RegisterRefused, GraphTyped, InstancesTyped
  <2>. QED  BY <1>0, <1>2, <2>1, <2>2 DEF RegisterRefused, Refuse, Typed,
              InstancesTyped, CoreTyped, core, instances
<1>3. ASSUME NEW p \in Plugin, RegisterStart(c, p)  PROVE Typed'
  <2>1. /\ idOf[p] \in PluginId /\ loc[c].plug = p
        /\ loc' = [loc EXCEPT ![c].id = idOf[p]]
    BY <1>0, <1>3 DEF RegisterStart, AboutToRegister, InstancesTyped
  <2>2. PICK point \in {"rollback", "hook_registered", "on_start"} : Goto(c, point)
    BY <1>3 DEF RegisterStart
  <2>3. /\ DOMAIN loc' = Call /\ \A d \in Call : d # c => loc'[d] = loc[d]
        /\ TypedLocals(loc'[c]) /\ loc'[c].id = idOf[p] /\ loc'[c].plug = p
    BY <1>0, <2>1 DEF TypedLocals, NoLocals
  <2>4. point \in PCs /\ Equipped(point, loc'[c])
    BY <2>1, <2>2, <2>3 DEF PCs, Equipped, Guarded
  <2>5. CallsTyped'
    BY <1>0, <1>3, <2>2, <2>3, <2>4, CallMoves DEF RegisterStart
  <2>6. NewEdges(p) \in SUBSET PluginId
    BY <1>0, <1>3, NewEdgesTyped DEF RegisterStart, Admissible, Admits
  <2>7. RP!Consistent(registry')
    BY <1>0, <1>3, <2>1, <2>6, RegistryStepTyped DEF RegisterStart, GraphTyped
  <2>8. table' \in Tables
    <3>1. WithPlugin(Collision, table, p) \in Tables
      BY <1>0, TableStepTyped DEF GraphTyped
    <3>2. WithoutPlugin(WithPlugin(Collision, table, p), idOf[p], idOf) \in Tables
      BY <2>1, <3>1, TableStepTyped
    <3>. QED  BY <1>3, <3>1, <3>2 DEF RegisterStart
  <2>9. handlers' \in SUBSET Plugin
    BY <1>0, <1>3, HandlersTyped DEF RegisterStart, GraphTyped
  <2>10. GraphTyped'
    BY <2>7, <2>8, <2>9 DEF GraphTyped, RP!Consistent, RP!Members, RP!SoundReverseEdges, RP!EdgesOfMembers
  <2>. QED  BY <1>0, <1>3, <2>1, <2>5, <2>10 DEF RegisterStart, Typed, InstancesTyped,
              CoreTyped, core, instances
<1>4. CASE OnStartReturns(c)
  <2>1. CallsTyped'
    BY <1>0, <1>4, CallGoesOn DEF OnStartReturns, PCs, Guarded
  <2>. QED  BY <1>0, <1>4, <2>1 DEF OnStartReturns, Typed, GraphTyped, InstancesTyped,
              CoreTyped, core, graph, Equipped, Guarded
<1>5. CASE OnStartRaises(c)
  <2>1. CallsTyped'
    BY <1>0, <1>5, CallGoesOn DEF OnStartRaises, PCs, Guarded
  <2>2. GraphTyped'
    BY <1>0, <1>5, HandlersTyped, TableStepTyped DEF OnStartRaises, GraphTyped, Equipped, Guarded
  <2>. QED  BY <1>0, <1>5, <2>1, <2>2 DEF OnStartRaises, Typed, InstancesTyped, CoreTyped,
              core, instances
<1>6. CASE RegisterRolledBack(c)
  <2>1. CallsTyped'
    BY <1>0, <1>6, CallFinishes DEF RegisterRolledBack, Finish, Final
  <2>2. GraphTyped'
    BY <1>0, <1>6, RegistryStepTyped DEF RegisterRolledBack, GraphTyped, Equipped, Guarded
  <2>3. CoreTyped'
    BY <1>0, <1>6, GuardTyped DEF RegisterRolledBack, Finish
  <2>. QED  BY <1>0, <1>6, <2>1, <2>2, <2>3 DEF RegisterRolledBack, Typed, InstancesTyped, instances
<1>7. CASE RegisterReturns(c)
  <2>1. CallsTyped'
    BY <1>0, <1>7, CallFinishes DEF RegisterReturns, Finish, Final
  <2>2. CoreTyped'
    BY <1>0, <1>7 DEF RegisterReturns, Finish, CoreTyped, Invalidated, core
  <2>. QED  BY <1>0, <1>7, <2>1, <2>2 DEF RegisterReturns, Typed, GraphTyped, InstancesTyped,
              graph, instances
<1>. QED  BY <1>1, <1>2, <1>3, <1>4, <1>5, <1>6, <1>7 DEF RegisterStep

LEMMA DrainTyped ==
  ASSUME Typed, NEW c \in Call, NEW outcome \in Final, DrainFinally(c, outcome),
         pc[c] \in Unregistering, UNCHANGED <<core, call, idOf, initialized>>,
         RP!Consistent(registry'), shutdown' \in SUBSET Plugin,
         collection' = collection \/ collection' = Invalidated
  PROVE  Typed'
<1>1. CallsTyped'
  BY CallDrains DEF Typed
<1>2. loc[c].id \in PluginId
  BY DEF Typed, CallsTyped, Equipped, Guarded
<1>3. handlers' \in SUBSET Plugin /\ table' \in Tables
  BY <1>2, HandlersTyped, TableStepTyped DEF Typed, GraphTyped, DrainFinally
<1>4. GraphTyped'
  BY <1>3 DEF GraphTyped, RP!Consistent, RP!Members, RP!SoundReverseEdges, RP!EdgesOfMembers
<1>5. CoreTyped'
  BY DEF Typed, CoreTyped, DrainFinally, Finish, Invalidated, core
<1>. QED  BY <1>1, <1>4, <1>5 DEF Typed, InstancesTyped

LEMMA UnregisterTyped ==
  ASSUME Typed, NEW c \in Call, UnregisterStep(c)
  PROVE  Typed'
<1>0. /\ CallsTyped /\ GraphTyped /\ InstancesTyped /\ CoreTyped
      /\ DOMAIN loc = Call /\ TypedLocals(loc[c]) /\ Equipped(pc[c], loc[c])
  BY DEF Typed, CallsTyped
<1>1. ASSUME NEW id \in PluginId, NEW p \in Plugin \cup {NoPlugin},
             AboutToUnregister(c, id), loc' = Locals(c, id, p)
      PROVE  /\ DOMAIN loc' = Call /\ \A d \in Call : d # c => loc'[d] = loc[d]
             /\ TypedLocals(loc'[c]) /\ loc'[c].id = id /\ loc'[c].plug = p
  <2>1. CASE pc[c] = "teardown"
    <3>1. loc[c].todo # <<>> /\ loc[c].todo \in Seq(PluginId)
      BY <1>0, <1>1, <2>1 DEF AboutToUnregister, TypedLocals
    <3>2. Tail(loc[c].todo) \in Seq(PluginId)
      BY <3>1
    <3>. QED  BY <1>0, <1>1, <2>1, <3>2 DEF Locals, TypedLocals, NoLocals
  <2>2. CASE pc[c] # "teardown"
    BY <1>0, <1>1, <2>2 DEF Locals, TypedLocals, NoLocals, AboutToUnregister
  <2>. QED  BY <2>1, <2>2
<1>2. ASSUME NEW id \in PluginId, UnregisterRefused(c, id)  PROVE Typed'
  <2>1. PICK outcome \in Final : Refuse(c, outcome)
    BY <1>2 DEF UnregisterRefused, Final
  <2>2. CallsTyped'
    BY <1>0, <1>1, <1>2, <2>1, CallRefused DEF UnregisterRefused
  <2>. QED  BY <1>0, <1>2, <2>1, <2>2 DEF UnregisterRefused, Refuse, Typed, GraphTyped,
              InstancesTyped, CoreTyped, core, graph, instances
<1>3. ASSUME NEW id \in PluginId, UnregisterStart(c, id)  PROVE Typed'
  <2>1. registry.plugins[id] \in Plugin /\ AboutToUnregister(c, id)
    BY <1>0, <1>3, RegistryTypes DEF UnregisterStart, GraphTyped, Registered, R!Members
  <2>2. /\ DOMAIN loc' = Call /\ \A d \in Call : d # c => loc'[d] = loc[d]
        /\ TypedLocals(loc'[c]) /\ loc'[c].id = id
        /\ loc'[c].plug = registry.plugins[id]
    BY <1>1, <1>3, <2>1 DEF UnregisterStart
  <2>3. PICK point \in {"on_stop", "hook_unregistered"} : Goto(c, point)
    BY <1>3 DEF UnregisterStart
  <2>4. point \in PCs /\ Equipped(point, loc'[c])
    BY <2>1, <2>2, <2>3 DEF PCs, Equipped, Guarded
  <2>5. CallsTyped'
    BY <1>0, <1>3, <2>2, <2>3, <2>4, CallMoves DEF UnregisterStart
  <2>6. GraphTyped'
    BY <1>0, <1>3, RegistryStepTyped DEF UnregisterStart, GraphTyped
  <2>. QED  BY <1>0, <1>3, <2>5, <2>6 DEF UnregisterStart, Typed, InstancesTyped, CoreTyped,
              core, instances
<1>4. CASE OnStopEnds(c)
  <2>1. CallsTyped'
    BY <1>0, <1>4, CallGoesOn DEF OnStopEnds, PCs, Guarded
  <2>2. GraphTyped'
    BY <1>0, <1>4, HandlersTyped, TableStepTyped DEF OnStopEnds, GraphTyped, Equipped, Guarded
  <2>. QED  BY <1>0, <1>4, <2>1, <2>2 DEF OnStopEnds, Typed, InstancesTyped, CoreTyped,
              core, instances
<1>5. CASE StopEnds(c)
  <2>1. CallsTyped'
    BY <1>0, <1>5, CallGoesOn DEF StopEnds, PCs, Guarded
  <2>2. GraphTyped'
    BY <1>0, <1>5, RegistryStepTyped DEF StopEnds, GraphTyped, Equipped, Guarded
  <2>3. InstancesTyped'
    BY <1>0, <1>5 DEF StopEnds, InstancesTyped, Equipped, Guarded
  <2>. QED  BY <1>0, <1>5, <2>1, <2>2, <2>3 DEF StopEnds, Typed, CoreTyped, core
<1>6. CASE StopEndsWithDependents(c)
  <2>1. loc[c].id \in PluginId /\ loc[c].plug \in Plugin /\ pc[c] \in Unregistering
    BY <1>0, <1>6 DEF StopEndsWithDependents, Equipped, Guarded
  <2>2. RP!Consistent(registry')
    BY <1>0, <1>6, <2>1, RegistryStepTyped DEF StopEndsWithDependents, GraphTyped
  <2>. QED  BY <1>0, <1>6, <2>1, <2>2, DrainTyped DEF StopEndsWithDependents, Final,
              InstancesTyped
<1>7. CASE UnregisterReturns(c)
  BY <1>0, <1>7, DrainTyped DEF UnregisterReturns, Final, GraphTyped, InstancesTyped, instances
<1>8. CASE FinalDrainEnds(c)
  <2>1. CallsTyped'
    BY <1>0, <1>8, CallFinishes DEF FinalDrainEnds, Finish, TypedLocals
  <2>2. CoreTyped'
    BY <1>0, <1>8, GuardTyped DEF FinalDrainEnds, Finish
  <2>. QED  BY <1>0, <1>8, <2>1, <2>2 DEF FinalDrainEnds, Typed, GraphTyped, InstancesTyped,
              graph, instances
<1>. QED  BY <1>2, <1>3, <1>4, <1>5, <1>6, <1>7, <1>8 DEF UnregisterStep

\* Both ways of a swap, from inside a reload.
LEMMA SwapsTyped ==
  ASSUME Typed, NEW c \in Call, pc[c] \in Reloading
  PROVE  /\ RP!Consistent(Swapped(registry, c))
         /\ RP!Consistent(SwappedBack(registry, c))
         /\ RP!Consistent(SwappedBack(Swapped(registry, c), c))
<1>1. /\ loc[c].id \in PluginId /\ loc[c].plug \in Plugin /\ loc[c].old \in Plugin
      /\ loc[c].newDeps \in SUBSET PluginId /\ loc[c].oldDeps \in SUBSET PluginId
  BY DEF Typed, CallsTyped, TypedLocals, Equipped, Guarded
<1>2. RP!Consistent(registry)
  BY DEF Typed, GraphTyped
<1>3. ASSUME NEW r, RP!Consistent(r)
      PROVE  RP!Consistent(Swapped(r, c)) /\ RP!Consistent(SwappedBack(r, c))
  BY <1>1, <1>3, RegistryStepTyped DEF Swapped, SwappedBack
<1>. QED  BY <1>2, <1>3

LEMMA ReloadTyped ==
  ASSUME Typed, NEW c \in Call, ReloadStep(c)
  PROVE  Typed'
<1>0. /\ CallsTyped /\ GraphTyped /\ InstancesTyped /\ CoreTyped
      /\ DOMAIN loc = Call /\ TypedLocals(loc[c]) /\ Equipped(pc[c], loc[c])
  BY DEF Typed, CallsTyped
<1>1. ASSUME NEW p \in Plugin, NEW id \in PluginId, ReloadRefused(c, p, id)
      PROVE  Typed'
  <2>1. CallsTyped'
    BY <1>0, <1>1, CallRefused DEF ReloadRefused, Final
  <2>2. InstancesTyped'
    BY <1>0, <1>1 DEF ReloadRefused, InstancesTyped
  <2>. QED  BY <1>0, <1>1, <2>1, <2>2 DEF ReloadRefused, Refuse, Typed, GraphTyped,
              CoreTyped, core, graph
<1>2. ASSUME NEW p \in Plugin, NEW id \in PluginId, ReloadStart(c, p, id)
      PROVE  Typed'
  <2>1. /\ registry.plugins[id] \in Plugin /\ loc[c].plug = p
        /\ registry.dependencies[id] \in SUBSET PluginId
    BY <1>0, <1>2, RegistryTypes DEF ReloadStart, AboutToReload, Live, GraphTyped,
       Registered, R!Members
  <2>2. SwapEdges(p, id) \in SUBSET PluginId
    BY <1>0, <1>2, NewEdgesTyped DEF ReloadStart, SwapEdges
  <2>3. /\ DOMAIN loc' = Call /\ \A d \in Call : d # c => loc'[d] = loc[d]
        /\ TypedLocals(loc'[c])
        /\ loc'[c].id = id /\ loc'[c].plug = p /\ loc'[c].old = registry.plugins[id]
    BY <1>0, <1>2, <2>1, <2>2 DEF ReloadStart, TypedLocals, NoLocals
  <2>4. Goto(c, "get_state") /\ "get_state" \in PCs /\ Equipped("get_state", loc'[c])
    BY <1>2, <2>1, <2>3 DEF ReloadStart, PCs, Equipped, Guarded
  <2>5. CallsTyped'
    BY <1>0, <1>2, <2>3, <2>4, CallMoves DEF ReloadStart
  <2>6. InstancesTyped' /\ CoreTyped'
    BY <1>0, <1>2 DEF ReloadStart, InstancesTyped, CoreTyped, core
  <2>. QED  BY <1>0, <1>2, <2>5, <2>6 DEF ReloadStart, Typed, GraphTyped, graph
<1>3. CASE GetStateRaises(c)
  <2>1. CallsTyped'
    BY <1>0, <1>3, CallFinishes DEF GetStateRaises, Finish, Final
  <2>2. CoreTyped'
    BY <1>0, <1>3, GuardTyped DEF GetStateRaises, Finish
  <2>. QED  BY <1>0, <1>3, <2>1, <2>2 DEF GetStateRaises, Typed, GraphTyped, InstancesTyped,
              graph, instances
<1>4. CASE GetStateReturns(c)
  <2>1. CallsTyped'
    BY <1>0, <1>4, CallGoesOn DEF GetStateReturns, PCs, Guarded
  <2>2. GraphTyped'
    BY <1>0, <1>4 DEF GetStateReturns, GraphTyped, Equipped, Guarded
  <2>. QED  BY <1>0, <1>4, <2>1, <2>2 DEF GetStateReturns, Typed, InstancesTyped, CoreTyped,
              core, instances
<1>5. CASE ReloadOnStartRaises(c)
  <2>1. CallsTyped'
    BY <1>0, <1>5, CallGoesOn DEF ReloadOnStartRaises, PCs, Guarded
  <2>2. GraphTyped'
    BY <1>0, <1>5, HandlersTyped DEF ReloadOnStartRaises, GraphTyped
  <2>. QED  BY <1>0, <1>5, <2>1, <2>2 DEF ReloadOnStartRaises, Typed, InstancesTyped,
              CoreTyped, core, instances
<1>6. CASE ReloadOnStartReturns(c)
  <2>1. CallsTyped'
    BY <1>0, <1>6, CallGoesOn DEF ReloadOnStartReturns, PCs, Guarded
  <2>2. loc[c].plug \in Plugin /\ pc[c] \in Reloading
    BY <1>0, <1>6 DEF ReloadOnStartReturns, Equipped, Guarded
  <2>3. GraphTyped'
    BY <1>0, <1>6, <2>2, SwapsTyped, TableStepTyped DEF ReloadOnStartReturns, GraphTyped
  <2>. QED  BY <1>0, <1>6, <2>1, <2>2, <2>3 DEF ReloadOnStartReturns, Typed, InstancesTyped,
              CoreTyped, core
<1>7. CASE SwapRaises(c)
  <2>1. CallsTyped'
    BY <1>0, <1>7, CallGoesOn DEF SwapRaises, PCs, Guarded
  <2>2. loc[c].plug \in Plugin /\ pc[c] \in Reloading
    BY <1>0, <1>7 DEF SwapRaises, Equipped, Guarded
  <2>3. GraphTyped'
    BY <1>0, <1>7, <2>2, SwapsTyped, HandlersTyped DEF SwapRaises, GraphTyped
  <2>. QED  BY <1>0, <1>7, <2>1, <2>2, <2>3 DEF SwapRaises, Typed, InstancesTyped,
              CoreTyped, core
<1>8. CASE RestoreStateRaises(c)
  <2>1. CallsTyped'
    BY <1>0, <1>8, CallGoesOn DEF RestoreStateRaises, PCs, Guarded
  <2>2. pc[c] \in Reloading
    BY <1>8 DEF RestoreStateRaises
  <2>3. GraphTyped'
    BY <1>0, <1>8, <2>2, SwapsTyped, HandlersTyped DEF RestoreStateRaises, GraphTyped
  <2>. QED  BY <1>0, <1>8, <2>1, <2>3 DEF RestoreStateRaises, Typed, InstancesTyped,
              CoreTyped, core, instances
<1>9. CASE RestoreStateReturns(c)
  <2>1. CallsTyped'
    BY <1>0, <1>9, CallGoesOn DEF RestoreStateReturns, PCs, Guarded
  <2>. QED  BY <1>0, <1>9, <2>1 DEF RestoreStateReturns, Typed, GraphTyped, InstancesTyped,
              CoreTyped, core, graph, instances
<1>10. CASE ReloadRolledBack(c)
  <2>1. CallsTyped'
    BY <1>0, <1>10, CallFinishes DEF ReloadRolledBack, Finish, Final
  <2>2. CoreTyped'
    BY <1>0, <1>10, GuardTyped DEF ReloadRolledBack, Finish
  <2>. QED  BY <1>0, <1>10, <2>1, <2>2 DEF ReloadRolledBack, Typed, GraphTyped,
              InstancesTyped, graph, instances
<1>11. CASE OldOnStopEnds(c)
  <2>1. CallsTyped'
    BY <1>0, <1>11, CallGoesOn DEF OldOnStopEnds, PCs, Guarded
  <2>2. loc[c].old \in Plugin
    BY <1>0, <1>11 DEF OldOnStopEnds, Equipped
  <2>3. GraphTyped' /\ InstancesTyped'
    BY <1>0, <1>11, <2>2, HandlersTyped DEF OldOnStopEnds, GraphTyped, InstancesTyped
  <2>. QED  BY <1>0, <1>11, <2>1, <2>3 DEF OldOnStopEnds, Typed, CoreTyped, core
<1>12. CASE ReloadReturns(c)
  <2>1. CallsTyped'
    BY <1>0, <1>12, CallFinishes DEF ReloadReturns, Finish, Final
  <2>2. CoreTyped'
    BY <1>0, <1>12, GuardTyped DEF ReloadReturns, Finish
  <2>. QED  BY <1>0, <1>12, <2>1, <2>2 DEF ReloadReturns, Typed, GraphTyped, InstancesTyped,
              graph, instances
<1>. QED  BY <1>1, <1>2, <1>3, <1>4, <1>5, <1>6, <1>7, <1>8, <1>9, <1>10, <1>11, <1>12
          DEF ReloadStep

LEMMA CoreStepTyped ==
  ASSUME Typed, NEW c \in Call, CoreStep(c)
  PROVE  Typed'
<1> DEFINE Outside == {"returned", "raised", "stopped_hook", "stop_drain", "stop_hook",
                       "teardown", "init_hook", "run_hook"}
<1>0. /\ CallsTyped /\ GraphTyped /\ InstancesTyped /\ CoreTyped
      /\ DOMAIN loc = Call /\ TypedLocals(loc[c]) /\ Equipped(pc[c], loc[c])
  BY DEF Typed, CallsTyped
<1>1. ASSUME NEW point \in Outside, Goto(c, point), UNCHANGED call, loc' = loc
      PROVE  CallsTyped'
  <2>1. point \in PCs /\ point \notin Guarded
    BY DEF PCs, Guarded, Final
  <2>. QED  BY <1>0, <1>1, <2>1, CallGoesOn DEF Guarded
<1>2. CASE StopBegins(c)
  <2>1. state \in {"INITIALIZED", "RUNNING", "STOPPING", "STOPPED", "FAILED"}
    BY <1>0 DEF CoreTyped, CoreStates
  <2>2. /\ state' \in CoreStates /\ clock' \in BOOLEAN
        /\ \E point \in Outside : Goto(c, point)
    BY <1>0, <1>2, <2>1 DEF StopBegins, CoreTyped, CoreStates, core
  <2>3. CallsTyped'
    BY <1>1, <1>2, <2>2 DEF StopBegins
  <2>. QED  BY <1>0, <1>2, <2>2, <2>3 DEF StopBegins, Typed, GraphTyped, InstancesTyped,
              CoreTyped, graph, instances
<1>3. CASE StopDrains(c)
  <2>1. CallsTyped'
    BY <1>1, <1>3 DEF StopDrains
  <2>. QED  BY <1>0, <1>3, <2>1 DEF StopDrains, Typed, GraphTyped, InstancesTyped,
              CoreTyped, graph, instances
<1>4. CASE StopOrders(c)
  <2>1. PICK s \in TeardownOrders : loc' = [loc EXCEPT ![c].todo = s]
    BY <1>4 DEF StopOrders
  <2>2. s \in Seq(PluginId)
    <3>1. IsFiniteSet(Registered) /\ Registered \in SUBSET PluginId
      BY <1>0 DEF GraphTyped, RP!Consistent, Registered, R!Members, RP!Members,
         RP!IsFiniteSet, IsFiniteSet
    <3>2. PICK S \in SUBSET Registered : s \in SetToSeqs(S)
      BY DEF TeardownOrders, SetToAllKPermutations
    <3>3. Cardinality(S) \in Nat
      BY <3>1, <3>2, FS_Subset, FS_CardinalityType
    <3>. QED  BY <3>1, <3>2, <3>3 DEF SetToSeqs
  <2>3. /\ DOMAIN loc' = Call /\ \A d \in Call : d # c => loc'[d] = loc[d]
        /\ TypedLocals(loc'[c])
    BY <1>0, <2>1, <2>2 DEF TypedLocals, NoLocals
  <2>4. "teardown" \in PCs /\ Equipped("teardown", loc'[c])
    BY DEF PCs, Equipped, Guarded
  <2>5. CallsTyped'
    BY <1>0, <1>4, <2>3, <2>4, CallMoves DEF StopOrders
  <2>. QED  BY <1>0, <1>4, <2>5 DEF StopOrders, Typed, GraphTyped, InstancesTyped,
              CoreTyped, core, graph, instances
<1>5. CASE StopFinishes(c)
  <2>1. CallsTyped'
    BY <1>1, <1>5 DEF StopFinishes
  <2>2. GraphTyped'
    BY <1>0, <1>5, TableStepTyped DEF StopFinishes, GraphTyped
  <2>. QED  BY <1>0, <1>5, <2>1, <2>2 DEF StopFinishes, Typed, InstancesTyped, CoreTyped,
              CoreStates, Invalidated, instances
<1>6. CASE StopReturns(c)
  <2>1. CallsTyped'
    BY <1>1, <1>6 DEF StopReturns
  <2>. QED  BY <1>0, <1>6, <2>1 DEF StopReturns, Typed, GraphTyped, InstancesTyped,
              CoreTyped, core, graph, instances
<1>7. CASE StartBegins(c)
  <2>1. CallsTyped'
    BY <1>1, <1>7 DEF StartBegins
  <2>. QED  BY <1>0, <1>7, <2>1 DEF StartBegins, Typed, GraphTyped, InstancesTyped,
              CoreTyped, CoreStates, graph, instances
<1>8. CASE StartRuns(c)
  <2>1. CallsTyped'
    BY <1>1, <1>8 DEF StartRuns
  <2>. QED  BY <1>0, <1>8, <2>1 DEF StartRuns, Typed, GraphTyped, InstancesTyped,
              CoreTyped, CoreStates, graph, instances
<1>9. CASE StartReturns(c)
  <2>1. CallsTyped'
    BY <1>1, <1>9 DEF StartReturns
  <2>. QED  BY <1>0, <1>9, <2>1 DEF StartReturns, Typed, GraphTyped, InstancesTyped,
              CoreTyped, graph, instances
<1>. QED  BY <1>2, <1>3, <1>4, <1>5, <1>6, <1>7, <1>8, <1>9 DEF CoreStep

LEMMA CancelTyped ==
  ASSUME Typed, NEW c \in Call, Cancel(c)
  PROVE  Typed'
<1>0. CallsTyped /\ GraphTyped /\ InstancesTyped /\ CoreTyped
  BY DEF Typed
<1>1. CASE CancelledOutside(c)
  <2>1. CallsTyped'
    BY <1>0, <1>1, CallGoesOn DEF CancelledOutside, PCs, Final, Guarded
  <2>. QED  BY <1>0, <1>1, <2>1 DEF CancelledOutside, Typed, GraphTyped, InstancesTyped,
              CoreTyped, core, graph, instances
<1>2. CASE CancelledInside(c)
  <2>1. CallsTyped'
    BY <1>0, <1>2, CallFinishes DEF CancelledInside, Finish, Final
  <2>2. CoreTyped'
    BY <1>0, <1>2, GuardTyped DEF CancelledInside, Finish
  <2>. QED  BY <1>0, <1>2, <2>1, <2>2 DEF CancelledInside, Typed, GraphTyped,
              InstancesTyped, graph, instances
<1>3. CASE CancelledUnregistering(c)
  BY <1>0, <1>3, DrainTyped DEF CancelledUnregistering, Final, GraphTyped, InstancesTyped,
     instances
<1>4. CASE CancelledInFinally(c)
  <2>1. CallsTyped'
    BY <1>0, <1>4, CallFinishes DEF CancelledInFinally, Final
  <2>. QED  BY <1>0, <1>4, <2>1 DEF CancelledInFinally, Typed, GraphTyped, InstancesTyped,
              CoreTyped, core, graph, instances
<1>. QED  BY <1>1, <1>2, <1>3, <1>4 DEF Cancel

LEMMA InitTyped == Init => Typed
<1>. SUFFICES ASSUME Init PROVE Typed
  OBVIOUS
<1>1. RP!Consistent(registry)
  BY KernelRegistry, RP!InitConsistent DEF Init, RP!Init, R!EmptyRegistry, RP!EmptyRegistry
<1>2. GraphTyped
  BY <1>1 DEF Init, GraphTyped, EmptyTable, Tables
<1>3. TypedLocals(NoLocals)
  BY DEF TypedLocals, NoLocals, Final
<1>4. CallsTyped
  BY <1>3 DEF Init, CallsTyped, PCs, Equipped, Guarded
<1>5. InstancesTyped /\ CoreTyped
  BY DEF Init, InstancesTyped, CoreTyped, CoreStates, PluginId, R!EmptyRegistry
<1>. QED  BY <1>2, <1>4, <1>5 DEF Typed

LEMMA NextTyped == Typed /\ [Next]_vars => Typed'
<1> SUFFICES ASSUME Typed, [Next]_vars PROVE Typed'
  OBVIOUS
<1>1. ASSUME NEW c \in Call, Step(c)  PROVE Typed'
  BY <1>1, RegisterTyped, UnregisterTyped, ReloadTyped, CoreStepTyped DEF Step
<1>2. ASSUME NEW c \in Call, NEW k \in Kinds, NEW caller \in {NoCall} \cup Call,
             NEW own \in OwnTask, Invoke(c, k, caller, own)
      PROVE  Typed'
  BY <1>2, InvokeTyped
<1>3. ASSUME NEW c \in Call, Cancel(c)  PROVE Typed'
  BY <1>3, CancelTyped
<1>4. ASSUME UNCHANGED <<core, active, graph, instances, pc, call, loc>>,
             collection' = collection
               \/ collection' = [dirty |-> FALSE, plugins |-> registry.plugins]
      PROVE  Typed'
  <2>1. registry.plugins \in [PluginId -> Plugin \cup {NoPlugin}]
    BY RegistryTypes DEF Typed, GraphTyped
  <2>2. CallsTyped'
    BY <1>4 DEF Typed, CallsTyped, call
  <2>3. GraphTyped' /\ InstancesTyped'
    BY <1>4 DEF Typed, GraphTyped, InstancesTyped, graph, instances
  <2>4. collection' \in [dirty : BOOLEAN, plugins : [PluginId -> Plugin \cup {NoPlugin}]]
    <3>1. CASE collection' = collection
      BY <3>1 DEF Typed, CoreTyped
    <3>2. CASE collection' = [dirty |-> FALSE, plugins |-> registry.plugins]
      BY <2>1, <3>2
    <3>. QED  BY <1>4, <3>1, <3>2
  <2>5. CoreTyped'
    BY <1>4, <2>4 DEF Typed, CoreTyped, core
  <2>. QED  BY <2>2, <2>3, <2>5 DEF Typed
<1>5. CASE List
  BY <1>4, <1>5 DEF List
<1>6. CASE UNCHANGED vars
  BY <1>4, <1>6 DEF vars
<1>. QED  BY <1>1, <1>2, <1>3, <1>5, <1>6 DEF Next

LEMMA AlwaysTyped == Spec => []Typed
BY InitTyped, NextTyped, PTL DEF Spec

-----------------------------------------------------------------------------
(* The lock.  Within one task a call waits for the call that its callback  *)
(* made, and so on: the calls of a task are a chain, and all but the last  *)
(* of them wait.  The lock admits the calls of one task only.              *)

UnderWay(c) == pc[c] \notin Final \cup {"idle"}

\* c waits for a call of its own task.
Waits(c) == \E d \in Call : parent[d] = c /\ UnderWay(d) /\ task[d] = task[c]

\* Where only stop() is.
InStop == {"stop_hook", "stop_drain", "teardown"}

Chains ==
  /\ \A c \in Call : pc[c] = "idle" => parent[c] = NoCall /\ task[c] = c
  /\ \A c \in Call : pc[c] # "idle" => pc[task[c]] # "idle"
  /\ \A c, d \in Call :
       UnderWay(c) /\ UnderWay(d) /\ ~Waits(c) /\ ~Waits(d) /\ task[c] = task[d] => c = d
  /\ \A c \in Call : pc[c] \in InStop => kind[c] = "stop"

Holders == {c \in Call : InLock(c)}

Counted ==
  /\ lock \in [owner : Call \cup {NoCall}, depth : Nat]
  /\ \A c \in Holders : task[c] = lock.owner
  /\ IsFiniteSet(Holders) /\ lock.depth = Cardinality(Holders)

Locking == Chains /\ Counted

\* A step that suspends c, which nobody keeps waiting, at point.
Suspends(c, point) ==
  /\ UnderWay(c) /\ ~Blocked(c)
  /\ Goto(c, point) /\ point \in PCs \ {"idle"}
  /\ point \in InStop => kind[c] = "stop"
  /\ UNCHANGED call

LEMMA SuspendsKeepsChains ==
  ASSUME CallsTyped, Chains, NEW c \in Call, NEW point, Suspends(c, point)
  PROVE  Chains'
<1>1. /\ pc \in [Call -> PCs] /\ pc' = [pc EXCEPT ![c] = point]
      /\ task \in [Call -> Call] /\ parent \in [Call -> Call \cup {NoCall}]
      /\ task' = task /\ parent' = parent /\ kind' = kind /\ point # "idle"
  BY DEF Suspends, CallsTyped, Goto, call
<1>2. /\ \A d \in Call : d # c => (UnderWay(d)' <=> UnderWay(d))
      /\ UnderWay(c)
  BY <1>1 DEF UnderWay, Suspends
<1>3. ~Waits(c)
  BY DEF Suspends, Blocked, Waits, UnderWay
<1>4. \A e \in Call : ~Waits(e)' => ~Waits(e) \/ (parent[c] = e /\ task[c] = task[e])
  BY <1>1, <1>2 DEF Waits
<1>5. ASSUME NEW d \in Call, NEW e \in Call, UnderWay(d)', UnderWay(e)',
             ~Waits(d)', ~Waits(e)', task[d] = task[e]
      PROVE  d = e
  <2>1. UnderWay(d) /\ UnderWay(e)
    BY <1>2, <1>5
  <2>2. CASE ~Waits(d) /\ ~Waits(e)
    BY <1>5, <2>1, <2>2 DEF Chains
  \* What c leaves waiting no more is its caller; c was the end of the chain.
  <2>3. CASE Waits(d) /\ Waits(e)
    BY <1>4, <1>5, <2>3
  <2>4. CASE Waits(d) /\ ~Waits(e)
    <3>1. parent[c] = d /\ task[c] = task[d]
      BY <1>4, <1>5, <2>4
    <3>2. e = c
      BY <1>2, <1>3, <1>5, <2>1, <2>4, <3>1 DEF Chains
    <3>. QED  BY <1>1, <1>5, <3>1, <3>2 DEF Waits
  <2>5. CASE ~Waits(d) /\ Waits(e)
    <3>1. parent[c] = e /\ task[c] = task[e]
      BY <1>4, <1>5, <2>5
    <3>2. d = c
      BY <1>2, <1>3, <1>5, <2>1, <2>5, <3>1 DEF Chains
    <3>. QED  BY <1>1, <1>5, <3>1, <3>2 DEF Waits
  <2>. QED  BY <2>2, <2>3, <2>4, <2>5
<1>6. \A d \in Call : pc'[d] = "idle" => pc[d] = "idle"
  BY <1>1
<1>7. \A d \in Call : pc'[d] # "idle" => pc[d] # "idle"
  BY <1>1 DEF Suspends, UnderWay
<1>8. \A d \in Call : pc'[d] \in InStop => kind[d] = "stop"
  BY <1>1 DEF Chains, Suspends
<1>9. \A d \in Call : pc'[d] # "idle" => pc'[task[d]] # "idle"
  BY <1>1, <1>6, <1>7 DEF Chains
<1>. QED  BY <1>1, <1>5, <1>6, <1>8, <1>9 DEF Chains

\* A call of stop(), or one that stays inside or outside, leaves the lock.
LEMMA LeavesLockAlone ==
  ASSUME CallsTyped, Locking, NEW c \in Call, NEW point, Suspends(c, point), lock' = lock,
         kind[c] = "stop" \/ (pc[c] \in Guarded <=> point \in Guarded)
  PROVE  Locking'
<1>1. Holders' = Holders /\ task' = task
  BY DEF Suspends, CallsTyped, Goto, call, Holders, InLock, InGuard
<1>2. Counted'
  BY <1>1 DEF Locking, Counted
<1>. QED  BY <1>2, SuspendsKeepsChains DEF Locking

LEMMA TakesLock ==
  ASSUME CallsTyped, Locking, NEW c \in Call, NEW point \in Guarded, Suspends(c, point),
         CanLock(c), Lock(c), pc[c] \notin Guarded, kind[c] # "stop"
  PROVE  Locking'
<1>1. Holders' = Holders \cup {c} /\ c \notin Holders /\ task' = task
  BY DEF Suspends, CallsTyped, Goto, call, Holders, InLock, InGuard
<1>2. IsFiniteSet(Holders') /\ Cardinality(Holders') = Cardinality(Holders) + 1
  BY <1>1, FS_AddElement DEF Locking, Counted
<1>3. /\ lock \in [owner : Call \cup {NoCall}, depth : Nat]
      /\ lock' = [owner |-> task[c], depth |-> lock.depth + 1]
      /\ task[c] \in Call
  BY DEF Locking, Counted, Lock, CallsTyped
<1>4. \A d \in Holders' : task'[d] = lock'.owner
  <2>1. CASE lock.depth = 0
    <3>1. Holders = {}
      BY <2>1, FS_EmptySet DEF Locking, Counted
    <3>. QED  BY <1>1, <1>3, <3>1
  <2>2. CASE lock.owner = task[c]
    BY <1>1, <1>3, <2>2 DEF Locking, Counted
  <2>. QED  BY <2>1, <2>2 DEF CanLock
<1>5. Counted'
  BY <1>2, <1>3, <1>4 DEF Locking, Counted
<1>. QED  BY <1>5, SuspendsKeepsChains DEF Locking

LEMMA LeavesLock ==
  ASSUME CallsTyped, Locking, NEW c \in Call, NEW outcome \in Final,
         UnderWay(c), ~Blocked(c), UNCHANGED call, pc[c] \in Guarded, LeaveLock(c, outcome)
  PROVE  Locking'
<1>1. CASE kind[c] = "stop"
  <2>1. PICK point \in Final \cup {"teardown"} : Goto(c, point)
    BY <1>1 DEF LeaveLock, Final
  <2>2. Suspends(c, point)
    BY <1>1, <2>1 DEF Suspends, PCs, Final
  <2>. QED  BY <1>1, <2>2, LeavesLockAlone DEF LeaveLock
<1>2. CASE kind[c] # "stop"
  <2>1. Suspends(c, outcome) /\ outcome \notin Guarded /\ Unlock(c)
    BY <1>2 DEF LeaveLock, Suspends, PCs, Final, InStop, Guarded
  <2>2. Holders' = Holders \ {c} /\ c \in Holders /\ task' = task
    BY <1>2, <2>1 DEF Suspends, CallsTyped, Goto, call, Holders, InLock, InGuard
  <2>3. /\ IsFiniteSet(Holders') /\ Cardinality(Holders') = Cardinality(Holders) - 1
        /\ Cardinality(Holders) \in Nat /\ Cardinality(Holders') \in Nat
    BY <2>2, FS_RemoveElement, FS_CardinalityType DEF Locking, Counted
  <2>4. CASE lock.depth = 1
    <3>1. lock' = [owner |-> NoCall, depth |-> 0] /\ Cardinality(Holders') = 0
      BY <2>1, <2>3, <2>4 DEF Unlock, Free, Locking, Counted
    <3>2. Holders' = {}
      BY <2>3, <3>1, FS_EmptySet
    <3>3. Counted'
      BY <2>3, <3>1, <3>2 DEF Counted
    <3>. QED  BY <2>1, <3>3, SuspendsKeepsChains DEF Locking
  <2>5. CASE lock.depth # 1
    <3>1. /\ lock \in [owner : Call \cup {NoCall}, depth : Nat]
          /\ lock' = [lock EXCEPT !.depth = lock.depth - 1]
          /\ lock.depth = Cardinality(Holders)
      BY <2>1, <2>5 DEF Unlock, Locking, Counted
    <3>2. lock'.owner = lock.owner /\ lock'.depth = Cardinality(Holders')
      BY <2>3, <3>1
    <3>3. lock' \in [owner : Call \cup {NoCall}, depth : Nat]
      BY <2>3, <3>1, <3>2
    <3>4. \A d \in Holders' : task'[d] = lock'.owner
      BY <2>2, <3>2 DEF Locking, Counted
    <3>5. Counted'
      BY <2>3, <3>2, <3>3, <3>4 DEF Counted
    <3>. QED  BY <2>1, <3>5, SuspendsKeepsChains DEF Locking
  <2>. QED  BY <2>4, <2>5
<1>. QED  BY <1>1, <1>2

LEMMA RefusedOutsideLock ==
  ASSUME CallsTyped, Locking, NEW c \in Call, NEW outcome \in Final,
         UnderWay(c), ~Blocked(c), UNCHANGED call, pc[c] \notin Guarded, Refuse(c, outcome)
  PROVE  Locking'
<1>1. PICK point \in Final \cup {"teardown"} :
        Goto(c, point) /\ (point = "teardown" => kind[c] = "stop")
  BY DEF Refuse, Final
<1>2. Suspends(c, point) /\ point \notin Guarded
  BY <1>1 DEF Suspends, PCs, Final, InStop, Guarded
<1>. QED  BY <1>2, LeavesLockAlone DEF Refuse

LEMMA DrainsInLock ==
  ASSUME CallsTyped, Locking, NEW c \in Call, NEW outcome \in Final,
         UnderWay(c), ~Blocked(c), UNCHANGED call, pc[c] \in Guarded, DrainFinally(c, outcome)
  PROVE  Locking'
<1>1. CASE Finish(c, outcome)
  BY <1>1, LeavesLock DEF Finish
<1>2. CASE Goto(c, "final_drain") /\ lock' = lock
  <2>1. Suspends(c, "final_drain") /\ "final_drain" \in Guarded
    BY <1>2 DEF Suspends, PCs, InStop, Guarded
  <2>. QED  BY <1>2, <2>1, LeavesLockAlone
<1>. QED  BY <1>1, <1>2 DEF DrainFinally

LEMMA InvokeLocking ==
  ASSUME CallsTyped, Locking, NEW c \in Call, NEW k \in Kinds,
         NEW caller \in {NoCall} \cup Call, NEW own \in OwnTask, Invoke(c, k, caller, own)
  PROVE  Locking'
<1> DEFINE point == CASE k \in {"start", "stop"} -> "called"
                      [] k = "load" /\ state # "RUNNING" -> "raised"
                      [] OTHER -> "await_lock"
           t == IF caller = NoCall \/ own THEN c ELSE task[caller]
<1>1. point \in PCs \ {"idle"} /\ point \notin Guarded /\ point \notin InStop
  BY DEF PCs, Guarded, Final, InStop
<1>2. /\ pc \in [Call -> PCs] /\ pc[c] = "idle" /\ pc' = [pc EXCEPT ![c] = point]
      /\ kind' = [kind EXCEPT ![c] = k] /\ kind \in [Call -> Operations \cup {"none"}]
      /\ parent' = [parent EXCEPT ![c] = caller] /\ parent \in [Call -> Call \cup {NoCall}]
      /\ task' = [task EXCEPT ![c] = t] /\ task \in [Call -> Call]
      /\ lock' = lock
  BY DEF Invoke, Goto, CallsTyped
<1>. HIDE DEF point
<1>3. ASSUME caller # NoCall
      PROVE  caller \in Call /\ UnderWay(caller) /\ ~Blocked(caller) /\ caller # c
  BY <1>2, <1>3, LifecycleAssumption DEF Invoke, UnderWay, Callbacks, Final
<1>4. /\ t \in Call
      /\ t = c \/ (caller \in Call /\ t = task[caller] /\ UnderWay(caller)
                    /\ ~Blocked(caller) /\ caller # c)
  BY <1>2, <1>3
<1>. HIDE DEF t
<1>5. Counted'
  <2>1. Holders' = Holders /\ c \notin Holders
    BY <1>1, <1>2 DEF Holders, InLock, InGuard, Guarded
  <2>2. \A d \in Holders : task'[d] = task[d]
    BY <1>2, <2>1 DEF Holders
  <2>. QED  BY <1>2, <2>1, <2>2 DEF Locking, Counted
<1>6. \A d \in Call : pc[d] # "idle" => task[d] # c /\ d # c
  BY <1>2 DEF Locking, Chains
<1>7. \A d \in Call : pc'[d] = "idle" => parent'[d] = NoCall /\ task'[d] = d
  BY <1>1, <1>2 DEF Locking, Chains
<1>8. \A d \in Call : pc'[d] # "idle" => pc'[task'[d]] # "idle"
  BY <1>1, <1>2, <1>4 DEF Locking, Chains, UnderWay
<1>9. \A d \in Call : pc'[d] \in InStop => kind'[d] = "stop"
  BY <1>1, <1>2 DEF Locking, Chains
<1>10. \A d \in Call : d # c /\ UnderWay(d)' => UnderWay(d) /\ task'[d] = task[d] /\ task[d] # c
  BY <1>2, <1>6 DEF UnderWay
<1>11. \A d \in Call : d # c /\ Waits(d) => Waits(d)'
  BY <1>2, <1>6 DEF Waits, UnderWay
<1>12. ASSUME NEW d \in Call, UnderWay(d)', ~Waits(d)', task'[d] = task'[c], UnderWay(c)'
       PROVE  d = c
  <2>1. SUFFICES ASSUME d # c PROVE FALSE
    OBVIOUS
  <2>2. /\ UnderWay(d) /\ ~Waits(d) /\ task[d] = t /\ t # c
        /\ UnderWay(caller) /\ ~Waits(caller) /\ caller \in Call /\ t = task[caller]
    BY <1>2, <1>4, <1>10, <1>11, <1>12, <2>1 DEF Blocked, Waits, UnderWay
  <2>3. d = caller
    BY <2>2 DEF Locking, Chains
  <2>4. parent'[c] = d /\ task'[c] = task'[d]
    BY <1>2, <1>12, <2>3
  <2>. QED  BY <1>12, <2>4 DEF Waits
<1>13. ASSUME NEW d \in Call, NEW e \in Call, UnderWay(d)', UnderWay(e)',
              ~Waits(d)', ~Waits(e)', task'[d] = task'[e]
       PROVE  d = e
  <2>1. CASE d # c /\ e # c
    BY <1>10, <1>11, <1>13, <2>1 DEF Locking, Chains
  <2>. QED  BY <1>12, <1>13, <2>1
<1>14. Chains'
  BY <1>7, <1>8, <1>9, <1>13 DEF Chains
<1>. QED  BY <1>5, <1>14 DEF Locking

LEMMA GoesOnInLock ==
  ASSUME CallsTyped, Locking, NEW c \in Call, ~Blocked(c), UNCHANGED call, lock' = lock,
         pc[c] \in Guarded, NEW point \in Guarded, Goto(c, point)
  PROVE  Locking'
<1>1. Suspends(c, point)
  BY DEF Suspends, UnderWay, Final, PCs, InStop, Guarded
<1>. QED  BY <1>1, LeavesLockAlone

LEMMA RegisterLocking ==
  ASSUME CallsTyped, Locking, NEW c \in Call, ~Blocked(c), RegisterStep(c)
  PROVE  Locking'
<1>0. CallsTyped /\ Locking /\ ~Blocked(c)
  OBVIOUS
<1>1. ASSUME NEW p \in Plugin, RegisterRejected(c, p) \/ RegisterRefused(c, p)
      PROVE  Locking'
  BY <1>0, <1>1, RefusedOutsideLock DEF RegisterRejected, RegisterRefused, AboutToRegister,
     UnderWay, Final, Guarded
<1>2. ASSUME NEW p \in Plugin, RegisterStart(c, p)  PROVE Locking'
  <2>1. /\ pc[c] = "await_lock" /\ CanLock(c) /\ Lock(c) /\ UNCHANGED call
        /\ kind[c] # "stop"
    BY <1>2 DEF RegisterStart, AboutToRegister
  <2>2. PICK point \in {"rollback", "hook_registered", "on_start"} : Goto(c, point)
    BY <1>2 DEF RegisterStart
  <2>3. Suspends(c, point) /\ point \in Guarded /\ pc[c] \notin Guarded
    BY <1>0, <2>1, <2>2 DEF Suspends, UnderWay, Final, PCs, InStop, Guarded
  <2>. QED  BY <1>0, <2>1, <2>3, TakesLock
<1>3. CASE OnStartReturns(c)
  BY <1>0, <1>3, GoesOnInLock DEF OnStartReturns, Guarded
<1>4. CASE OnStartRaises(c)
  BY <1>0, <1>4, GoesOnInLock DEF OnStartRaises, Guarded
<1>5. CASE RegisterRolledBack(c)
  BY <1>0, <1>5, LeavesLock DEF RegisterRolledBack, Finish, UnderWay, Final, Guarded
<1>6. CASE RegisterReturns(c)
  BY <1>0, <1>6, LeavesLock DEF RegisterReturns, Finish, UnderWay, Final, Guarded
<1>. QED  BY <1>1, <1>2, <1>3, <1>4, <1>5, <1>6 DEF RegisterStep

LEMMA UnregisterLocking ==
  ASSUME CallsTyped, Locking, NEW c \in Call, ~Blocked(c), UnregisterStep(c)
  PROVE  Locking'
<1>0. CallsTyped /\ Locking /\ ~Blocked(c)
  OBVIOUS
<1>1. ASSUME NEW id \in PluginId, UnregisterRefused(c, id)  PROVE Locking'
  <2>1. UnderWay(c) /\ pc[c] \notin Guarded /\ UNCHANGED call
    BY <1>1 DEF UnregisterRefused, AboutToUnregister, UnderWay, Final, Guarded
  <2>2. PICK outcome \in Final : Refuse(c, outcome)
    BY <1>1 DEF UnregisterRefused, Final
  <2>. QED  BY <1>0, <2>1, <2>2, RefusedOutsideLock
<1>2. ASSUME NEW id \in PluginId, UnregisterStart(c, id)  PROVE Locking'
  <2>1. UnderWay(c) /\ pc[c] \notin Guarded /\ UNCHANGED call
    BY <1>2 DEF UnregisterStart, AboutToUnregister, UnderWay, Final, Guarded
  <2>2. PICK point \in {"on_stop", "hook_unregistered"} : Goto(c, point)
    BY <1>2 DEF UnregisterStart
  <2>3. Suspends(c, point) /\ point \in Guarded
    BY <1>0, <2>1, <2>2 DEF Suspends, PCs, InStop, Guarded
  <2>4. CASE kind[c] = "stop"
    BY <1>0, <1>2, <2>3, <2>4, LeavesLockAlone DEF UnregisterStart
  <2>5. CASE kind[c] # "stop"
    <3>1. pc[c] # "teardown"
      BY <1>0, <2>5 DEF Locking, Chains, InStop
    <3>2. CanLock(c) /\ Lock(c)
      BY <1>2, <2>5, <3>1 DEF UnregisterStart, AboutToUnregister
    <3>. QED  BY <1>0, <2>1, <2>3, <2>5, <3>2, TakesLock
  <2>. QED  BY <2>4, <2>5
<1>3. CASE OnStopEnds(c)
  BY <1>0, <1>3, GoesOnInLock DEF OnStopEnds, Guarded
<1>4. CASE StopEnds(c)
  BY <1>0, <1>4, GoesOnInLock DEF StopEnds, Guarded
<1>5. CASE StopEndsWithDependents(c)
  BY <1>0, <1>5, DrainsInLock DEF StopEndsWithDependents, UnderWay, Final, Guarded
<1>6. CASE UnregisterReturns(c)
  BY <1>0, <1>6, DrainsInLock DEF UnregisterReturns, UnderWay, Final, Guarded
<1>7. CASE FinalDrainEnds(c)
  <2>1. loc[c].ends \in Final
    BY <1>0 DEF CallsTyped, TypedLocals
  <2>. QED  BY <1>0, <1>7, <2>1, LeavesLock DEF FinalDrainEnds, Finish, UnderWay, Final, Guarded
<1>. QED  BY <1>1, <1>2, <1>3, <1>4, <1>5, <1>6, <1>7 DEF UnregisterStep

LEMMA ReloadLocking ==
  ASSUME CallsTyped, Locking, NEW c \in Call, ~Blocked(c), ReloadStep(c)
  PROVE  Locking'
<1>0. CallsTyped /\ Locking /\ ~Blocked(c)
  OBVIOUS
<1>1. ASSUME NEW p \in Plugin, NEW id \in PluginId, ReloadRefused(c, p, id)
      PROVE  Locking'
  BY <1>0, <1>1, RefusedOutsideLock DEF ReloadRefused, AboutToReload, UnderWay, Final, Guarded
<1>2. ASSUME NEW p \in Plugin, NEW id \in PluginId, ReloadStart(c, p, id)
      PROVE  Locking'
  <2>1. /\ pc[c] = "await_lock" /\ CanLock(c) /\ Lock(c) /\ UNCHANGED call
        /\ kind[c] # "stop" /\ Goto(c, "get_state")
    BY <1>2 DEF ReloadStart, AboutToReload
  <2>2. Suspends(c, "get_state") /\ "get_state" \in Guarded /\ pc[c] \notin Guarded
    BY <1>0, <2>1 DEF Suspends, UnderWay, Final, PCs, InStop, Guarded
  <2>. QED  BY <1>0, <2>1, <2>2, TakesLock
<1>3. CASE GetStateRaises(c)
  BY <1>0, <1>3, LeavesLock DEF GetStateRaises, Finish, UnderWay, Final, Guarded
<1>4. CASE GetStateReturns(c)
  BY <1>0, <1>4, GoesOnInLock DEF GetStateReturns, Guarded
<1>5. CASE ReloadOnStartRaises(c)
  BY <1>0, <1>5, GoesOnInLock DEF ReloadOnStartRaises, Guarded
<1>6. CASE ReloadOnStartReturns(c)
  BY <1>0, <1>6, GoesOnInLock DEF ReloadOnStartReturns, Guarded
<1>7. CASE SwapRaises(c)
  BY <1>0, <1>7, GoesOnInLock DEF SwapRaises, Guarded
<1>8. CASE RestoreStateRaises(c)
  BY <1>0, <1>8, GoesOnInLock DEF RestoreStateRaises, Guarded
<1>9. CASE RestoreStateReturns(c)
  BY <1>0, <1>9, GoesOnInLock DEF RestoreStateReturns, Guarded
<1>10. CASE ReloadRolledBack(c)
  BY <1>0, <1>10, LeavesLock DEF ReloadRolledBack, Finish, UnderWay, Final, Guarded
<1>11. CASE OldOnStopEnds(c)
  BY <1>0, <1>11, GoesOnInLock DEF OldOnStopEnds, Guarded
<1>12. CASE ReloadReturns(c)
  BY <1>0, <1>12, LeavesLock DEF ReloadReturns, Finish, UnderWay, Final, Guarded
<1>. QED  BY <1>1, <1>2, <1>3, <1>4, <1>5, <1>6, <1>7, <1>8, <1>9, <1>10, <1>11, <1>12
          DEF ReloadStep

LEMMA CoreLocking ==
  ASSUME CallsTyped, Locking, NEW c \in Call, ~Blocked(c), CoreStep(c), state \in CoreStates
  PROVE  Locking'
<1> DEFINE Outside == {"returned", "raised", "stopped_hook", "stop_drain", "stop_hook",
                       "teardown", "init_hook", "run_hook"}
<1>0. CallsTyped /\ Locking /\ ~Blocked(c)
  OBVIOUS
<1>1. ASSUME NEW point \in Outside, Goto(c, point), UNCHANGED call, lock' = lock,
             pc[c] \in {"called", "stop_hook", "stop_drain", "teardown", "stopped_hook",
                        "init_hook", "run_hook"},
             point \in InStop => kind[c] = "stop" \/ pc[c] \in InStop
      PROVE  Locking'
  <2>1. pc[c] \in InStop => kind[c] = "stop"
    BY <1>0 DEF Locking, Chains
  <2>2. Suspends(c, point) /\ point \notin Guarded /\ pc[c] \notin Guarded
    BY <1>0, <1>1, <2>1 DEF Suspends, UnderWay, PCs, Final, Guarded
  <2>. QED  BY <1>0, <1>1, <2>2, LeavesLockAlone
<1>2. CASE StopBegins(c)
  <2>1. state \in {"INITIALIZED", "RUNNING", "STOPPING", "STOPPED", "FAILED"}
    BY DEF CoreStates
  <2>2. \E point \in Outside : Goto(c, point)
    BY <1>2, <2>1 DEF StopBegins
  <2>. QED  BY <1>1, <1>2, <2>2 DEF StopBegins
<1>3. CASE StopDrains(c)
  BY <1>0, <1>3, <1>1 DEF StopDrains, InStop
<1>4. CASE StopOrders(c)
  BY <1>0, <1>4, <1>1 DEF StopOrders, InStop
<1>5. CASE StopFinishes(c)
  BY <1>0, <1>5, <1>1 DEF StopFinishes, InStop
<1>6. CASE StopReturns(c)
  BY <1>0, <1>6, <1>1 DEF StopReturns, InStop
<1>7. CASE StartBegins(c)
  <2>1. PICK point \in {"init_hook", "run_hook", "raised"} : Goto(c, point)
    BY <1>7 DEF StartBegins
  <2>. QED  BY <1>1, <1>7, <2>1 DEF StartBegins, InStop
<1>8. CASE StartRuns(c)
  BY <1>0, <1>8, <1>1 DEF StartRuns, InStop
<1>9. CASE StartReturns(c)
  BY <1>0, <1>9, <1>1 DEF StartReturns, InStop
<1>. QED  BY <1>2, <1>3, <1>4, <1>5, <1>6, <1>7, <1>8, <1>9 DEF CoreStep

LEMMA CancelLocking ==
  ASSUME CallsTyped, Locking, NEW c \in Call, Cancel(c)
  PROVE  Locking'
<1>0. CallsTyped /\ Locking /\ ~Blocked(c)
  BY DEF Cancel
<1>1. CASE CancelledOutside(c)
  <2>1. Suspends(c, "cancelled") /\ "cancelled" \notin Guarded /\ pc[c] \notin Guarded
    BY <1>0, <1>1 DEF CancelledOutside, Suspends, UnderWay, PCs, Final, InStop, Guarded
  <2>. QED  BY <1>0, <1>1, <2>1, LeavesLockAlone DEF CancelledOutside
<1>2. CASE CancelledInside(c)
  BY <1>0, <1>2, LeavesLock DEF CancelledInside, Finish, UnderWay, Final, Guarded
<1>3. CASE CancelledUnregistering(c)
  BY <1>0, <1>3, DrainsInLock DEF CancelledUnregistering, UnderWay, Final, Guarded
<1>4. CASE CancelledInFinally(c)
  BY <1>0, <1>4, LeavesLock DEF CancelledInFinally, UnderWay, Final, Guarded
<1>. QED  BY <1>1, <1>2, <1>3, <1>4 DEF Cancel

LEMMA InitLocking == Init => Locking
<1>. SUFFICES ASSUME Init PROVE Locking
  OBVIOUS
<1>1. Holders = {}
  BY DEF Init, Holders, InLock, InGuard, Guarded
<1>2. Counted
  BY <1>1, FS_EmptySet DEF Init, Counted, Free
<1>3. Chains
  BY DEF Init, Chains, UnderWay, InStop
<1>. QED  BY <1>2, <1>3 DEF Locking

LEMMA NextLocking == Typed /\ Locking /\ [Next]_vars => Locking'
<1> SUFFICES ASSUME Typed, Locking, [Next]_vars PROVE Locking'
  OBVIOUS
<1>0. CallsTyped /\ state \in CoreStates
  BY DEF Typed, CoreTyped
<1>1. ASSUME NEW c \in Call, Step(c)  PROVE Locking'
  BY <1>0, <1>1, RegisterLocking, UnregisterLocking, ReloadLocking, CoreLocking DEF Step
<1>2. ASSUME NEW c \in Call, NEW k \in Kinds, NEW caller \in {NoCall} \cup Call,
             NEW own \in OwnTask, Invoke(c, k, caller, own)
      PROVE  Locking'
  BY <1>0, <1>2, InvokeLocking
<1>3. ASSUME NEW c \in Call, Cancel(c)  PROVE Locking'
  BY <1>0, <1>3, CancelLocking
<1>4. ASSUME UNCHANGED <<lock, pc, call>>  PROVE Locking'
  <2>1. Holders' = Holders
    BY <1>4 DEF Holders, InLock, InGuard, call
  <2>2. Counted'
    BY <1>4, <2>1 DEF Locking, Counted, call
  <2>3. Chains'
    BY <1>4 DEF Locking, Chains, UnderWay, Waits, call
  <2>. QED  BY <2>2, <2>3 DEF Locking
<1>5. CASE List
  BY <1>4, <1>5 DEF List
<1>6. CASE UNCHANGED vars
  BY <1>4, <1>6 DEF vars
<1>. QED  BY <1>1, <1>2, <1>3, <1>5, <1>6 DEF Next

LEMMA AlwaysLocking == Spec => []Locking
BY InitLocking, NextLocking, AlwaysTyped, PTL DEF Spec

\* Whatever is invoked, from which callback and in which task, cancelled at
\* whichever point: the lifecycle lock holds one operation at a time and those
\* that wait for it, in one task, and is free when none is inside.
THEOREM LocksSerialize == Spec => []Serialized
<1>1. ASSUME Locking PROVE Serialized
  <2>1. ASSUME NEW c \in Call, NEW d \in Call, InLock(c), InLock(d), ~Blocked(c), ~Blocked(d)
        PROVE  c = d
    <3>1. UnderWay(c) /\ UnderWay(d)
      BY <2>1 DEF InLock, InGuard, UnderWay, Final, Guarded
    <3>2. task[c] = task[d]
      BY <1>1, <2>1 DEF Locking, Counted, Holders
    <3>3. ~Waits(c) /\ ~Waits(d)
      BY <2>1 DEF Waits, Blocked, UnderWay
    <3>. QED  BY <1>1, <3>1, <3>2, <3>3 DEF Locking, Chains
  <2>. QED  BY <1>1, <2>1 DEF Locking, Counted, Holders, Serialized
<1>. QED  BY <1>1, AlwaysLocking, PTL

\* Every variable of the kernel keeps its type, for any number of calls and
\* plugins; the depth of the lock is a number because whoever releases it has
\* taken it.
THEOREM LifecycleTyped == Spec => []TypeOK
<1>1. Typed /\ Locking => TypeOK
  BY DEF Typed, CallsTyped, GraphTyped, InstancesTyped, CoreTyped, Locking, Counted,
     TypeOK, R!TypeOK, RP!Consistent, RP!Registries, R!Registries, RP!Graph, R!Graph
<1>. QED  BY <1>1, AlwaysTyped, AlwaysLocking, PTL


-----------------------------------------------------------------------------
(* The kernel implements the registry. *)

\* What the operations do to the registry is what the registry offers.
LEMMA RegistryOffers ==
  ASSUME NEW id \in PluginId
  PROVE  /\ id \in Registered /\ registry' = R!Removed(registry, id) => R!Next
         /\ \A p \in Plugin, deps \in SUBSET PluginId :
              /\ /\ R!CanAdd(registry, id, p, deps)
                 /\ registry' = R!Added(registry, id, p, deps)
                 => R!Next
              /\ registry' = R!SwapAttempted(registry, id, p, deps) => R!Next
<1>1. ASSUME id \in Registered, registry' = R!Removed(registry, id)  PROVE R!Next
  <2>1. R!RemovePlugin(id, TRUE)
    BY <1>1 DEF R!RemovePlugin, R!CanRemove, Registered
  <2>. QED  BY <2>1 DEF R!Next
<1>2. ASSUME NEW p \in Plugin, NEW deps \in SUBSET PluginId,
             R!CanAdd(registry, id, p, deps), registry' = R!Added(registry, id, p, deps)
      PROVE  R!Next
  BY <1>2 DEF R!Next, R!Add
<1>3. ASSUME NEW p \in Plugin, NEW deps \in SUBSET PluginId,
             registry' = R!SwapAttempted(registry, id, p, deps)
      PROVE  R!Next
  BY <1>3 DEF R!Next, R!SwapInstance
<1>. QED  BY <1>1, <1>2, <1>3

LEMMA SwapRaisesOffered ==
  ASSUME Typed, NEW c \in Call, SwapRaises(c)
  PROVE  R!Next \/ UNCHANGED registry
<1> DEFINE id == loc[c].id
           p == loc[c].plug
           old == loc[c].old
           new == loc[c].newDeps
           olds == loc[c].oldDeps
<1>1. /\ id \in PluginId /\ p \in Plugin /\ old \in Plugin
      /\ new \in SUBSET PluginId /\ olds \in SUBSET PluginId
  BY DEF SwapRaises, Typed, CallsTyped, Equipped, TypedLocals, Guarded
<1>2. CASE ~R!CanSwap(registry, id, p, new)
  <2>1. registry' = R!SwapAttempted(registry, id, p, new)
    BY <1>2 DEF SwapRaises, Swapped
  <2>. QED  BY <1>1, <2>1, RegistryOffers
<1>3. CASE R!CanSwap(registry, id, p, new)
  <2> DEFINE s == RP!SwapAttempted(registry, id, p, new)
  <2>1. registry' = R!SwapAttempted(R!SwapAttempted(registry, id, p, new), id, old, olds)
    BY <1>3 DEF SwapRaises, Swapped, SwappedBack
  <2>2. registry' = RP!SwapAttempted(s, id, old, olds)
    BY <2>1, RegistryOperators
  <2>3. RP!CanSwap(registry, id, p, new)
    BY <1>3 DEF R!CanSwap, RP!CanSwap, R!Members, RP!Members, R!CanReplaceEdges,
                RP!CanReplaceEdges, R!ClosesCycle, RP!ClosesCycle, R!Detached, RP!Detached
  <2>4. RP!Consistent(registry)
    BY DEF Typed, GraphTyped
  <2>5. RP!SwapAttempted(s, id, old, olds) \in {s, RP!SwapAttempted(registry, id, old, olds)}
    BY <1>1, <2>3, <2>4, KernelRegistry, RP!SwapAndBack
  <2>6. \/ registry' = R!SwapAttempted(registry, id, p, new)
        \/ registry' = R!SwapAttempted(registry, id, old, olds)
    BY <2>2, <2>5, RegistryOperators
  <2>. HIDE DEF s
  <2>. QED  BY <1>1, <2>6, RegistryOffers
<1>. QED  BY <1>2, <1>3

LEMMA StepOffered ==
  ASSUME Typed, NEW c \in Call, Step(c)
  PROVE  R!Next \/ UNCHANGED registry
<1>0. /\ CallsTyped /\ GraphTyped /\ InstancesTyped /\ CoreTyped
      /\ DOMAIN loc = Call /\ TypedLocals(loc[c]) /\ Equipped(pc[c], loc[c])
  BY DEF Typed, CallsTyped
<1>1. ASSUME NEW p \in Plugin, RegisterStart(c, p)  PROVE R!Next
  <2>1. idOf[p] \in PluginId
    BY <1>0 DEF InstancesTyped
  <2>2. NewEdges(p) \in SUBSET PluginId
    BY <1>0, <1>1, NewEdgesTyped DEF RegisterStart, Admissible, Admits
  <2>. QED  BY <1>1, <2>1, <2>2, RegistryOffers DEF RegisterStart
<1>2. CASE RegisterStep(c)
  <2>1. CASE RegisterRolledBack(c)
    BY <1>0, <2>1, RegistryOffers DEF RegisterRolledBack, Equipped, Guarded
  <2>2. CASE ~RegisterRolledBack(c) /\ ~\E p \in Plugin : RegisterStart(c, p)
    BY <1>2, <2>2 DEF RegisterStep, RegisterRejected, RegisterRefused, OnStartReturns,
                      OnStartRaises, RegisterReturns, graph
  <2>. QED  BY <1>1, <2>1, <2>2
<1>3. CASE UnregisterStep(c)
  <2>1. ASSUME NEW id \in PluginId, UnregisterStart(c, id)
        PROVE  R!Next \/ UNCHANGED registry
    BY <2>1, RegistryOffers DEF UnregisterStart
  <2>2. CASE StopEnds(c) \/ StopEndsWithDependents(c)
    BY <1>0, <2>2, RegistryOffers DEF StopEnds, StopEndsWithDependents, R!CanRemove,
           Registered, Equipped, Guarded
  <2>3. CASE /\ ~StopEnds(c) /\ ~StopEndsWithDependents(c)
             /\ ~\E id \in PluginId : UnregisterStart(c, id)
    BY <1>3, <2>3 DEF UnregisterStep, UnregisterRefused, OnStopEnds, UnregisterReturns,
                      FinalDrainEnds, graph
  <2>. QED  BY <2>1, <2>2, <2>3
<1>4. CASE ReloadStep(c)
  <2>1. CASE ReloadOnStartReturns(c)
    BY <1>0, <2>1, RegistryOffers DEF ReloadOnStartReturns, Swapped, Equipped, TypedLocals,
           Guarded
  <2>2. CASE RestoreStateRaises(c)
    BY <1>0, <2>2, RegistryOffers DEF RestoreStateRaises, SwappedBack, Equipped, TypedLocals,
           Guarded
  <2>3. CASE SwapRaises(c)
    BY <2>3, SwapRaisesOffered
  <2>4. CASE ~ReloadOnStartReturns(c) /\ ~RestoreStateRaises(c) /\ ~SwapRaises(c)
    BY <1>4, <2>4 DEF ReloadStep, ReloadRefused, ReloadStart, GetStateRaises, GetStateReturns,
           ReloadOnStartRaises, RestoreStateReturns, ReloadRolledBack, OldOnStopEnds,
           ReloadReturns, graph
  <2>. QED  BY <2>1, <2>2, <2>3, <2>4
<1>5. CASE CoreStep(c)
  BY <1>5 DEF CoreStep, StopBegins, StopDrains, StopOrders, StopFinishes, StopReturns,
              StartBegins, StartRuns, StartReturns, graph
<1>. QED  BY <1>2, <1>3, <1>4, <1>5 DEF Step

LEMMA NextOffered == Typed /\ [Next]_vars => [R!Next]_registry
<1> SUFFICES ASSUME Typed, [Next]_vars PROVE R!Next \/ UNCHANGED registry
  OBVIOUS
<1>1. CASE \E c \in Call : Step(c)
  BY <1>1, StepOffered
<1>2. CASE \E c \in Call : Cancel(c)
  BY <1>2 DEF Cancel, CancelledOutside, CancelledInside, CancelledUnregistering,
              CancelledInFinally, graph
<1>3. CASE \E c \in Call, k \in Kinds, caller \in {NoCall} \cup Call, own \in OwnTask :
             Invoke(c, k, caller, own)
  BY <1>3 DEF Invoke, graph
<1>4. CASE List \/ UNCHANGED vars
  BY <1>4 DEF List, vars, graph
<1>. QED  BY <1>1, <1>2, <1>3, <1>4 DEF Next

\* Whatever the kernel does to the registry, in whichever order its operations
\* interleave and are cancelled, is what the registry offers: a reload that is
\* reversed half way included.
THEOREM KernelRefinesRegistry == Spec => RegistryRefined
<1>1. Init => R!Init
  BY DEF Init, R!Init
<1>. QED  BY <1>1, NextOffered, AlwaysTyped, PTL DEF Spec, RegistryRefined, R!Spec

-----------------------------------------------------------------------------
(* What registered plugins depend on stays registered, unless a removal is *)
(* forced: by the caller, by stop(), by a plugin that lets others depend on *)
(* it while its on_stop runs (StopEndsWithDependents), or by the rollback  *)
(* of one that did so before its on_start failed.                          *)

NoForcedRemoval ==
  /\ Kinds \cap {"force", "stop"} = {}
  /\ "on_stop" \notin Reentry
  /\ "on_start" \in Faults => "on_start" \notin Reentry

\* Where an operation is bound to remove its plugin, or may have to.
Doomed == {"rollback", "on_stop", "stopping_tasks"}
            \cup (IF "on_start" \in Faults THEN {"on_start"} ELSE {})

\* Only callbacks that may invoke operations wait for operations.
Awaited == \A d \in Call : parent[d] \in Call /\ pc[d] \notin Final => pc[parent[d]] \in Reentry

\* A plugin that is bound to be removed has no dependents.
Depending ==
  /\ RP!Present(registry)
  /\ Awaited
  /\ \A c \in Call : ~loc[c].force /\ kind[c] # "stop"
  /\ \A c \in Call : pc[c] \in Doomed => RP!LiveDependents(registry, loc[c].id) = {}

\* What every step of c leaves of the calls.
Proceeds(c) ==
  /\ UNCHANGED call
  /\ UnderWay(c) /\ ~Blocked(c)
  /\ loc'[c].force = loc[c].force
  /\ \A d \in Call : d # c => pc'[d] = pc[d] /\ loc'[d] = loc[d]

\* c is inside the lock, or can take it.
AtLock(c) == InLock(c) \/ (pc[c] = "await_lock" /\ CanLock(c))

\* Whoever is inside the lock and waits for nobody is the only one to go on.
LEMMA AloneInLock ==
  ASSUME CallsTyped, Locking, NEW c \in Call, NEW d \in Call, InLock(d), AtLock(c),
         ~Blocked(c), ~Blocked(d)
  PROVE  c = d
<1>1. UnderWay(c) /\ UnderWay(d)
  BY DEF AtLock, InLock, InGuard, UnderWay, Final, Guarded
<1>2. ~Waits(c) /\ ~Waits(d)
  BY DEF Waits, Blocked, UnderWay
<1>3. d \in Holders /\ task[d] = lock.owner
  BY DEF Holders, Locking, Counted
<1>4. lock.depth # 0
  BY <1>3, FS_EmptySet DEF Locking, Counted
<1>5. task[c] = task[d]
  BY <1>3, <1>4 DEF AtLock, CanLock, Holders, Locking, Counted
<1>. QED  BY <1>1, <1>2, <1>5 DEF Locking, Chains

\* Nobody waits where operations are bound to remove their plugin.
LEMMA DoomedInLock ==
  ASSUME NoForcedRemoval, CallsTyped, Depending, NEW d \in Call, pc[d] \in Doomed
  PROVE  InLock(d) /\ ~Blocked(d)
<1>1. pc[d] \notin Reentry
  BY LifecycleAssumption DEF NoForcedRemoval, Doomed, Callbacks
<1>2. ~Blocked(d)
  BY <1>1 DEF Depending, Awaited, Blocked
<1>3. InLock(d)
  BY DEF Depending, InLock, InGuard, Doomed, Guarded
<1>. QED  BY <1>2, <1>3

LEMMA StaysAwaited ==
  ASSUME CallsTyped, Awaited, NEW c \in Call, Proceeds(c)
  PROVE  Awaited'
<1> SUFFICES ASSUME NEW d \in Call, parent[d] \in Call, pc'[d] \notin Final
             PROVE  pc'[parent[d]] \in Reentry
  BY DEF Awaited, Proceeds, call
<1>1. pc[d] \notin Final
  BY DEF Proceeds, UnderWay
<1>2. parent[d] # c
  BY <1>1 DEF Proceeds, Blocked
<1>. QED  BY <1>1, <1>2 DEF Awaited, Proceeds

\* A step that leaves the registry alone.
LEMMA KeepsRegistry ==
  ASSUME CallsTyped, Depending, NEW c \in Call, Proceeds(c), registry' = registry,
         pc'[c] \in Doomed => \/ pc[c] \in Doomed /\ loc'[c].id = loc[c].id
                              \/ RP!LiveDependents(registry, loc'[c].id) = {}
  PROVE  Depending'
<1>1. Awaited'
  BY StaysAwaited DEF Depending
<1>2. \A d \in Call : ~loc'[d].force /\ kind'[d] # "stop"
  BY DEF Depending, Proceeds, call
<1>3. \A d \in Call : pc'[d] \in Doomed => RP!LiveDependents(registry', loc'[d].id) = {}
  BY DEF Depending, Proceeds
<1>4. RP!Present(registry')
  BY DEF Depending
<1>. QED  BY <1>1, <1>2, <1>3, <1>4 DEF Depending, RP!Present, RP!Members, RP!LiveDependents

\* A step that changes the registry is made at the lock.
LEMMA ChangesRegistry ==
  ASSUME NoForcedRemoval, CallsTyped, Locking, Depending, NEW c \in Call, Proceeds(c),
         AtLock(c), RP!Present(registry'),
         pc'[c] \in Doomed => RP!LiveDependents(registry', loc'[c].id) = {}
  PROVE  Depending'
<1>1. Awaited'
  BY StaysAwaited DEF Depending
<1>2. \A d \in Call : ~loc'[d].force /\ kind'[d] # "stop"
  BY DEF Depending, Proceeds, call
<1>3. ASSUME NEW d \in Call, pc'[d] \in Doomed
      PROVE  RP!LiveDependents(registry', loc'[d].id) = {}
  <2>1. CASE d = c
    BY <1>3, <2>1
  <2>2. CASE d # c
    <3>1. pc[d] \in Doomed
      BY <1>3, <2>2 DEF Proceeds
    <3>2. c = d
      BY <3>1, DoomedInLock, AloneInLock DEF Proceeds
    <3>. QED  BY <2>2, <3>2
  <2>. QED  BY <2>1, <2>2
<1>. QED  BY <1>1, <1>2, <1>3 DEF Depending, RP!Present, RP!Members, RP!LiveDependents

\* Every step of c is a step of c alone.
LEMMA StepProceeds ==
  ASSUME CallsTyped, state \in CoreStates, NEW c \in Call, Step(c) \/ Cancel(c)
  PROVE  Proceeds(c)
<1> DEFINE One == /\ UNCHANGED call /\ UnderWay(c) /\ loc'[c].force = loc[c].force
                  /\ \A d \in Call : d # c => pc'[d] = pc[d] /\ loc'[d] = loc[d]
<1>0. DOMAIN loc = Call /\ TypedLocals(loc[c]) /\ pc \in [Call -> PCs]
  BY DEF CallsTyped
<1>1. ASSUME NEW outcome, Refuse(c, outcome) \/ LeaveLock(c, outcome)
      PROVE  \A d \in Call : d # c => pc'[d] = pc[d]
  BY <1>0, <1>1 DEF Refuse, LeaveLock, Goto
<1>2. ASSUME NEW outcome, DrainFinally(c, outcome)
      PROVE  /\ loc'[c].force = loc[c].force
             /\ \A d \in Call : d # c => pc'[d] = pc[d] /\ loc'[d] = loc[d]
  <2>1. CASE Finish(c, outcome) /\ loc' = loc
    BY <1>1, <2>1 DEF Finish
  <2>2. CASE loc' = [loc EXCEPT ![c].ends = outcome] /\ Goto(c, "final_drain")
    BY <1>0, <2>2 DEF Goto, TypedLocals, NoLocals
  <2>. QED  BY <1>2, <2>1, <2>2 DEF DrainFinally
<1>3. ASSUME RegisterStep(c) PROVE One
  <2>1. ASSUME NEW p \in Plugin, RegisterRejected(c, p) \/ RegisterRefused(c, p) PROVE One
    BY <1>1, <2>1 DEF RegisterRejected, RegisterRefused, AboutToRegister, UnderWay, Final
  <2>2. ASSUME NEW p \in Plugin, RegisterStart(c, p) PROVE One
    <3>1. loc' = [loc EXCEPT ![c].id = idOf[p]] /\ \E point : Goto(c, point)
      BY <2>2 DEF RegisterStart
    <3>2. UNCHANGED call /\ UnderWay(c)
      BY <2>2 DEF RegisterStart, AboutToRegister, UnderWay, Final
    <3>. QED  BY <1>0, <3>1, <3>2 DEF Goto, TypedLocals, NoLocals
  <2>3. CASE OnStartReturns(c) \/ OnStartRaises(c)
    BY <1>0, <2>3 DEF OnStartReturns, OnStartRaises, UnderWay, Final, Goto
  <2>4. CASE RegisterRolledBack(c) \/ RegisterReturns(c)
    BY <1>1, <2>4 DEF RegisterRolledBack, RegisterReturns, UnderWay, Final, Finish
  <2>. QED  BY <1>3, <2>1, <2>2, <2>3, <2>4 DEF RegisterStep
<1>4. ASSUME UnregisterStep(c) PROVE One
  <2>1. ASSUME NEW id, NEW p, loc' = Locals(c, id, p)
        PROVE  /\ loc'[c].force = loc[c].force
               /\ \A d \in Call : d # c => loc'[d] = loc[d]
    BY <1>0, <2>1 DEF Locals, TypedLocals, NoLocals
  <2>2. ASSUME NEW id \in PluginId, UnregisterRefused(c, id) PROVE One
    <3>1. PICK outcome : Refuse(c, outcome)
      BY <2>2 DEF UnregisterRefused
    <3>. QED  BY <1>1, <2>1, <2>2, <3>1 DEF UnregisterRefused, AboutToUnregister, UnderWay, Final
  <2>3. ASSUME NEW id \in PluginId, UnregisterStart(c, id) PROVE One
    <3>1. PICK point : Goto(c, point)
      BY <2>3 DEF UnregisterStart
    <3>. QED  BY <1>0, <2>1, <2>3, <3>1 DEF UnregisterStart, AboutToUnregister, UnderWay, Final, Goto
  <2>4. CASE OnStopEnds(c) \/ StopEnds(c)
    BY <1>0, <2>4 DEF OnStopEnds, StopEnds, UnderWay, Final, Goto
  <2>5. CASE StopEndsWithDependents(c) \/ UnregisterReturns(c)
    BY <1>2, <2>5 DEF StopEndsWithDependents, UnregisterReturns, UnderWay, Final
  <2>6. CASE FinalDrainEnds(c)
    BY <1>1, <2>6 DEF FinalDrainEnds, UnderWay, Final, Finish
  <2>. QED  BY <1>4, <2>2, <2>3, <2>4, <2>5, <2>6 DEF UnregisterStep
<1>5. ASSUME ReloadStep(c) PROVE One
  <2>1. ASSUME NEW p \in Plugin, NEW id \in PluginId, ReloadRefused(c, p, id) PROVE One
    BY <1>1, <2>1 DEF ReloadRefused, AboutToReload, UnderWay, Final
  <2>2. ASSUME NEW p \in Plugin, NEW id \in PluginId, ReloadStart(c, p, id) PROVE One
    BY <1>0, <2>2 DEF ReloadStart, AboutToReload, UnderWay, Final, Goto, TypedLocals, NoLocals
  <2>3. CASE GetStateReturns(c) \/ ReloadOnStartRaises(c) \/ ReloadOnStartReturns(c)
    BY <1>0, <2>3 DEF GetStateReturns, ReloadOnStartRaises, ReloadOnStartReturns, UnderWay,
           Final, Goto
  <2>4. CASE SwapRaises(c) \/ RestoreStateRaises(c) \/ RestoreStateReturns(c) \/ OldOnStopEnds(c)
    BY <1>0, <2>4 DEF SwapRaises, RestoreStateRaises, RestoreStateReturns, OldOnStopEnds,
           UnderWay, Final, Goto
  <2>5. CASE GetStateRaises(c) \/ ReloadRolledBack(c) \/ ReloadReturns(c)
    BY <1>1, <2>5 DEF GetStateRaises, ReloadRolledBack, ReloadReturns, UnderWay, Final, Finish
  <2>. QED  BY <1>5, <2>1, <2>2, <2>3, <2>4, <2>5 DEF ReloadStep
<1>6. ASSUME CoreStep(c) PROVE One
  <2>1. state \in {"INITIALIZED", "RUNNING", "STOPPING", "STOPPED", "FAILED"}
    BY DEF CoreStates
  <2>2. CASE StopBegins(c)
    <3>1. \E point : Goto(c, point)
      BY <2>1, <2>2 DEF StopBegins
    <3>. QED  BY <1>0, <2>2, <3>1 DEF StopBegins, UnderWay, Final, Goto
  <2>3. CASE StartBegins(c)
    <3>1. \E point : Goto(c, point)
      BY <2>1, <2>3 DEF StartBegins
    <3>. QED  BY <1>0, <2>3, <3>1 DEF StartBegins, UnderWay, Final, Goto
  <2>4. CASE StopOrders(c)
    BY <1>0, <2>4 DEF StopOrders, UnderWay, Final, Goto, TypedLocals, NoLocals
  <2>5. CASE StopDrains(c) \/ StopFinishes(c) \/ StopReturns(c) \/ StartRuns(c) \/ StartReturns(c)
    BY <1>0, <2>5 DEF StopDrains, StopFinishes, StopReturns, StartRuns, StartReturns, UnderWay,
           Final, Goto
  <2>. QED  BY <1>6, <2>2, <2>3, <2>4, <2>5 DEF CoreStep
<1>7. ASSUME Cancel(c) PROVE One
  <2>1. CASE CancelledOutside(c)
    BY <1>0, <2>1 DEF CancelledOutside, UnderWay, Final, Goto
  <2>2. CASE CancelledInside(c) \/ CancelledInFinally(c)
    BY <1>1, <2>2 DEF CancelledInside, CancelledInFinally, Finish, UnderWay, Final
  <2>3. CASE CancelledUnregistering(c)
    BY <1>2, <2>3 DEF CancelledUnregistering, UnderWay, Final
  <2>. QED  BY <1>7, <2>1, <2>2, <2>3 DEF Cancel
<1>8. ~Blocked(c)
  BY DEF Step, Cancel
<1>. QED  BY <1>3, <1>4, <1>5, <1>6, <1>7, <1>8 DEF Step, Proceeds

LEMMA RegistryStepPresent ==
  ASSUME NEW r, RP!Consistent(r), RP!Present(r), NEW id \in PluginId
  PROVE  /\ RP!LiveDependents(r, id) = {} => RP!Present(R!Removed(r, id))
         /\ \A p \in Plugin, deps \in SUBSET PluginId :
              /\ R!CanAdd(r, id, p, deps) =>
                   /\ RP!Present(R!Added(r, id, p, deps))
                   /\ RP!LiveDependents(R!Added(r, id, p, deps), id) = {}
              /\ RP!Present(R!SwapAttempted(r, id, p, deps))
<1>1. RP!LiveDependents(r, id) = {} => RP!Present(R!Removed(r, id))
  BY KernelRegistry, RegistryOperators, RP!RemovedPresent
<1>2. ASSUME NEW p \in Plugin, NEW deps \in SUBSET PluginId
      PROVE  /\ R!CanAdd(r, id, p, deps) =>
                  /\ RP!Present(R!Added(r, id, p, deps))
                  /\ RP!LiveDependents(R!Added(r, id, p, deps), id) = {}
             /\ RP!Present(R!SwapAttempted(r, id, p, deps))
  BY KernelRegistry, RegistryOperators, RP!AddedPresent, RP!SwapAttemptedPresent
<1>. QED  BY <1>1, <1>2

\* What is known in every step of a call.
Dependable == NoForcedRemoval /\ Typed /\ Locking /\ Depending

LEMMA RegisterDepending ==
  ASSUME Dependable, NEW c \in Call, Proceeds(c), RegisterStep(c)
  PROVE  Depending'
<1>0. /\ NoForcedRemoval /\ CallsTyped /\ GraphTyped /\ InstancesTyped /\ Locking /\ Depending
      /\ TypedLocals(loc[c]) /\ Equipped(pc[c], loc[c]) /\ DOMAIN loc = Call
      /\ RP!Consistent(registry) /\ RP!Present(registry)
      /\ kind[c] # "stop" /\ pc \in [Call -> PCs]
  BY DEF Dependable, Typed, CallsTyped, GraphTyped, Depending
<1>1. ASSUME NEW p \in Plugin, RegisterRejected(c, p) \/ RegisterRefused(c, p)  PROVE Depending'
  <2>1. pc'[c] = "raised" /\ registry' = registry
    BY <1>0, <1>1 DEF RegisterRejected, RegisterRefused, Refuse, Goto, graph
  <2>. QED  BY <1>0, <2>1, KeepsRegistry DEF Doomed
<1>2. ASSUME NEW p \in Plugin, RegisterStart(c, p)  PROVE Depending'
  <2>1. idOf[p] \in PluginId /\ NewEdges(p) \in SUBSET PluginId
    BY <1>0, <1>2, NewEdgesTyped DEF RegisterStart, Admissible, Admits, InstancesTyped
  <2>2. /\ AtLock(c) /\ loc'[c].id = idOf[p]
        /\ registry' = R!Added(registry, idOf[p], p, NewEdges(p))
        /\ R!CanAdd(registry, idOf[p], p, NewEdges(p))
    BY <1>0, <1>2 DEF RegisterStart, AboutToRegister, AtLock, TypedLocals, NoLocals
  <2>3. RP!Present(registry') /\ RP!LiveDependents(registry', loc'[c].id) = {}
    BY <1>0, <2>1, <2>2, RegistryStepPresent
  <2>. QED  BY <1>0, <2>2, <2>3, ChangesRegistry
<1>3. CASE OnStartReturns(c)
  BY <1>0, <1>3, KeepsRegistry DEF OnStartReturns, Goto, graph, Doomed
<1>4. CASE OnStartRaises(c)
  BY <1>0, <1>4, KeepsRegistry DEF OnStartRaises, Goto, Doomed
<1>5. CASE RegisterRolledBack(c)
  <2>1. AtLock(c) /\ loc[c].id \in PluginId /\ pc'[c] = "raised"
    BY <1>0, <1>5 DEF RegisterRolledBack, AtLock, InLock, InGuard, Guarded, Equipped, Finish,
           LeaveLock, Goto
  <2>2. RP!LiveDependents(registry, loc[c].id) = {}
    BY <1>5 DEF RegisterRolledBack, Dependable, Depending, Doomed
  <2>3. RP!Present(registry')
    BY <1>0, <1>5, <2>1, <2>2, RegistryStepPresent DEF RegisterRolledBack
  <2>. QED  BY <1>0, <2>1, <2>3, ChangesRegistry DEF Doomed
<1>6. CASE RegisterReturns(c)
  <2>1. pc'[c] = "returned" /\ registry' = registry
    BY <1>0, <1>6 DEF RegisterReturns, Finish, LeaveLock, Goto, graph
  <2>. QED  BY <1>0, <2>1, KeepsRegistry DEF Doomed
<1>. QED  BY <1>1, <1>2, <1>3, <1>4, <1>5, <1>6 DEF RegisterStep

\* Where the `finally` of an unregistration leads.
LEMMA DrainsToTheEnd ==
  ASSUME CallsTyped, NEW c \in Call, NEW outcome \in Final, DrainFinally(c, outcome)
  PROVE  pc'[c] \in Final \cup {"teardown", "final_drain"}
BY DEF CallsTyped, DrainFinally, Finish, LeaveLock, Goto, Final

LEMMA UnregisterDepending ==
  ASSUME Dependable, NEW c \in Call, Proceeds(c), UnregisterStep(c)
  PROVE  Depending'
<1>0. /\ NoForcedRemoval /\ CallsTyped /\ GraphTyped /\ Locking /\ Depending
      /\ TypedLocals(loc[c]) /\ Equipped(pc[c], loc[c]) /\ DOMAIN loc = Call
      /\ RP!Consistent(registry) /\ RP!Present(registry)
      /\ kind[c] # "stop" /\ ~loc[c].force /\ pc \in [Call -> PCs]
      /\ pc[c] # "teardown"
  BY DEF Dependable, Typed, CallsTyped, GraphTyped, Depending, Locking, Chains, InStop
<1>1. ASSUME NEW id \in PluginId, UnregisterRefused(c, id)  PROVE Depending'
  <2>1. pc'[c] \in Final /\ registry' = registry
    BY <1>0, <1>1 DEF UnregisterRefused, Refuse, Goto, graph, Final
  <2>. QED  BY <1>0, <2>1, KeepsRegistry DEF Doomed, Final
<1>2. ASSUME NEW id \in PluginId, UnregisterStart(c, id)  PROVE Depending'
  <2>1. AtLock(c) /\ loc'[c].id = id
    BY <1>0, <1>2 DEF UnregisterStart, AboutToUnregister, AtLock, Locals, TypedLocals, NoLocals
  <2>2. RP!LiveDependents(registry, id) = {}
    BY <1>0, <1>2 DEF UnregisterStart, R!CanRemove, R!LiveDependents, RP!LiveDependents,
           R!Members, RP!Members
  <2>3. CASE pc'[c] = "on_stop" /\ registry' = registry
    BY <1>0, <2>1, <2>2, <2>3, KeepsRegistry
  <2>4. CASE pc'[c] = "hook_unregistered" /\ registry' = R!Removed(registry, id)
    <3>1. RP!Present(registry')
      BY <1>0, <2>2, <2>4, RegistryStepPresent
    <3>. QED  BY <1>0, <2>1, <2>4, <3>1, ChangesRegistry DEF Doomed
  <2>. QED  BY <1>0, <1>2, <2>3, <2>4 DEF UnregisterStart, Goto
<1>3. CASE OnStopEnds(c)
  BY <1>0, <1>3, KeepsRegistry DEF OnStopEnds, Goto, Doomed
<1>4. CASE StopEnds(c) \/ StopEndsWithDependents(c)
  <2>1. /\ AtLock(c) /\ loc[c].id \in PluginId
        /\ RP!LiveDependents(registry, loc[c].id) = {}
    BY <1>0, <1>4 DEF StopEnds, StopEndsWithDependents, AtLock, InLock, InGuard, Guarded,
           Equipped, Depending, Doomed
  <2>2. RP!Present(registry')
    BY <1>0, <1>4, <2>1, RegistryStepPresent DEF StopEnds, StopEndsWithDependents
  <2>3. pc'[c] \in Final \cup {"teardown", "final_drain", "hook_unregistered"}
    BY <1>0, <1>4, DrainsToTheEnd DEF StopEnds, StopEndsWithDependents, Goto, Final
  <2>. QED  BY <1>0, <2>1, <2>2, <2>3, ChangesRegistry DEF Doomed, Final
<1>5. CASE UnregisterReturns(c)
  <2>1. pc'[c] \in Final \cup {"teardown", "final_drain"}
    BY <1>0, <1>5, DrainsToTheEnd DEF UnregisterReturns, Final
  <2>. QED  BY <1>0, <1>5, <2>1, KeepsRegistry DEF UnregisterReturns, Doomed, Final
<1>6. CASE FinalDrainEnds(c)
  <2>1. pc'[c] \in Final /\ registry' = registry
    BY <1>0, <1>6 DEF FinalDrainEnds, Finish, LeaveLock, Goto, graph, TypedLocals
  <2>. QED  BY <1>0, <2>1, KeepsRegistry DEF Doomed, Final
<1>. QED  BY <1>1, <1>2, <1>3, <1>4, <1>5, <1>6 DEF UnregisterStep

LEMMA ReloadDepending ==
  ASSUME Dependable, NEW c \in Call, Proceeds(c), ReloadStep(c)
  PROVE  Depending'
<1>0. /\ NoForcedRemoval /\ CallsTyped /\ GraphTyped /\ Locking /\ Depending
      /\ TypedLocals(loc[c]) /\ Equipped(pc[c], loc[c]) /\ DOMAIN loc = Call
      /\ RP!Consistent(registry) /\ RP!Present(registry)
      /\ kind[c] # "stop" /\ pc \in [Call -> PCs]
  BY DEF Dependable, Typed, CallsTyped, GraphTyped, Depending
<1>1. ASSUME NEW p \in Plugin, NEW id \in PluginId, ReloadRefused(c, p, id) PROVE Depending'
  <2>1. pc'[c] = "raised" /\ registry' = registry
    BY <1>0, <1>1 DEF ReloadRefused, Refuse, Goto, graph
  <2>. QED  BY <1>0, <2>1, KeepsRegistry DEF Doomed
<1>2. ASSUME NEW p \in Plugin, NEW id \in PluginId, ReloadStart(c, p, id) PROVE Depending'
  BY <1>0, <1>2, KeepsRegistry DEF ReloadStart, Goto, graph, Doomed
<1>3. CASE GetStateRaises(c) \/ ReloadRolledBack(c) \/ ReloadReturns(c)
  <2>1. pc'[c] \in Final /\ registry' = registry
    BY <1>0, <1>3 DEF GetStateRaises, ReloadRolledBack, ReloadReturns, Finish, LeaveLock,
           Goto, graph, Final
  <2>. QED  BY <1>0, <2>1, KeepsRegistry DEF Doomed, Final
<1>4. CASE GetStateReturns(c) \/ ReloadOnStartRaises(c)
  <2>1. pc'[c] \in Reloading /\ registry' = registry
    BY <1>0, <1>4 DEF GetStateReturns, ReloadOnStartRaises, Goto
  <2>. QED  BY <1>0, <2>1, KeepsRegistry DEF Doomed
<1>5. CASE RestoreStateReturns(c) \/ OldOnStopEnds(c)
  <2>1. pc'[c] \in Reloading /\ registry' = registry
    BY <1>0, <1>5 DEF RestoreStateReturns, OldOnStopEnds, Goto, graph
  <2>. QED  BY <1>0, <2>1, KeepsRegistry DEF Doomed
<1>6. CASE ReloadOnStartReturns(c) \/ SwapRaises(c) \/ RestoreStateRaises(c)
  <2>1. /\ AtLock(c) /\ pc'[c] \in Reloading
        /\ loc[c].id \in PluginId /\ loc[c].plug \in Plugin /\ loc[c].old \in Plugin
        /\ loc[c].newDeps \in SUBSET PluginId /\ loc[c].oldDeps \in SUBSET PluginId
    BY <1>0, <1>6 DEF ReloadOnStartReturns, SwapRaises, RestoreStateRaises, AtLock, InLock,
           InGuard, Guarded, Goto, Equipped, TypedLocals
  <2>2. ASSUME NEW r, RP!Consistent(r), RP!Present(r)
        PROVE  RP!Present(Swapped(r, c)) /\ RP!Present(SwappedBack(r, c))
    BY <2>1, <2>2, RegistryStepPresent DEF Swapped, SwappedBack
  <2>3. RP!Consistent(Swapped(registry, c))
    BY <1>6, SwapsTyped DEF Dependable, ReloadOnStartReturns, SwapRaises, RestoreStateRaises
  <2>4. RP!Present(registry')
    BY <1>0, <1>6, <2>2, <2>3 DEF ReloadOnStartReturns, SwapRaises, RestoreStateRaises
  <2>. QED  BY <1>0, <2>1, <2>4, ChangesRegistry DEF Doomed
<1>. QED  BY <1>1, <1>2, <1>3, <1>4, <1>5, <1>6 DEF ReloadStep

LEMMA CoreDepending ==
  ASSUME Dependable, NEW c \in Call, Proceeds(c), CoreStep(c)
  PROVE  Depending'
<1>0. /\ CallsTyped /\ Depending /\ pc \in [Call -> PCs] /\ kind[c] # "stop"
      /\ pc[c] \notin InStop
  BY DEF Dependable, Typed, CallsTyped, Depending, Locking, Chains
<1>1. pc'[c] \in {"stopped_hook", "returned", "raised", "run_hook", "init_hook"} /\ registry' = registry
  BY <1>0 DEF CoreStep, StopBegins, StopDrains, StopOrders, StopFinishes, StopReturns,
         StartBegins, StartRuns, StartReturns, Goto, graph, InStop
<1>. QED  BY <1>0, <1>1, KeepsRegistry DEF Doomed

LEMMA CancelDepending ==
  ASSUME Dependable, NEW c \in Call, Proceeds(c), Cancel(c)
  PROVE  Depending'
<1>0. CallsTyped /\ Depending /\ pc \in [Call -> PCs]
  BY DEF Dependable, Typed, CallsTyped
<1>1. registry' = registry
  BY DEF Cancel, CancelledOutside, CancelledInside, CancelledUnregistering,
         CancelledInFinally, graph
<1>2. pc'[c] \in Final \cup {"teardown", "final_drain"}
  BY <1>0, DrainsToTheEnd DEF Cancel, CancelledOutside, CancelledInside, CancelledUnregistering,
         CancelledInFinally, Finish, LeaveLock, Goto, Final
<1>. QED  BY <1>0, <1>1, <1>2, KeepsRegistry DEF Doomed, Final

\* An invocation, which may come from a callback.
LEMMA InvokeDepending ==
  ASSUME Dependable, NEW c \in Call, NEW k \in Kinds, NEW caller \in {NoCall} \cup Call,
         NEW own \in OwnTask, Invoke(c, k, caller, own)
  PROVE  Depending'
<1>0. /\ CallsTyped /\ Depending /\ pc \in [Call -> PCs] /\ parent \in [Call -> Call \cup {NoCall}]
      /\ kind \in [Call -> Operations \cup {"none"}] /\ DOMAIN loc = Call
  BY DEF Dependable, Typed, CallsTyped
<1>1. pc[c] = "idle" /\ pc'[c] \notin Doomed /\ registry' = registry
  BY <1>0 DEF Invoke, Goto, graph, Doomed
<1>2. \A d \in Call : d # c => pc'[d] = pc[d] /\ parent'[d] = parent[d] /\ loc'[d] = loc[d]
                               /\ kind'[d] = kind[d]
  BY <1>0 DEF Invoke, Goto
<1>3. Awaited'
  <2> SUFFICES ASSUME NEW d \in Call, parent'[d] \in Call, pc'[d] \notin Final
               PROVE  pc'[parent'[d]] \in Reentry
    BY DEF Awaited
  <2>1. "idle" \notin Reentry
    BY LifecycleAssumption DEF Callbacks
  <2>2. CASE d = c
    <3>1. parent'[d] = caller /\ caller # NoCall
      BY <1>0, <2>2, LifecycleAssumption DEF Invoke
    <3>2. pc[caller] \in Reentry /\ caller \in Call
      BY <3>1 DEF Invoke
    <3>. QED  BY <1>1, <1>2, <2>1, <3>1, <3>2
  <2>3. CASE d # c
    <3>1. pc[parent[d]] \in Reentry /\ parent[d] \in Call /\ parent'[d] = parent[d]
      BY <1>0, <1>2, <2>3 DEF Depending, Awaited
    <3>. QED  BY <1>1, <1>2, <2>1, <3>1
  <2>. QED  BY <2>2, <2>3
<1>4. ~loc'[c].force /\ kind'[c] # "stop"
  <2>1. k \notin {"force", "stop"} /\ k \in Operations
    BY LifecycleAssumption DEF Dependable, NoForcedRemoval
  <2>2. PICK args \in Arguments(k) : loc' = [loc EXCEPT ![c] = args]
    BY DEF Invoke
  <2>3. ~args.force
    <3>1. CASE k \in {"register", "load", "start"}
      <4>1. CASE k = "register"
        <5>1. PICK p \in Plugin : args = [NoLocals EXCEPT !.plug = p, !.id = idOf[p]]
          BY <2>2, <4>1, LifecycleAssumption DEF Arguments
        <5>. QED  BY <5>1 DEF NoLocals
      <4>2. CASE k = "load"
        <5>1. PICK p \in Plugin : args = [NoLocals EXCEPT !.plug = p]
          BY <2>2, <4>2, LifecycleAssumption DEF Arguments
        <5>. QED  BY <5>1 DEF NoLocals
      <4>3. CASE k = "start"
        BY <2>2, <4>3 DEF Arguments, NoLocals
      <4>. QED  BY <3>1, <4>1, <4>2, <4>3
    <3>2. CASE k = "unregister"
      <4>1. PICK i \in PluginId : args = [NoLocals EXCEPT !.id = i, !.force = (k = "force")]
        BY <2>2, <3>2 DEF Arguments
      <4>. QED  BY <3>2, <4>1 DEF NoLocals
    <3>. QED  BY <2>1, <3>1, <3>2 DEF Operations
  <2>. QED  BY <1>0, <2>1, <2>2, <2>3 DEF Invoke
<1>5. \A d \in Call : ~loc'[d].force /\ kind'[d] # "stop"
  BY <1>0, <1>2, <1>4 DEF Depending
<1>6. \A d \in Call : pc'[d] \in Doomed => RP!LiveDependents(registry', loc'[d].id) = {}
  BY <1>0, <1>1, <1>2 DEF Depending
<1>. QED  BY <1>0, <1>1, <1>3, <1>5, <1>6 DEF Depending, RP!Present, RP!Members, RP!LiveDependents

LEMMA AlwaysDepending ==
  ASSUME NoForcedRemoval
  PROVE  Spec => []Depending
<1>1. Init => Depending
  BY LifecycleAssumption DEF Init, Depending, R!EmptyRegistry, RP!Present, RP!Members, Awaited,
         NoLocals, Doomed
<1>2. Typed /\ Locking /\ Depending /\ [Next]_vars => Depending'
  <2> SUFFICES ASSUME Dependable, [Next]_vars PROVE Depending'
    BY DEF Dependable
  <2>0. CallsTyped /\ state \in CoreStates
    BY DEF Dependable, Typed, CoreTyped
  <2>1. ASSUME NEW c \in Call, Step(c)  PROVE Depending'
    <3>1. Proceeds(c)
      BY <2>0, <2>1, StepProceeds
    <3>. QED  BY <2>1, <3>1, RegisterDepending, UnregisterDepending, ReloadDepending,
                 CoreDepending DEF Step
  <2>2. ASSUME NEW c \in Call, Cancel(c)  PROVE Depending'
    BY <2>0, <2>2, StepProceeds, CancelDepending
  <2>3. ASSUME NEW c \in Call, NEW k \in Kinds, NEW caller \in {NoCall} \cup Call,
               NEW own \in OwnTask, Invoke(c, k, caller, own)
        PROVE  Depending'
    BY <2>3, InvokeDepending
  <2>4. ASSUME UNCHANGED <<registry, pc, call, loc>>  PROVE Depending'
    BY <2>4 DEF Dependable, Depending, Awaited, RP!Present, RP!Members, RP!LiveDependents, call
  <2>5. CASE List
    BY <2>4, <2>5 DEF List, graph
  <2>6. CASE UNCHANGED vars
    BY <2>4, <2>6 DEF vars, graph
  <2>. QED  BY <2>1, <2>2, <2>3, <2>5, <2>6 DEF Next
<1>. QED  BY <1>1, <1>2, AlwaysTyped, AlwaysLocking, PTL DEF Spec

\* While nobody forces a removal, whatever a registered plugin depends on is
\* registered, and knows it: across every callback in which an unregistration,
\* a registration or a reload is suspended, and however calls are cancelled.
THEOREM RequirementsStayRegistered ==
  ASSUME NoForcedRemoval
  PROVE  Spec => []DependenciesPresent
<1>1. Depending => DependenciesPresent
  BY DEF Depending, RP!Present, RP!Members, DependenciesPresent, R!DependenciesPresent, R!Members
<1>. QED  BY <1>1, AlwaysDepending, PTL

-----------------------------------------------------------------------------
(* Where every instance is, at every suspension point, when nothing cuts   *)
(* an operation short.  Plugins come and go, fail to start, reload each    *)
(* other, re-enter the kernel and remove each other by force all the same. *)

\* A plugin that needs no other.
Needless(p) == Declared[p] = {} /\ Requires[p] = {}

\* Each conjunct keeps out something that leaves an instance half in service:
\* one that is registered again after it stopped is not started; stop() clears
\* the capabilities of a plugin that was still starting and that it does not
\* stop; an operation that is cancelled does not roll back; a failed
\* restore_state leaves the capabilities to the new instance; under first_wins
\* a provider may go unlisted; and a swap cannot be taken back once what the
\* old instance depends on is gone.
Undisturbed ==
  /\ HandOnce
  /\ "stop" \notin Kinds
  /\ Cancellable \cap Guarded = {}
  /\ "restore_state" \notin Faults
  /\ Collision # "first_wins"
  /\ \/ NoForcedRemoval
     \/ \A p \in Broken, q \in Plugin : NameOf[q] = NameOf[p] => Needless(q)

\* What belongs to an id: the instance registered under it, its edges, and of
\* the instances that carry the id those that have handlers, are listed as
\* providers, have been started and have been stopped.
ListedAt(t, ids, i) == [k \in Cap |-> {q \in Providers(t, k) : ids[q] = i}]

At(i) == [held |-> registry.plugins[i], edges |-> registry.dependencies[i],
          heard |-> {q \in handlers : idOf[q] = i},
          listed |-> ListedAt(table, idOf, i),
          started |-> {q \in initialized : idOf[q] = i},
          ended |-> {q \in shutdown : idOf[q] = i}]

NoEntries == [k \in Cap |-> {}]
Entries(p) == [k \in Cap |-> {q \in {p} : k \in Provides[q]}]

Stands(s, held, heard, listed) == s.held = held /\ s.heard = heard /\ s.listed = listed
Fresh(s, p) == p \notin s.started \cup s.ended
Up(s, p) == p \in s.started \ s.ended
Serving(s, p) == Stands(s, p, {p}, Entries(p)) /\ Up(s, p)

\* Where no operation is under way.
Settled(i) ==
  \/ Stands(At(i), NoPlugin, {}, NoEntries)
  \/ LET p == registry.plugins[i] IN p # NoPlugin /\ idOf[p] = i /\ Serving(At(i), p)

\* Where p is registered or unregistered.
Alone(point, s, p) ==
  /\ point = "on_start" => Stands(s, p, {p}, Entries(p)) /\ Fresh(s, p)
  /\ point = "rollback" => Stands(s, p, {}, NoEntries) /\ Fresh(s, p)
  /\ point \in {"hook_registered", "on_stop"} => Serving(s, p)
  /\ point = "stopping_tasks" => Stands(s, p, {}, NoEntries) /\ Up(s, p)
  /\ point \in {"hook_unregistered", "final_drain"} => Stands(s, NoPlugin, {}, NoEntries)

\* Where p replaces o.
Beside(point, s, p, o) ==
  /\ point = "get_state" => Serving(s, o) /\ Fresh(s, p)
  /\ point = "reload_on_start" => Stands(s, o, {o, p}, Entries(o)) /\ Up(s, o) /\ Fresh(s, p)
  /\ point = "reload_rollback" => Serving(s, o)
  /\ point \in {"restore_state", "reload_on_stop"} =>
       Stands(s, p, {o, p}, Entries(p)) /\ Up(s, o) /\ Up(s, p)
  /\ point = "reload_drain" => Serving(s, p)

Unattached(s) == s.held # NoPlugin /\ Needless(s.held) => s.edges = {}

Placed(point, l, s) ==
  /\ idOf[l.plug] = l.id
  /\ point \notin Reloading => l.old = NoPlugin /\ Alone(point, s, l.plug)
  /\ point \in Reloading =>
       /\ l.old # l.plug /\ idOf[l.old] = l.id
       /\ Beside(point, s, l.plug, l.old)
       /\ point \in {"get_state", "reload_on_start"} =>
            /\ l.oldDeps = s.edges
            /\ Needless(l.plug) => l.newDeps = {}

\* c brings an instance, and has got to work with it.
Hands(c) == kind[c] \in {"register", "load"} /\ pc[c] # "idle"
Taken == {loc[c].plug : c \in {d \in Call : Hands(d) /\ pc[d] # "await_lock"}}

Orderly ==
  /\ \A c \in Call : kind[c] # "stop"
  /\ \A c, d \in Call : Hands(c) /\ Hands(d) /\ loc[c].plug = loc[d].plug => c = d
  /\ \A c \in Call : pc[c] = "await_lock" => loc[c].old = NoPlugin

\* Nothing is known of an instance that nobody has got to work with.
Known ==
  /\ initialized \cup shutdown \subseteq Taken
  /\ \A i \in PluginId : registry.plugins[i] \in Taken \cup {NoPlugin}
  /\ \A c \in Call : pc[c] \in Guarded => {loc[c].plug, loc[c].old} \subseteq Taken \cup {NoPlugin}

Residence ==
  /\ Orderly /\ Known
  /\ \A i \in PluginId : Unattached(At(i))
  /\ \A c \in Call : pc[c] \in Guarded => Placed(pc[c], loc[c], At(loc[c].id))
  /\ \A i \in PluginId \ active : Settled(i)

-----------------------------------------------------------------------------

\* A step of c works on the instances of one id.
Confined(i) ==
  /\ \A q \in Taken : idOf'[q] = idOf[q]
  /\ \A j \in PluginId : j # i => At(j)' = At(j)

LEMMA TakenStays ==
  ASSUME CallsTyped, NEW c \in Call, Proceeds(c), pc'[c] \notin {"idle", "await_lock"},
         kind[c] \in {"register", "load"} => loc'[c].plug = loc[c].plug
  PROVE  /\ Taken \subseteq Taken'
         /\ kind[c] \in {"register", "load"} => loc'[c].plug \in Taken'
<1>1. kind' = kind /\ UnderWay(c) /\ \A d \in Call : d # c => pc'[d] = pc[d] /\ loc'[d] = loc[d]
  BY DEF Proceeds, call
<1>2. \A d \in Call : Hands(d) /\ pc[d] # "await_lock" =>
        Hands(d)' /\ pc'[d] # "await_lock" /\ loc'[d].plug = loc[d].plug
  BY <1>1 DEF Hands
<1>3. Taken \subseteq Taken'
  BY <1>2 DEF Taken
<1>4. kind[c] \in {"register", "load"} => Hands(c)' /\ pc'[c] # "await_lock"
  BY <1>1 DEF Hands
<1>. QED  BY <1>3, <1>4 DEF Taken

LEMMA StaysOrderly ==
  ASSUME CallsTyped, Orderly, NEW c \in Call, Proceeds(c), pc'[c] \notin {"idle", "await_lock"},
         kind[c] \in {"register", "load"} => loc'[c].plug = loc[c].plug
  PROVE  Orderly'
<1>1. kind' = kind /\ UnderWay(c) /\ \A d \in Call : d # c => pc'[d] = pc[d] /\ loc'[d] = loc[d]
  BY DEF Proceeds, call
<1>2. \A d \in Call : Hands(d)' <=> Hands(d)
  BY <1>1 DEF Hands, UnderWay
<1>3. \A d \in Call : Hands(d) => loc'[d].plug = loc[d].plug
  BY <1>1 DEF Hands
<1>. QED  BY <1>1, <1>2, <1>3 DEF Orderly

LEMMA Resides ==
  ASSUME CallsTyped, CallsTyped', GuardExclusive, Residence, NEW c \in Call, Proceeds(c),
         pc'[c] \notin {"idle", "await_lock"},
         kind[c] \in {"register", "load"} => loc'[c].plug = loc[c].plug,
         NEW i \in PluginId, Confined(i),
         IF pc[c] \in Guarded THEN loc[c].id = i ELSE i \notin active,
         initialized' \cup shutdown' \subseteq Taken',
         registry'.plugins[i] \in Taken' \cup {NoPlugin}, Unattached(At(i)'),
         IF pc'[c] \in Guarded
         THEN /\ {loc'[c].plug, loc'[c].old} \subseteq Taken' \cup {NoPlugin}
              /\ loc'[c].id = i /\ active' = active \cup {i}
              /\ Placed(pc[c], loc[c], At(i))'
         ELSE active' = active \ {i} /\ Settled(i)'
  PROVE  Residence'
<1>1. \A d \in Call : d # c => pc'[d] = pc[d] /\ loc'[d] = loc[d]
  BY DEF Proceeds
<1>2. Taken \subseteq Taken' /\ Orderly'
  BY TakenStays, StaysOrderly DEF Residence
<1>3. \A d \in Call : d # c /\ pc[d] \in Guarded => loc[d].id \in PluginId /\ loc[d].id # i
  BY DEF GuardExclusive, InGuard, CallsTyped, Equipped
<1>4. \A j \in PluginId : j # i => registry'.plugins[j] = registry.plugins[j]
  BY DEF Confined, At
<1>5. Known'
  <2>1. \A j \in PluginId : registry'.plugins[j] \in Taken' \cup {NoPlugin}
    BY <1>2, <1>4 DEF Residence, Known
  <2>2. ASSUME NEW d \in Call, pc'[d] \in Guarded
        PROVE  {loc'[d].plug, loc'[d].old} \subseteq Taken' \cup {NoPlugin}
    BY <1>1, <1>2, <2>2 DEF Residence, Known
  <2>. QED  BY <2>1, <2>2 DEF Known
<1>6. \A j \in PluginId : Unattached(At(j)')
  BY DEF Confined, Residence
<1>7. ASSUME NEW d \in Call, pc'[d] \in Guarded
      PROVE  Placed(pc[d], loc[d], At(loc[d].id))'
  <2>1. CASE d = c
    BY <1>7, <2>1
  <2>2. CASE d # c
    <3>1. /\ pc[d] \in Guarded /\ pc'[d] = pc[d] /\ loc'[d] = loc[d]
          /\ At(loc[d].id)' = At(loc[d].id) /\ Placed(pc[d], loc[d], At(loc[d].id))
      BY <1>1, <1>3, <1>7, <2>2 DEF Confined, Residence
    <3>2. loc[d].plug \in Taken /\ (pc[d] \in Reloading => loc[d].old \in Taken)
      BY <3>1, LifecycleAssumption DEF Residence, Known, CallsTyped, Equipped
    <3>3. /\ idOf'[loc[d].plug] = idOf[loc[d].plug]
          /\ pc[d] \in Reloading => idOf'[loc[d].old] = idOf[loc[d].old]
      BY <3>2 DEF Confined
    <3>. QED  BY <3>1, <3>3 DEF Placed
  <2>. QED  BY <2>1, <2>2
<1>8. ASSUME NEW j \in PluginId \ active'
      PROVE  Settled(j)'
  <2>1. CASE j = i
    BY <1>8, <2>1
  <2>2. CASE j # i
    <3>1. At(j)' = At(j) /\ Settled(j)
      BY <1>8, <2>2 DEF Confined, Residence
    <3>2. registry'.plugins[j] = registry.plugins[j] /\ registry.plugins[j] \in Taken \cup {NoPlugin}
      BY <1>4, <2>2 DEF Residence, Known
    <3>3. registry.plugins[j] # NoPlugin => idOf'[registry.plugins[j]] = idOf[registry.plugins[j]]
      BY <3>2 DEF Confined
    <3>. QED  BY <3>1, <3>2, <3>3 DEF Settled
  <2>. QED  BY <2>1, <2>2
<1>. QED  BY <1>2, <1>5, <1>6, <1>7, <1>8 DEF Residence

\* A step outside the guard, which leaves everything where it is.
LEMMA StaysPut ==
  ASSUME CallsTyped, Residence, NEW c \in Call, Proceeds(c),
         pc'[c] \notin {"idle", "await_lock"}, pc'[c] \notin Guarded,
         kind[c] \in {"register", "load"} => loc'[c].plug = loc[c].plug,
         active' = active, UNCHANGED <<initialized, shutdown, registry>>,
         \A q \in Taken : idOf'[q] = idOf[q], \A j \in PluginId : At(j)' = At(j)
  PROVE  Residence'
<1>1. \A d \in Call : d # c => pc'[d] = pc[d] /\ loc'[d] = loc[d]
  BY DEF Proceeds
<1>2. Taken \subseteq Taken' /\ Orderly'
  BY TakenStays, StaysOrderly DEF Residence
<1>3. Known'
  BY <1>1, <1>2 DEF Residence, Known
<1>4. \A j \in PluginId : Unattached(At(j)')
  BY DEF Residence
<1>5. ASSUME NEW d \in Call, pc'[d] \in Guarded
      PROVE  Placed(pc[d], loc[d], At(loc[d].id))'
  <2>1. /\ d # c /\ pc[d] \in Guarded /\ pc'[d] = pc[d] /\ loc'[d] = loc[d]
        /\ loc[d].id \in PluginId /\ loc[d].plug \in Taken
        /\ pc[d] \in Reloading => loc[d].old \in Taken
        /\ Placed(pc[d], loc[d], At(loc[d].id))
    BY <1>1, <1>5, LifecycleAssumption DEF Residence, Known, CallsTyped, Equipped
  <2>2. At(loc[d].id)' = At(loc[d].id)
    BY <2>1
  <2>. QED  BY <2>1, <2>2 DEF Placed
<1>6. ASSUME NEW j \in PluginId \ active'
      PROVE  Settled(j)'
  <2>1. At(j)' = At(j) /\ Settled(j) /\ registry' = registry
    BY <1>6 DEF Residence
  <2>2. registry.plugins[j] # NoPlugin => idOf'[registry.plugins[j]] = idOf[registry.plugins[j]]
    BY DEF Residence, Known
  <2>. QED  BY <2>1, <2>2 DEF Settled
<1>. QED  BY <1>2, <1>3, <1>4, <1>5, <1>6 DEF Residence

-----------------------------------------------------------------------------
(* What the operations leave at an id, and at the others. *)

LEMMA WithoutPluginAt ==
  ASSUME NEW t \in Tables, NEW ids, NEW i, NEW j
  PROVE  ListedAt(WithoutPlugin(t, i, ids), ids, j) =
           IF j = i THEN NoEntries ELSE ListedAt(t, ids, j)
<1>1. \A k \in Cap : Providers(WithoutPlugin(t, i, ids), k) = {q \in Providers(t, k) : ids[q] # i}
  BY OthersProperties DEF WithoutPlugin, Providers, Tables
<1>2. \A k \in Cap :
        {q \in Providers(WithoutPlugin(t, i, ids), k) : ids[q] = j} =
          IF j = i THEN {} ELSE {q \in Providers(t, k) : ids[q] = j}
  BY <1>1
<1>. QED  BY <1>2 DEF ListedAt, NoEntries

LEMMA ProviderSwappedAt ==
  ASSUME NEW t \in Tables, NEW ids, NEW p \in Plugin, NEW j
  PROVE  ListedAt(ProviderSwapped(t, p, ids), ids, j) =
           IF j = ids[p] THEN Entries(p) ELSE ListedAt(t, ids, j)
<1>1. ASSUME NEW k \in Cap
      PROVE  {q \in Providers(ProviderSwapped(t, p, ids), k) : ids[q] = j} =
               IF j = ids[p] THEN {q \in {p} : k \in Provides[q]}
                             ELSE {q \in Providers(t, k) : ids[q] = j}
  <2>1. t[k] \in Seq(Plugin)
    BY DEF Tables
  <2>2. CASE k \in Provides[p]
    <3>1. Providers(ProviderSwapped(t, p, ids), k) = {q \in Providers(t, k) : ids[q] # ids[p]} \cup {p}
      BY <2>1, <2>2, ReboundProperties DEF ProviderSwapped, Providers
    <3>. QED  BY <2>2, <3>1
  <2>3. CASE k \notin Provides[p]
    <3>1. Providers(ProviderSwapped(t, p, ids), k) = {q \in Providers(t, k) : ids[q] # ids[p]}
      BY <2>1, <2>3, OthersProperties DEF ProviderSwapped, Providers
    <3>. QED  BY <2>3, <3>1
  <2>. QED  BY <2>2, <2>3
<1>. QED  BY <1>1 DEF ListedAt, Entries

LEMMA WithPluginAt ==
  ASSUME Collision # "first_wins", NEW t \in Tables, NEW ids, NEW p \in Plugin, NEW j,
         ListedAt(t, ids, ids[p]) = NoEntries
  PROVE  ListedAt(WithPlugin(Collision, t, p), ids, j) =
           IF j = ids[p] THEN Entries(p) ELSE ListedAt(t, ids, j)
<1>1. ASSUME NEW k \in Cap
      PROVE  {q \in Providers(WithPlugin(Collision, t, p), k) : ids[q] = j} =
               IF j = ids[p] THEN {q \in {p} : k \in Provides[q]}
                             ELSE {q \in Providers(t, k) : ids[q] = j}
  <2>1. t[k] \in Seq(Plugin)
    BY DEF Tables
  <2>2. {q \in Providers(t, k) : ids[q] = ids[p]} = {}
    BY DEF ListedAt, NoEntries
  <2>3. CASE k \in Provides[p]
    <3>1. Providers(WithPlugin(Collision, t, p), k) = Providers(t, k) \cup {p}
      BY <2>1, <2>3, AppendElements DEF WithPlugin, Providers
    <3>. QED  BY <2>2, <2>3, <3>1
  <2>4. CASE k \notin Provides[p]
    <3>1. Providers(WithPlugin(Collision, t, p), k) = Providers(t, k)
      BY <2>4 DEF WithPlugin, Providers
    <3>. QED  BY <2>2, <2>4, <3>1
  <2>. QED  BY <2>3, <2>4
<1>. QED  BY <1>1 DEF ListedAt, Entries

\* A step that leaves ids alone, component by component.
LEMMA SameAt ==
  ASSUME idOf' = idOf, NEW j,
         registry'.plugins[j] = registry.plugins[j],
         registry'.dependencies[j] = registry.dependencies[j],
         \A q \in handlers \cup handlers' : idOf[q] = j => (q \in handlers <=> q \in handlers'),
         ListedAt(table', idOf, j) = ListedAt(table, idOf, j),
         \A q \in initialized \cup initialized' : idOf[q] = j => (q \in initialized <=> q \in initialized'),
         \A q \in shutdown \cup shutdown' : idOf[q] = j => (q \in shutdown <=> q \in shutdown')
  PROVE  At(j)' = At(j)
<1>1. {q \in handlers' : idOf'[q] = j} = {q \in handlers : idOf[q] = j}
  OBVIOUS
<1>2. /\ {q \in initialized' : idOf'[q] = j} = {q \in initialized : idOf[q] = j}
      /\ {q \in shutdown' : idOf'[q] = j} = {q \in shutdown : idOf[q] = j}
  OBVIOUS
<1>. QED  BY <1>1, <1>2 DEF At

\* Whose handlers and capabilities there can be where an operation works.
LEMMA GuestsAt ==
  ASSUME NEW point \in Guarded, NEW l, NEW s, Placed(point, l, s)
  PROVE  /\ s.heard \subseteq {l.plug, l.old}
         /\ s.listed \in {NoEntries, Entries(l.plug), Entries(l.old)}
<1>1. CASE point \notin Reloading
  <2>1. Alone(point, s, l.plug)
    BY <1>1 DEF Placed
  <2>2. \/ Stands(s, l.plug, {l.plug}, Entries(l.plug))
        \/ Stands(s, l.plug, {}, NoEntries)
        \/ Stands(s, NoPlugin, {}, NoEntries)
    BY <1>1, <2>1 DEF Alone, Serving, Guarded
  <2>. QED  BY <2>2 DEF Stands
<1>2. CASE point \in Reloading
  <2>1. Beside(point, s, l.plug, l.old)
    BY <1>2 DEF Placed
  <2>2. \/ Stands(s, l.old, {l.old}, Entries(l.old))
        \/ Stands(s, l.old, {l.old, l.plug}, Entries(l.old))
        \/ Stands(s, l.plug, {l.old, l.plug}, Entries(l.plug))
        \/ Stands(s, l.plug, {l.plug}, Entries(l.plug))
    BY <1>2, <2>1 DEF Beside, Serving
  <2>. QED  BY <2>2 DEF Stands
<1>. QED  BY <1>1, <1>2

\* An instance that nobody has got to work with can be given any id.
LEMMA UnknownMoves ==
  ASSUME Typed, GuardExclusive, Residence, NEW p \in Plugin, p \notin Taken, NEW i \in PluginId,
         idOf' = [idOf EXCEPT ![p] = i],
         UNCHANGED <<registry, handlers, table, initialized, shutdown>>
  PROVE  /\ \A q \in Taken : idOf'[q] = idOf[q]
         /\ \A j \in PluginId : At(j)' = At(j)
<1>0. idOf \in [Plugin -> PluginId] /\ initialized \cup shutdown \subseteq Taken
  BY DEF Typed, InstancesTyped, Residence, Known
<1>1. \A q : q # p => idOf'[q] = idOf[q]
  BY <1>0
<1>2. ASSUME NEW j \in PluginId
      PROVE  At(j).heard \cup UNION {At(j).listed[k] : k \in Cap} \subseteq Taken \cup {NoPlugin}
  <2>0. /\ \A q : \A k \in Cap : Entries(q)[k] \subseteq {q} /\ NoEntries[k] = {}
        /\ At(j).held = registry.plugins[j]
    BY DEF Entries, NoEntries, At
  <2>1. CASE j \notin active
    <3>1. Settled(j) /\ At(j).held \in Taken \cup {NoPlugin}
      BY <1>2, <2>0, <2>1 DEF Residence, Known
    <3>. QED  BY <2>0, <3>1 DEF Settled, Stands, Serving
  <2>2. CASE j \in active
    <3>1. PICK d \in Call : pc[d] \in Guarded /\ loc[d].id = j
      BY <2>2 DEF GuardExclusive, InGuard
    <3>2. /\ Placed(pc[d], loc[d], At(j))
          /\ {loc[d].plug, loc[d].old} \subseteq Taken \cup {NoPlugin}
      BY <3>1 DEF Residence, Known
    <3>3. /\ At(j).heard \subseteq {loc[d].plug, loc[d].old}
          /\ At(j).listed \in {NoEntries, Entries(loc[d].plug), Entries(loc[d].old)}
      BY <3>1, <3>2, GuestsAt
    <3>. QED  BY <2>0, <3>2, <3>3
  <2>. QED  BY <2>1, <2>2
<1>3. p \notin handlers /\ \A k \in Cap : p \notin Providers(table, k)
  <2>1. p \in At(idOf[p]).heard <=> p \in handlers
    BY <1>0 DEF At
  <2>2. \A k \in Cap : p \in At(idOf[p]).listed[k] <=> p \in Providers(table, k)
    BY <1>0 DEF At, ListedAt
  <2>3. p # NoPlugin /\ idOf[p] \in PluginId
    BY <1>0, LifecycleAssumption
  <2>. QED  BY <1>2, <2>1, <2>2, <2>3
<1>4. ASSUME NEW j \in PluginId
      PROVE  At(j)' = At(j)
  <2>1. {q \in handlers : idOf'[q] = j} = {q \in handlers : idOf[q] = j}
    BY <1>1, <1>3
  <2>2. /\ {q \in initialized : idOf'[q] = j} = {q \in initialized : idOf[q] = j}
        /\ {q \in shutdown : idOf'[q] = j} = {q \in shutdown : idOf[q] = j}
    BY <1>0, <1>1
  <2>3. \A k \in Cap :
          {q \in Providers(table, k) : idOf'[q] = j} = {q \in Providers(table, k) : idOf[q] = j}
    BY <1>1, <1>3
  <2>4. ListedAt(table, idOf', j) = ListedAt(table, idOf, j)
    BY <2>3 DEF ListedAt
  <2>. QED  BY <2>1, <2>2, <2>4 DEF At
<1>. QED  BY <1>1, <1>4

\* From r to s only the entry and the edges of i change.
EntryIs(r, s, i, p, deps) ==
  /\ s.plugins = [r.plugins EXCEPT ![i] = p]
  /\ s.dependencies = [r.dependencies EXCEPT ![i] = deps]

SameEntries(r, s) == s.plugins = r.plugins /\ s.dependencies = r.dependencies

LEMMA RegistryStepAt ==
  ASSUME NEW r, RP!Consistent(r), NEW i \in PluginId, NEW p \in Plugin,
         NEW deps \in SUBSET PluginId
  PROVE  /\ EntryIs(r, R!Removed(r, i), i, NoPlugin, {})
         /\ EntryIs(r, R!Added(r, i, p, deps), i, p, deps)
<1>1. /\ R!Removed(r, i) = RP!Removed(r, i)
      /\ R!Added(r, i, p, deps) = RP!Added(r, i, p, deps)
  BY RegistryOperators
<1>2. EntryIs(r, RP!Removed(r, i), i, NoPlugin, {})
  BY KernelRegistry, RP!RemovedEntry DEF EntryIs
<1>3. EntryIs(r, RP!Added(r, i, p, deps), i, p, deps)
  BY KernelRegistry, RP!AddedEntry DEF EntryIs
<1>. QED  BY <1>1, <1>2, <1>3

LEMMA RegistrySwapAt ==
  ASSUME NEW r, RP!Consistent(r), NEW i \in PluginId, NEW p \in Plugin,
         NEW deps \in SUBSET PluginId, NEW s, s = R!SwapAttempted(r, i, p, deps)
  PROVE  IF R!CanSwap(r, i, p, deps) THEN EntryIs(r, s, i, p, deps) ELSE SameEntries(r, s)
<1>1. R!CanSwap(r, i, p, deps) <=> RP!CanSwap(r, i, p, deps)
  BY DEF R!CanSwap, RP!CanSwap, R!Members, RP!Members, R!CanReplaceEdges, RP!CanReplaceEdges,
         R!ClosesCycle, RP!ClosesCycle, R!Detached, RP!Detached
<1>2. s = RP!SwapAttempted(r, i, p, deps)
  BY RegistryOperators
<1>3. IF RP!CanSwap(r, i, p, deps)
      THEN EntryIs(r, RP!SwapAttempted(r, i, p, deps), i, p, deps)
      ELSE SameEntries(r, RP!SwapAttempted(r, i, p, deps))
  BY KernelRegistry, RP!SwapEntry DEF EntryIs, SameEntries
<1>. QED  BY <1>1, <1>2, <1>3

-----------------------------------------------------------------------------
(* The steps of an operation inside the guard. *)

\* What is known in every step of a call.
Dwelling ==
  /\ Undisturbed /\ Typed /\ GuardExclusive /\ Locking /\ Residence
  /\ NoForcedRemoval => RP!Present(registry)

\* A step of c inside the guard that works on the instances of its id.
WorksAt(c, i) ==
  /\ pc[c] \in Guarded /\ i = loc[c].id
  /\ \A f \in {"id", "plug", "old", "oldDeps", "newDeps"} : loc'[c][f] = loc[c][f]
  /\ idOf' = idOf
  /\ \A j \in PluginId : j # i => At(j)' = At(j)
  /\ initialized' \subseteq initialized \cup {loc[c].plug}
  /\ shutdown' \subseteq shutdown \cup ({loc[c].plug, loc[c].old} \ {NoPlugin})
  /\ registry'.plugins[i] \in {registry.plugins[i], loc[c].plug, NoPlugin}
  /\ Unattached(At(i)')

LEMMA WorkerAt ==
  ASSUME Dwelling, NEW c \in Call, pc[c] \in Guarded
  PROVE  /\ loc[c].id \in PluginId /\ loc[c].plug \in Plugin \cap Taken
         /\ idOf[loc[c].plug] = loc[c].id
         /\ Unattached(At(loc[c].id))
         /\ \/ /\ pc[c] \notin Reloading /\ loc[c].old = NoPlugin
               /\ Alone(pc[c], At(loc[c].id), loc[c].plug)
            \/ /\ pc[c] \in Reloading /\ loc[c].old \in Plugin \cap Taken
               /\ loc[c].old # loc[c].plug /\ idOf[loc[c].old] = loc[c].id
               /\ Beside(pc[c], At(loc[c].id), loc[c].plug, loc[c].old)
<1>1. /\ loc[c].id \in PluginId /\ loc[c].plug \in Plugin
      /\ pc[c] \in Reloading => loc[c].old \in Plugin
      /\ Placed(pc[c], loc[c], At(loc[c].id))
      /\ {loc[c].plug, loc[c].old} \subseteq Taken \cup {NoPlugin}
      /\ Unattached(At(loc[c].id))
  BY DEF Dwelling, Typed, CallsTyped, Equipped, Residence, Known
<1>. QED  BY <1>1, LifecycleAssumption DEF Placed

LEMMA WorkerKnown ==
  ASSUME Dwelling, NEW c \in Call, NEW i, Proceeds(c), WorksAt(c, i),
         pc'[c] \notin {"idle", "await_lock"}
  PROVE  /\ Taken \subseteq Taken'
         /\ initialized' \cup shutdown' \subseteq Taken'
         /\ registry'.plugins[i] \in Taken' \cup {NoPlugin}
         /\ {loc'[c].plug, loc'[c].old} \subseteq Taken' \cup {NoPlugin}
         /\ Confined(i)
<1>1. loc'[c].plug = loc[c].plug /\ loc'[c].old = loc[c].old /\ i \in PluginId
  BY WorkerAt DEF WorksAt
<1>2. Taken \subseteq Taken'
  BY <1>1, TakenStays DEF Dwelling, Typed
<1>3. loc[c].plug \in Taken /\ loc[c].old \in Taken \cup {NoPlugin}
  BY WorkerAt DEF WorksAt
<1>4. initialized \cup shutdown \subseteq Taken /\ registry.plugins[i] \in Taken \cup {NoPlugin}
  BY <1>1 DEF Dwelling, Residence, Known
<1>. QED  BY <1>1, <1>2, <1>3, <1>4 DEF WorksAt, Confined

LEMMA GoesOnAlone ==
  ASSUME Dwelling, CallsTyped', NEW c \in Call, NEW i, Proceeds(c), WorksAt(c, i),
         pc[c] \notin Reloading, pc'[c] \in Guarded \ Reloading, active' = active,
         Alone(pc'[c], At(i)', loc[c].plug)
  PROVE  Residence'
<1>1. /\ loc'[c].plug = loc[c].plug /\ loc'[c].old = loc[c].old /\ loc'[c].id = i
      /\ i \in PluginId /\ i \in active /\ idOf' = idOf
      /\ loc[c].old = NoPlugin /\ idOf[loc[c].plug] = i
  BY WorkerAt DEF WorksAt, Dwelling, GuardExclusive, InGuard
<1>2. Placed(pc[c], loc[c], At(i))'
  BY <1>1 DEF Placed
<1>3. pc'[c] \notin {"idle", "await_lock"}
  BY DEF Guarded
<1>. QED  BY <1>1, <1>2, <1>3, WorkerKnown, Resides DEF WorksAt, Dwelling, Typed

LEMMA GoesOnBeside ==
  ASSUME Dwelling, CallsTyped', NEW c \in Call, NEW i, Proceeds(c), WorksAt(c, i),
         pc[c] \in Reloading, pc'[c] \in Reloading, active' = active,
         pc'[c] \in {"get_state", "reload_on_start"} => pc[c] = "get_state" /\ At(i)'.edges = At(i).edges,
         Beside(pc'[c], At(i)', loc[c].plug, loc[c].old)
  PROVE  Residence'
<1>1. /\ loc'[c].plug = loc[c].plug /\ loc'[c].old = loc[c].old /\ loc'[c].id = i
      /\ loc'[c].oldDeps = loc[c].oldDeps /\ loc'[c].newDeps = loc[c].newDeps
      /\ i \in PluginId /\ i \in active /\ idOf' = idOf
      /\ idOf[loc[c].plug] = i /\ idOf[loc[c].old] = i /\ loc[c].old # loc[c].plug
  BY WorkerAt DEF WorksAt, Dwelling, GuardExclusive, InGuard
<1>2. Placed(pc[c], loc[c], At(i))
  BY DEF WorksAt, Dwelling, Residence
<1>3. Placed(pc[c], loc[c], At(i))'
  BY <1>1, <1>2 DEF Placed
<1>4. pc'[c] \in Guarded /\ pc'[c] \notin {"idle", "await_lock"}
  BY DEF Guarded
<1>. QED  BY <1>1, <1>3, <1>4, WorkerKnown, Resides DEF WorksAt, Dwelling, Typed

\* An operation that ends leaves what can be left to itself.
LEMMA Departs ==
  ASSUME Dwelling, CallsTyped', NEW c \in Call, NEW i, Proceeds(c), WorksAt(c, i),
         NEW outcome \in Final, Finish(c, outcome), Settled(i)'
  PROVE  Residence' /\ pc'[c] = outcome
<1>1. pc'[c] = outcome /\ active' = active \ {i}
  BY DEF Dwelling, Residence, Orderly, Typed, CallsTyped, Finish, LeaveLock, Goto, WorksAt
<1>2. pc'[c] \notin Guarded /\ pc'[c] \notin {"idle", "await_lock"}
  BY <1>1 DEF Guarded, Final
<1>3. i \in PluginId /\ loc'[c].plug = loc[c].plug
  BY WorkerAt DEF WorksAt
<1>. QED  BY <1>1, <1>2, <1>3, WorkerKnown, Resides DEF WorksAt, Dwelling, Typed

\* The edges that a plugin gets.
LEMMA NeedlessEdges ==
  ASSUME NEW p \in Plugin, Needless(p)
  PROVE  NewEdges(p) = {} /\ \A i : SwapEdges(p, i) = {}
BY DEF Needless, NewEdges, RequirementEdges, SwapEdges

\* The facts about types that every step needs.
LEMMA DwellingTypes ==
  ASSUME Dwelling
  PROVE  /\ CallsTyped /\ GraphTyped /\ InstancesTyped /\ GuardExclusive /\ Residence
         /\ DOMAIN loc = Call /\ pc \in [Call -> PCs]
         /\ \A c \in Call : TypedLocals(loc[c]) /\ kind[c] # "stop"
         /\ RP!Consistent(registry) /\ registry.plugins \in [PluginId -> Plugin \cup {NoPlugin}]
         /\ registry.dependencies \in [PluginId -> SUBSET PluginId]
         /\ table \in Tables /\ idOf \in [Plugin -> PluginId]
         /\ initialized \cup shutdown \subseteq Taken
         /\ NoPlugin \notin Plugin /\ Collision # "first_wins"
BY RegistryTypes, LifecycleAssumption
   DEF Dwelling, Typed, CallsTyped, GraphTyped, InstancesTyped, Residence, Known, Orderly, Undisturbed

LEMMA RegisterEnters ==
  ASSUME Dwelling, CallsTyped', NEW c \in Call, Proceeds(c),
         NEW p \in Plugin, AboutToRegister(c, p), NEW i, i = idOf[p],
         RegisterRejected(c, p) \/ RegisterRefused(c, p) \/ RegisterStart(c, p)
  PROVE  Residence'
<1>0. /\ CallsTyped /\ GraphTyped /\ InstancesTyped /\ GuardExclusive /\ Residence
      /\ TypedLocals(loc[c]) /\ DOMAIN loc = Call /\ pc \in [Call -> PCs]
      /\ RP!Consistent(registry) /\ registry.plugins \in [PluginId -> Plugin \cup {NoPlugin}]
      /\ registry.dependencies \in [PluginId -> SUBSET PluginId]
      /\ table \in Tables /\ idOf \in [Plugin -> PluginId]
      /\ initialized \cup shutdown \subseteq Taken
      /\ NoPlugin \notin Plugin /\ kind[c] # "stop"
      /\ Collision # "first_wins"
  BY DwellingTypes
<1>1. CASE RegisterRejected(c, p)
  <2>1. /\ pc'[c] = "raised" /\ pc[c] = "await_lock" /\ loc' = loc /\ active' = active
        /\ idOf' = idOf /\ UNCHANGED <<registry, table, handlers, initialized, shutdown>>
    BY <1>0, <1>1 DEF RegisterRejected, AboutToRegister, Refuse, Goto, graph, instances
  <2>2. \A j \in PluginId : At(j)' = At(j)
    BY <2>1 DEF At
  <2>. QED  BY <1>0, <2>1, <2>2, StaysPut DEF Guarded
<1>2. ASSUME Admissible(p), ~Busy(idOf[p])
      PROVE  /\ i \in PluginId \ active /\ registry.plugins[i] = NoPlugin
             /\ Stands(At(i), NoPlugin, {}, NoEntries)
             /\ p \notin Taken /\ p = loc[c].plug /\ pc[c] = "await_lock"
             /\ kind[c] \in {"register", "load"} /\ loc[c].old = NoPlugin
  <2>1. i \in PluginId \ active /\ registry.plugins[i] = NoPlugin
    BY <1>0, <1>2 DEF Admissible, Busy, Registered, R!Members
  <2>2. Settled(i)
    BY <1>0, <2>1 DEF Residence
  <2>3. p = loc[c].plug /\ pc[c] = "await_lock" /\ kind[c] \in {"register", "load"}
    BY DEF AboutToRegister
  <2>4. \A d \in Call : Hands(d) /\ pc[d] # "await_lock" => loc[d].plug # p
    BY <1>0, <2>3 DEF Residence, Orderly, Hands
  <2>. QED  BY <1>0, <2>1, <2>2, <2>3, <2>4 DEF Settled, Taken, Residence, Orderly
<1>3. CASE RegisterRefused(c, p)
  <2>1. /\ pc'[c] = "raised" /\ pc[c] = "await_lock" /\ loc' = loc /\ active' = active
        /\ idOf' = idOf /\ UNCHANGED <<registry, initialized, shutdown>>
        /\ handlers' = HandlersWithout(i) /\ table' = WithoutPlugin(table, i, idOf)
        /\ Stands(At(i), NoPlugin, {}, NoEntries)
    BY <1>0, <1>2, <1>3 DEF RegisterRefused, AboutToRegister, Refuse, Goto, instances
  <2>2. ASSUME NEW j \in PluginId  PROVE At(j)' = At(j)
    <3>2. ListedAt(table', idOf, j) = ListedAt(table, idOf, j)
      BY <1>0, <2>1, WithoutPluginAt DEF Stands, At
    <3>3. \A q \in handlers : idOf[q] # i
      BY <2>1 DEF Stands, At
    <3>. QED  BY <2>1, <3>2, <3>3, SameAt DEF HandlersWithout
  <2>. QED  BY <1>0, <2>1, <2>2, StaysPut DEF Guarded
<1>4. CASE RegisterStart(c, p)
  <2>0. PICK edges : edges = NewEdges(p)
    OBVIOUS
  <2>1. /\ i \in PluginId \ active /\ Stands(At(i), NoPlugin, {}, NoEntries)
        /\ p \notin Taken /\ p = loc[c].plug /\ pc[c] = "await_lock"
        /\ kind[c] \in {"register", "load"} /\ loc[c].old = NoPlugin
    BY <1>2, <1>4 DEF RegisterStart
  <2>2. p \notin initialized \cup shutdown
    BY <1>0, <2>1
  <2>3. /\ pc'[c] = "on_start" /\ loc' = [loc EXCEPT ![c].id = i] /\ active' = active \cup {i}
        /\ registry' = R!Added(registry, i, p, edges) /\ handlers' = handlers \cup {p}
        /\ table' = WithPlugin(Collision, table, p)
        /\ idOf' = idOf /\ UNCHANGED <<initialized, shutdown>>
    BY <1>0, <1>4, <2>0, <2>2 DEF RegisterStart, Goto, instances
  <2>4. loc'[c].id = i /\ loc'[c].plug = p /\ loc'[c].old = NoPlugin
    BY <1>0, <2>1, <2>3 DEF TypedLocals, NoLocals
  <2>5. edges \in SUBSET PluginId
    BY <1>0, <1>4, <2>0, NewEdgesTyped DEF RegisterStart, Admissible, Admits
  <2>6. /\ registry'.plugins = [registry.plugins EXCEPT ![i] = p]
        /\ registry'.dependencies = [registry.dependencies EXCEPT ![i] = edges]
    <3>1. i \in PluginId /\ RP!Consistent(registry)
      BY <1>0, <2>1
    <3>2. EntryIs(registry, R!Added(registry, i, p, edges), i, p, edges)
      BY <2>5, <3>1, RegistryStepAt
    <3>. QED  BY <2>3, <3>2 DEF EntryIs
  <2>7. \A j \in PluginId :
        ListedAt(table', idOf, j) = IF j = i THEN Entries(p) ELSE ListedAt(table, idOf, j)
    BY <1>0, <2>1, <2>3, WithPluginAt DEF Stands, At
  <2>8. \A j \in PluginId : j # i => At(j)' = At(j)
    BY <1>0, <2>3, <2>6, <2>7, SameAt
  <2>9. Stands(At(i)', p, {p}, Entries(p)) /\ Fresh(At(i)', p) /\ At(i)'.edges = edges
    <3>1. {q \in handlers : idOf[q] = i} = {}
      BY <2>1 DEF Stands, At
    <3>2. {q \in handlers' : idOf'[q] = i} = {p}
      BY <2>3, <3>1
    <3>3. registry'.plugins[i] = p /\ registry'.dependencies[i] = edges
      BY <1>0, <2>1, <2>6
    <3>4. ListedAt(table', idOf', i) = Entries(p)
      BY <2>1, <2>3, <2>7
    <3>. QED  BY <2>2, <2>3, <3>2, <3>3, <3>4 DEF Stands, Fresh, At
  <2>10. Unattached(At(i)')
    BY <1>0, <2>0, <2>9, NeedlessEdges DEF Unattached, Stands
  <2>11. Placed(pc[c], loc[c], At(i))'
    BY <2>3, <2>4, <2>9 DEF Placed, Alone
  <2>12. Taken \subseteq Taken' /\ p \in Taken'
    BY <1>0, <2>1, <2>3, <2>4, TakenStays
  <2>13. pc[c] \notin Guarded /\ pc'[c] \in Guarded /\ pc'[c] \notin {"idle", "await_lock"}
    BY <2>1, <2>3 DEF Guarded
  <2>14. registry'.plugins[i] = p
    BY <2>9 DEF Stands, At
  <2>15. Confined(i)
    BY <2>3, <2>8 DEF Confined
  <2>. QED
    BY <1>0, <2>1, <2>3, <2>4, <2>10, <2>11, <2>12, <2>13, <2>14, <2>15, Resides
<1>. QED  BY <1>1, <1>3, <1>4

LEMMA RegisterGoesOn ==
  ASSUME Dwelling, CallsTyped', NEW c \in Call, Proceeds(c), pc[c] \in Registering,
         NEW i, NEW p, i = loc[c].id, p = loc[c].plug,
         \/ OnStartReturns(c) \/ OnStartRaises(c) \/ RegisterRolledBack(c) \/ RegisterReturns(c)
  PROVE  Residence'
<1>0. /\ CallsTyped /\ GraphTyped /\ InstancesTyped /\ GuardExclusive /\ Residence
      /\ TypedLocals(loc[c]) /\ DOMAIN loc = Call /\ pc \in [Call -> PCs]
      /\ RP!Consistent(registry) /\ registry.plugins \in [PluginId -> Plugin \cup {NoPlugin}]
      /\ registry.dependencies \in [PluginId -> SUBSET PluginId]
      /\ table \in Tables /\ idOf \in [Plugin -> PluginId]
      /\ initialized \cup shutdown \subseteq Taken
      /\ NoPlugin \notin Plugin /\ kind[c] # "stop"
  BY DwellingTypes
<1>5. /\ i \in PluginId /\ p \in Plugin /\ idOf[p] = i /\ pc[c] \in Guarded \ Reloading
      /\ Alone(pc[c], At(i), p) /\ Unattached(At(i))
  BY WorkerAt DEF Guarded
<1>6. CASE OnStartReturns(c)
  <2>1. /\ pc'[c] = "hook_registered" /\ initialized' = initialized \cup {p} /\ loc' = loc
        /\ active' = active /\ idOf' = idOf
        /\ UNCHANGED <<registry, table, handlers, shutdown>> /\ pc[c] = "on_start"
    BY <1>0, <1>6 DEF OnStartReturns, Goto, graph
  <2>2. Stands(At(i), p, {p}, Entries(p)) /\ Fresh(At(i), p) /\ p \in Plugin /\ idOf[p] = i
    BY <1>5, <2>1 DEF Alone
  <2>3. Serving(At(i)', p)
    BY <2>1, <2>2 DEF Serving, Stands, Up, Fresh, At
  <2>4. \A j \in PluginId : j # i => At(j)' = At(j)
    BY <2>1, <2>2, SameAt
  <2>5. Unattached(At(i)')
    BY <1>5, <2>1 DEF Unattached, At
  <2>6. WorksAt(c, i)
    BY <1>5, <2>1, <2>4, <2>5 DEF WorksAt
  <2>7. Alone(pc'[c], At(i)', p)
    BY <2>1, <2>3 DEF Alone
  <2>. QED  BY <1>5, <2>1, <2>6, <2>7, GoesOnAlone DEF Guarded
<1>7. CASE OnStartRaises(c)
  <2>1. /\ pc'[c] = "rollback" /\ loc' = loc /\ active' = active /\ idOf' = idOf
        /\ handlers' = HandlersWithout(i) /\ table' = WithoutPlugin(table, i, idOf)
        /\ UNCHANGED <<registry, initialized, shutdown>> /\ pc[c] = "on_start"
    BY <1>0, <1>7 DEF OnStartRaises, Goto, instances
  <2>2. Stands(At(i), p, {p}, Entries(p)) /\ Fresh(At(i), p) /\ p \in Plugin /\ idOf[p] = i
    BY <1>5, <2>1 DEF Alone
  <2>3. \A j \in PluginId :
        ListedAt(table', idOf, j) = IF j = i THEN NoEntries ELSE ListedAt(table, idOf, j)
    BY <1>0, <2>1, WithoutPluginAt
  <2>4. Stands(At(i)', p, {}, NoEntries) /\ Fresh(At(i)', p)
    BY <1>5, <2>1, <2>2, <2>3 DEF Stands, Fresh, At, HandlersWithout
  <2>5. \A j \in PluginId : j # i => At(j)' = At(j)
    BY <2>1, <2>3, SameAt DEF HandlersWithout
  <2>6. Unattached(At(i)')
    BY <1>5, <2>1 DEF Unattached, At
  <2>7. WorksAt(c, i)
    BY <1>5, <2>1, <2>5, <2>6 DEF WorksAt
  <2>8. Alone(pc'[c], At(i)', p)
    BY <2>1, <2>4 DEF Alone
  <2>. QED  BY <1>5, <2>1, <2>7, <2>8, GoesOnAlone DEF Guarded
<1>8. CASE RegisterRolledBack(c)
  <2>1. /\ pc[c] = "rollback" /\ loc' = loc /\ idOf' = idOf /\ Finish(c, "raised")
        /\ UNCHANGED <<table, handlers, initialized, shutdown>>
    BY <1>8 DEF RegisterRolledBack, instances
  <2>2. Stands(At(i), p, {}, NoEntries) /\ p \in Plugin /\ i \in PluginId
    BY <1>5, <2>1 DEF Alone
  <2>3. i \in Registered
    BY <1>0, <2>2 DEF Registered, R!Members, Stands, At
  <2>4. /\ registry'.plugins = [registry.plugins EXCEPT ![i] = NoPlugin]
        /\ registry'.dependencies = [registry.dependencies EXCEPT ![i] = {}]
    BY <1>0, <1>8, <2>2, <2>3, RegistryStepAt DEF RegisterRolledBack, EntryIs
  <2>5. Stands(At(i)', NoPlugin, {}, NoEntries)
    BY <1>0, <2>1, <2>2, <2>4 DEF Stands, At
  <2>6. \A j \in PluginId : j # i => At(j)' = At(j)
    BY <1>0, <2>1, <2>4, SameAt
  <2>7. WorksAt(c, i)
    BY <1>0, <1>5, <2>1, <2>4, <2>5, <2>6 DEF WorksAt, Unattached, Stands
  <2>. QED  BY <2>1, <2>5, <2>7, Departs DEF Settled, Final
<1>9. CASE RegisterReturns(c)
  <2>1. /\ pc[c] = "hook_registered" /\ loc' = loc /\ idOf' = idOf /\ Finish(c, "returned")
        /\ UNCHANGED <<registry, table, handlers, initialized, shutdown>>
    BY <1>9 DEF RegisterReturns, instances, graph
  <2>2. Serving(At(i), p) /\ p \in Plugin /\ idOf[p] = i
    BY <1>5, <2>1 DEF Alone
  <2>3. \A j \in PluginId : At(j)' = At(j)
    BY <2>1 DEF At
  <2>4. WorksAt(c, i)
    BY <1>5, <2>1, <2>3 DEF WorksAt
  <2>5. registry.plugins[i] = p
    BY <2>2 DEF Serving, Stands, At
  <2>6. Settled(i)'
    BY <1>0, <1>5, <2>1, <2>2, <2>3, <2>5 DEF Settled
  <2>. QED  BY <2>1, <2>4, <2>6, Departs DEF Final
<1>. QED  BY <1>6, <1>7, <1>8, <1>9

LEMMA RegisterResides ==
  ASSUME Dwelling, CallsTyped', NEW c \in Call, Proceeds(c), RegisterStep(c)
  PROVE  Residence'
<1>1. ASSUME NEW p \in Plugin,
             RegisterRejected(c, p) \/ RegisterRefused(c, p) \/ RegisterStart(c, p)
      PROVE  Residence'
  <2>1. AboutToRegister(c, p)
    BY <1>1 DEF RegisterRejected, RegisterRefused, RegisterStart
  <2>2. \A i : i = idOf[p] => Residence'
    BY <1>1, <2>1, RegisterEnters
  <2>. QED  BY <2>2
<1>2. CASE \/ OnStartReturns(c) \/ OnStartRaises(c)
           \/ RegisterRolledBack(c) \/ RegisterReturns(c)
  <2>1. pc[c] \in Registering
    BY <1>2 DEF OnStartReturns, OnStartRaises, RegisterRolledBack, RegisterReturns
  <2>2. \A i, p : i = loc[c].id /\ p = loc[c].plug => Residence'
    BY <1>2, <2>1, RegisterGoesOn
  <2>. QED  BY <2>2
<1>. QED  BY <1>1, <1>2 DEF RegisterStep

\* The `finally` of an unregistration, which ends it or waits.
LEMMA DrainResides ==
  ASSUME Dwelling, CallsTyped', NEW c \in Call, Proceeds(c), pc[c] \in Unregistering,
         NEW i, i = loc[c].id, NEW outcome \in Final, DrainFinally(c, outcome),
         UNCHANGED <<idOf, initialized>>, shutdown' \in {shutdown, shutdown \cup {loc[c].plug}},
         registry'.plugins[i] = NoPlugin,
         \A j \in PluginId : j # i => /\ registry'.plugins[j] = registry.plugins[j]
                                      /\ registry'.dependencies[j] = registry.dependencies[j]
  PROVE  Residence'
<1>0. /\ table \in Tables /\ DOMAIN loc = Call /\ TypedLocals(loc[c]) /\ pc \in [Call -> PCs]
      /\ handlers' = HandlersWithout(i) /\ table' = WithoutPlugin(table, i, idOf)
      /\ NoPlugin \notin Plugin
  BY DwellingTypes DEF GraphTyped, DrainFinally
<1>1. /\ i \in PluginId /\ loc[c].plug \in Plugin /\ idOf[loc[c].plug] = i
      /\ pc[c] \in Guarded \ Reloading
  BY WorkerAt DEF Guarded
<1>2. \A j \in PluginId :
        ListedAt(table', idOf, j) = IF j = i THEN NoEntries ELSE ListedAt(table, idOf, j)
  BY <1>0, WithoutPluginAt
<1>3. \A j \in PluginId : j # i => At(j)' = At(j)
  BY <1>0, <1>1, <1>2, SameAt DEF HandlersWithout
<1>4. Stands(At(i)', NoPlugin, {}, NoEntries)
  <2>1. {q \in handlers' : idOf'[q] = i} = {}
    BY <1>0 DEF HandlersWithout
  <2>. QED  BY <1>1, <1>2, <2>1 DEF Stands, At
<1>5. \A f \in {"id", "plug", "old", "oldDeps", "newDeps"} : loc'[c][f] = loc[c][f]
  BY <1>0 DEF DrainFinally, TypedLocals, NoLocals
<1>6. WorksAt(c, i)
  <2>1. Unattached(At(i)')
    BY <1>4 DEF Unattached, Stands
  <2>2. shutdown' \subseteq shutdown \cup ({loc[c].plug, loc[c].old} \ {NoPlugin})
    BY <1>0, <1>1
  <2>. QED  BY <1>1, <1>3, <1>5, <2>1, <2>2 DEF WorksAt
<1>7. CASE Finish(c, outcome)
  BY <1>4, <1>6, <1>7, Departs DEF Settled
<1>8. CASE Goto(c, "final_drain") /\ active' = active
  <2>1. pc'[c] = "final_drain"
    BY <1>0, <1>8 DEF Goto
  <2>2. Alone(pc'[c], At(i)', loc[c].plug)
    BY <1>4, <2>1 DEF Alone
  <2>3. pc'[c] \in Guarded \ Reloading
    BY <2>1 DEF Guarded
  <2>. QED  BY <1>1, <1>6, <1>8, <2>2, <2>3, GoesOnAlone
<1>. QED  BY <1>7, <1>8 DEF DrainFinally

LEMMA UnregisterEnters ==
  ASSUME Dwelling, CallsTyped', NEW c \in Call, Proceeds(c), NEW i \in PluginId,
         UnregisterRefused(c, i) \/ UnregisterStart(c, i)
  PROVE  Residence'
<1>0. /\ CallsTyped /\ GuardExclusive /\ Residence /\ kind[c] # "stop"
      /\ TypedLocals(loc[c]) /\ DOMAIN loc = Call /\ pc \in [Call -> PCs]
      /\ idOf \in [Plugin -> PluginId] /\ initialized \cup shutdown \subseteq Taken
      /\ NoPlugin \notin Plugin /\ pc[c] # "teardown"
  BY DwellingTypes DEF Dwelling, Locking, Chains, InStop
<1>1. /\ pc[c] = "await_lock" /\ kind[c] \in {"unregister", "force"} /\ i = loc[c].id
      /\ loc[c].old = NoPlugin
  BY <1>0 DEF UnregisterRefused, UnregisterStart, AboutToUnregister, Residence, Orderly
<1>2. CASE UnregisterRefused(c, i)
  <2>1. /\ pc'[c] \in {"returned", "raised"} /\ active' = active
        /\ idOf' = idOf /\ UNCHANGED <<registry, table, handlers, initialized, shutdown>>
    BY <1>0, <1>2 DEF UnregisterRefused, Refuse, Goto, graph, instances
  <2>2. \A j \in PluginId : At(j)' = At(j)
    BY <2>1 DEF At
  <2>. QED  BY <1>0, <1>1, <2>1, <2>2, StaysPut DEF Guarded
<1>3. CASE UnregisterStart(c, i)
  <2>1. PICK p : p = registry.plugins[i]
    OBVIOUS
  <2>2. i \notin active /\ p # NoPlugin
    BY <1>3, <2>1 DEF UnregisterStart, Busy, Registered, R!Members
  <2>3. At(i).held = p /\ p \in Taken /\ Unattached(At(i))
    BY <1>0, <2>1, <2>2 DEF At, Residence, Known
  <2>4. Serving(At(i), p) /\ idOf[p] = i
    BY <1>0, <2>1, <2>2, <2>3 DEF Residence, Settled, Stands
  <2>5. p \in initialized \ shutdown
    BY <2>4 DEF Serving, Up, At
  <2>6. /\ pc'[c] = "on_stop" /\ loc' = [loc EXCEPT ![c].plug = p] /\ active' = active \cup {i}
        /\ UNCHANGED <<registry, table, handlers, idOf, initialized, shutdown>>
    BY <1>0, <1>1, <1>3, <2>1, <2>5 DEF UnregisterStart, Locals, Goto, instances
  <2>7. loc'[c].plug = p /\ loc'[c].id = i /\ loc'[c].old = NoPlugin
    BY <1>0, <1>1, <2>6 DEF TypedLocals, NoLocals
  <2>8. \A j \in PluginId : At(j)' = At(j)
    BY <2>6 DEF At
  <2>9. Placed(pc[c], loc[c], At(i))'
    BY <2>4, <2>6, <2>7, <2>8 DEF Placed, Alone
  <2>10. Taken \subseteq Taken'
    BY <1>0, <1>1, <2>6, TakenStays
  <2>11. pc[c] \notin Guarded /\ pc'[c] \in Guarded /\ pc'[c] \notin {"idle", "await_lock"}
    BY <1>1, <2>6 DEF Guarded
  <2>12. Confined(i)
    BY <2>6, <2>8 DEF Confined
  <2>. QED
    BY <1>0, <1>1, <2>1, <2>2, <2>3, <2>6, <2>7, <2>8, <2>9, <2>10, <2>11, <2>12, Resides
<1>. QED  BY <1>2, <1>3

LEMMA UnregisterGoesOn ==
  ASSUME Dwelling, CallsTyped', NEW c \in Call, Proceeds(c), pc[c] \in Unregistering,
         NEW i, NEW p, i = loc[c].id, p = loc[c].plug,
         \/ OnStopEnds(c) \/ StopEnds(c) \/ StopEndsWithDependents(c) \/ UnregisterReturns(c)
         \/ FinalDrainEnds(c)
  PROVE  Residence'
<1>0. /\ CallsTyped /\ TypedLocals(loc[c]) /\ DOMAIN loc = Call /\ pc \in [Call -> PCs]
      /\ RP!Consistent(registry) /\ registry.plugins \in [PluginId -> Plugin \cup {NoPlugin}]
      /\ registry.dependencies \in [PluginId -> SUBSET PluginId]
      /\ table \in Tables /\ idOf \in [Plugin -> PluginId]
      /\ NoPlugin \notin Plugin
  BY DwellingTypes
<1>1. /\ i \in PluginId /\ p \in Plugin /\ idOf[p] = i /\ pc[c] \in Guarded \ Reloading
      /\ Alone(pc[c], At(i), p) /\ Unattached(At(i))
  BY WorkerAt DEF Guarded
<1>2. EntryIs(registry, R!Removed(registry, i), i, NoPlugin, {})
  BY <1>0, <1>1, RegistryStepAt
<1>3. CASE OnStopEnds(c)
  <2>1. /\ pc'[c] = "stopping_tasks" /\ loc' = loc /\ active' = active /\ idOf' = idOf
        /\ handlers' = HandlersWithout(i) /\ table' = WithoutPlugin(table, i, idOf)
        /\ UNCHANGED <<registry, initialized, shutdown>> /\ pc[c] = "on_stop"
    BY <1>0, <1>3 DEF OnStopEnds, Goto, instances
  <2>2. Stands(At(i), p, {p}, Entries(p)) /\ Up(At(i), p)
    BY <1>1, <2>1 DEF Alone, Serving
  <2>3. \A j \in PluginId :
        ListedAt(table', idOf, j) = IF j = i THEN NoEntries ELSE ListedAt(table, idOf, j)
    BY <1>0, <2>1, WithoutPluginAt
  <2>4. Stands(At(i)', p, {}, NoEntries) /\ Up(At(i)', p)
    BY <1>1, <2>1, <2>2, <2>3 DEF Stands, Up, At, HandlersWithout
  <2>5. \A j \in PluginId : j # i => At(j)' = At(j)
    BY <2>1, <2>3, SameAt DEF HandlersWithout
  <2>6. Unattached(At(i)')
    BY <1>1, <2>1 DEF Unattached, At
  <2>7. WorksAt(c, i)
    BY <1>1, <2>1, <2>5, <2>6 DEF WorksAt
  <2>8. Alone(pc'[c], At(i)', p)
    BY <2>1, <2>4 DEF Alone
  <2>. QED  BY <1>1, <2>1, <2>7, <2>8, GoesOnAlone DEF Guarded
<1>4. CASE StopEnds(c)
  <2>1. /\ pc'[c] = "hook_unregistered" /\ loc' = loc /\ active' = active /\ idOf' = idOf
        /\ registry' = R!Removed(registry, i) /\ shutdown' = shutdown \cup {p}
        /\ UNCHANGED <<handlers, table, initialized>> /\ pc[c] = "stopping_tasks"
    BY <1>0, <1>4 DEF StopEnds, Goto
  <2>2. Stands(At(i), p, {}, NoEntries)
    BY <1>1, <2>1 DEF Alone
  <2>3. /\ registry'.plugins = [registry.plugins EXCEPT ![i] = NoPlugin]
        /\ registry'.dependencies = [registry.dependencies EXCEPT ![i] = {}]
    BY <1>2, <2>1 DEF EntryIs
  <2>4. Stands(At(i)', NoPlugin, {}, NoEntries)
    BY <1>0, <1>1, <2>1, <2>2, <2>3 DEF Stands, At
  <2>5. \A j \in PluginId : j # i => At(j)' = At(j)
    BY <1>0, <1>1, <2>1, <2>3, SameAt
  <2>6. WorksAt(c, i)
    BY <1>0, <1>1, <2>1, <2>3, <2>4, <2>5 DEF WorksAt, Unattached, Stands
  <2>7. Alone(pc'[c], At(i)', p)
    BY <2>1, <2>4 DEF Alone
  <2>. QED  BY <1>1, <2>1, <2>6, <2>7, GoesOnAlone DEF Guarded
<1>5. CASE StopEndsWithDependents(c)
  <2>1. /\ pc[c] = "stopping_tasks" /\ shutdown' = shutdown \cup {p}
        /\ UNCHANGED <<idOf, initialized>> /\ DrainFinally(c, "raised")
        /\ registry' = IF i \in Registered THEN R!Removed(registry, i) ELSE registry
    BY <1>5 DEF StopEndsWithDependents
  <2>2. Stands(At(i), p, {}, NoEntries)
    BY <1>1, <2>1 DEF Alone
  <2>3. i \in Registered
    BY <1>0, <1>1, <2>2 DEF Registered, R!Members, Stands, At
  <2>4. /\ registry'.plugins = [registry.plugins EXCEPT ![i] = NoPlugin]
        /\ registry'.dependencies = [registry.dependencies EXCEPT ![i] = {}]
    BY <1>2, <2>1, <2>3 DEF EntryIs
  <2>. QED  BY <1>0, <1>1, <2>1, <2>4, DrainResides DEF Final
<1>6. CASE UnregisterReturns(c)
  <2>1. /\ pc[c] = "hook_unregistered" /\ DrainFinally(c, "returned")
        /\ UNCHANGED <<registry, idOf, initialized, shutdown>>
    BY <1>6 DEF UnregisterReturns, instances
  <2>2. registry.plugins[i] = NoPlugin
    BY <1>1, <2>1 DEF Alone, Stands, At
  <2>. QED  BY <1>1, <2>1, <2>2, DrainResides DEF Final
<1>7. CASE FinalDrainEnds(c)
  <2>1. /\ pc[c] = "final_drain" /\ loc' = loc /\ idOf' = idOf /\ Finish(c, loc[c].ends)
        /\ UNCHANGED <<registry, table, handlers, initialized, shutdown>>
    BY <1>7 DEF FinalDrainEnds, instances, graph
  <2>2. Stands(At(i), NoPlugin, {}, NoEntries)
    BY <1>1, <2>1 DEF Alone
  <2>3. \A j \in PluginId : At(j)' = At(j)
    BY <2>1 DEF At
  <2>4. WorksAt(c, i)
    BY <1>1, <2>1, <2>3 DEF WorksAt
  <2>5. Settled(i)' /\ loc[c].ends \in Final
    BY <1>0, <1>1, <2>2, <2>3 DEF Settled, TypedLocals
  <2>. QED  BY <2>1, <2>4, <2>5, Departs
<1>. QED  BY <1>3, <1>4, <1>5, <1>6, <1>7

LEMMA UnregisterResides ==
  ASSUME Dwelling, CallsTyped', NEW c \in Call, Proceeds(c), UnregisterStep(c)
  PROVE  Residence'
<1>1. ASSUME NEW i \in PluginId, UnregisterRefused(c, i) \/ UnregisterStart(c, i)
      PROVE  Residence'
  BY <1>1, UnregisterEnters
<1>2. CASE \/ OnStopEnds(c) \/ StopEnds(c) \/ StopEndsWithDependents(c)
           \/ UnregisterReturns(c) \/ FinalDrainEnds(c)
  <2>1. pc[c] \in Unregistering
    BY <1>2 DEF OnStopEnds, StopEnds, StopEndsWithDependents, UnregisterReturns, FinalDrainEnds
  <2>2. \A i, p : i = loc[c].id /\ p = loc[c].plug => Residence'
    BY <1>2, <2>1, UnregisterGoesOn
  <2>. QED  BY <2>2
<1>. QED  BY <1>1, <1>2 DEF UnregisterStep

LEMMA SwapRestoresAt ==
  ASSUME NEW r, RP!Consistent(r), NEW i \in PluginId, NEW p \in Plugin,
         NEW deps \in SUBSET PluginId, R!CanSwap(r, i, p, deps),
         r.dependencies[i] \subseteq R!Members(r)
  PROVE  SameEntries(r, R!SwapAttempted(R!SwapAttempted(r, i, p, deps), i,
                                        r.plugins[i], r.dependencies[i]))
<1>1. RP!CanSwap(r, i, p, deps)
  BY DEF R!CanSwap, RP!CanSwap, R!Members, RP!Members, R!CanReplaceEdges, RP!CanReplaceEdges,
         R!ClosesCycle, RP!ClosesCycle, R!Detached, RP!Detached
<1>2. r.dependencies[i] \subseteq RP!Members(r)
  BY RegistryOperators
<1>3. SameEntries(r, RP!SwapAttempted(RP!SwapAttempted(r, i, p, deps), i,
                                      r.plugins[i], r.dependencies[i]))
  BY <1>1, <1>2, KernelRegistry, RP!SwapRestores DEF SameEntries
<1>4. R!SwapAttempted(r, i, p, deps) = RP!SwapAttempted(r, i, p, deps)
  BY RegistryOperators
<1>5. \A s, q, d : R!SwapAttempted(s, i, q, d) = RP!SwapAttempted(s, i, q, d)
  BY RegistryOperators
<1>. QED  BY <1>3, <1>4, <1>5

LEMMA ReloadEnters ==
  ASSUME Dwelling, CallsTyped', NEW c \in Call, Proceeds(c), NEW p \in Plugin, NEW i \in PluginId,
         ReloadRefused(c, p, i) \/ ReloadStart(c, p, i)
  PROVE  Residence'
<1>0. /\ CallsTyped /\ Typed /\ GuardExclusive /\ Residence /\ kind[c] # "stop"
      /\ TypedLocals(loc[c]) /\ DOMAIN loc = Call /\ pc \in [Call -> PCs]
      /\ idOf \in [Plugin -> PluginId] /\ initialized \cup shutdown \subseteq Taken
      /\ NoPlugin \notin Plugin
  BY DwellingTypes DEF Dwelling
<1>1. /\ pc[c] = "await_lock" /\ kind[c] = "load" /\ p = loc[c].plug
      /\ registry.plugins[i] # NoPlugin
      /\ idOf' = [idOf EXCEPT ![p] = i]
      /\ UNCHANGED <<registry, handlers, table, initialized, shutdown>>
  BY DEF ReloadRefused, ReloadStart, AboutToReload, graph, Live, Registered, R!Members
<1>2. p \notin Taken /\ loc[c].old = NoPlugin
  <2>1. \A d \in Call : Hands(d) /\ pc[d] # "await_lock" => loc[d].plug # p
    BY <1>0, <1>1 DEF Residence, Orderly, Hands
  <2>. QED  BY <1>0, <1>1, <2>1 DEF Taken, Residence, Orderly
<1>3. /\ \A q \in Taken : idOf'[q] = idOf[q]
      /\ \A j \in PluginId : At(j)' = At(j)
  BY <1>0, <1>1, <1>2, UnknownMoves
<1>4. CASE ReloadRefused(c, p, i)
  <2>1. pc'[c] = "raised" /\ active' = active /\ loc' = loc
    BY <1>0, <1>1, <1>4 DEF ReloadRefused, Refuse, Goto
  <2>. QED  BY <1>0, <1>1, <1>3, <2>1, StaysPut DEF Guarded
<1>5. CASE ReloadStart(c, p, i)
  <2>1. PICK o : o = registry.plugins[i]
    OBVIOUS
  <2>2. i \notin active /\ At(i).held = o /\ o \in Taken /\ Unattached(At(i))
    BY <1>0, <1>1, <1>5, <2>1 DEF ReloadStart, Busy, At, Residence, Known
  <2>3. Serving(At(i), o) /\ idOf[o] = i
    BY <1>0, <1>1, <2>1, <2>2 DEF Residence, Settled, Stands
  <2>4. Fresh(At(i), p)
    BY <1>0, <1>2 DEF Fresh, At
  <2>5. PICK l : l = loc'[c]
    OBVIOUS
  <2>6. /\ pc'[c] = "get_state" /\ active' = active \cup {i}
        /\ l.plug = p /\ l.id = i /\ l.old = o
        /\ l.newDeps = SwapEdges(p, i) /\ l.oldDeps = registry.dependencies[i]
    BY <1>0, <1>1, <1>5, <2>1, <2>5 DEF ReloadStart, Goto, TypedLocals, NoLocals
  <2>7. /\ idOf'[p] = i /\ idOf'[o] = i /\ o # p
        /\ l.oldDeps = At(i)'.edges /\ (Needless(p) => l.newDeps = {})
    BY <1>0, <1>1, <1>2, <1>3, <2>2, <2>3, <2>6, NeedlessEdges DEF At
  <2>8. Beside("get_state", At(i)', p, o)
    BY <1>3, <2>3, <2>4 DEF Beside
  <2>9. Placed(pc[c], loc[c], At(i))'
    BY <2>5, <2>6, <2>7, <2>8 DEF Placed
  <2>10. Taken \subseteq Taken' /\ p \in Taken'
    BY <1>0, <1>1, <2>5, <2>6, TakenStays
  <2>11. pc[c] \notin Guarded /\ pc'[c] \in Guarded /\ pc'[c] \notin {"idle", "await_lock"}
    BY <1>1, <2>6 DEF Guarded
  <2>12. Confined(i) /\ Unattached(At(i)')
    BY <1>3, <2>2 DEF Confined
  <2>. QED
    BY <1>0, <1>1, <2>1, <2>2, <2>5, <2>6, <2>9, <2>10, <2>11, <2>12, Resides
<1>. QED  BY <1>4, <1>5

\* A reload that ends leaves one of the two instances in service.
LEMMA ReloadEnds ==
  ASSUME Dwelling, CallsTyped', NEW c \in Call, Proceeds(c), pc[c] \in Reloading,
         NEW i, i = loc[c].id, NEW q \in {loc[c].plug, loc[c].old}, Serving(At(i), q),
         NEW outcome \in Final, Finish(c, outcome), loc' = loc,
         UNCHANGED <<registry, table, handlers, idOf, initialized, shutdown>>
  PROVE  Residence'
<1>1. /\ i \in PluginId /\ q \in Plugin /\ idOf[q] = i /\ pc[c] \in Guarded /\ Unattached(At(i))
      /\ NoPlugin \notin Plugin
  BY WorkerAt, LifecycleAssumption DEF Guarded
<1>2. \A j \in PluginId : At(j)' = At(j)
  BY DEF At
<1>3. WorksAt(c, i)
  BY <1>1, <1>2 DEF WorksAt
<1>4. registry.plugins[i] = q
  BY DEF Serving, Stands, At
<1>5. Settled(i)'
  BY <1>1, <1>2, <1>4 DEF Settled
<1>. QED  BY <1>3, <1>5, Departs

LEMMA ReloadPrepares ==
  ASSUME Dwelling, CallsTyped', NEW c \in Call, Proceeds(c), pc[c] \in Reloading,
         NEW i, NEW p, NEW o, i = loc[c].id, p = loc[c].plug, o = loc[c].old,
         GetStateReturns(c) \/ ReloadOnStartRaises(c)
  PROVE  Residence'
<1>0. /\ TypedLocals(loc[c]) /\ DOMAIN loc = Call /\ pc \in [Call -> PCs]
      /\ idOf \in [Plugin -> PluginId] /\ NoPlugin \notin Plugin
  BY DwellingTypes
<1>1. /\ i \in PluginId /\ p \in Plugin /\ o \in Plugin /\ idOf[p] = i /\ idOf[o] = i /\ p # o
      /\ pc[c] \in Guarded /\ Unattached(At(i)) /\ Beside(pc[c], At(i), p, o)
  BY WorkerAt DEF Guarded
<1>2. /\ loc' = loc /\ active' = active
      /\ UNCHANGED <<registry, table, idOf, initialized, shutdown>>
  BY DEF GetStateReturns, ReloadOnStartRaises, instances
<1>3. handlers' \in {handlers \cup {p}, handlers \ {p}}
  BY DEF GetStateReturns, ReloadOnStartRaises, HandlersWithoutInstance
<1>4. \A j \in PluginId : j # i => At(j)' = At(j)
  BY <1>1, <1>2, <1>3, SameAt
<1>5. Unattached(At(i)') /\ At(i)'.edges = At(i).edges
  BY <1>1, <1>2 DEF Unattached, At
<1>6. WorksAt(c, i)
  BY <1>1, <1>2, <1>4, <1>5 DEF WorksAt
<1>7. CASE GetStateReturns(c)
  <2>1. pc[c] = "get_state" /\ pc'[c] = "reload_on_start" /\ handlers' = handlers \cup {p}
    BY <1>0, <1>7 DEF GetStateReturns, Goto
  <2>2. Serving(At(i), o) /\ Fresh(At(i), p)
    BY <1>1, <2>1 DEF Beside
  <2>3. Stands(At(i)', o, {o, p}, Entries(o)) /\ Up(At(i)', o) /\ Fresh(At(i)', p)
    BY <1>1, <1>2, <2>1, <2>2 DEF Serving, Stands, Up, Fresh, At
  <2>4. Beside(pc'[c], At(i)', p, o)
    BY <2>1, <2>3 DEF Beside
  <2>. QED  BY <1>2, <1>5, <1>6, <2>1, <2>4, GoesOnBeside
<1>8. CASE ReloadOnStartRaises(c)
  <2>1. pc[c] = "reload_on_start" /\ pc'[c] = "reload_rollback" /\ handlers' = handlers \ {p}
    BY <1>0, <1>8 DEF ReloadOnStartRaises, Goto, HandlersWithoutInstance
  <2>2. Stands(At(i), o, {o, p}, Entries(o)) /\ Up(At(i), o)
    BY <1>1, <2>1 DEF Beside
  <2>3. Serving(At(i)', o)
    BY <1>1, <1>2, <2>1, <2>2 DEF Serving, Stands, Up, At
  <2>4. Beside(pc'[c], At(i)', p, o)
    BY <2>1, <2>3 DEF Beside
  <2>. QED  BY <1>2, <1>6, <2>1, <2>4, GoesOnBeside
<1>. QED  BY <1>7, <1>8

\* A swap that raises leaves the entries and the edges as they were.
LEMMA RaisingSwapRestores ==
  ASSUME Dwelling, NEW c \in Call, pc[c] = "reload_on_start", SwapRaises(c)
  PROVE  SameEntries(registry, registry')
<1> SUFFICES ASSUME NEW i, NEW p, NEW o, NEW new, i = loc[c].id, p = loc[c].plug, o = loc[c].old,
                    new = loc[c].newDeps
             PROVE  SameEntries(registry, registry')
  OBVIOUS
<1>0. /\ TypedLocals(loc[c])
      /\ RP!Consistent(registry) /\ registry.plugins \in [PluginId -> Plugin \cup {NoPlugin}]
      /\ registry.dependencies \in [PluginId -> SUBSET PluginId]
      /\ NoPlugin \notin Plugin
  BY DwellingTypes
<1>1. /\ i \in PluginId /\ p \in Plugin /\ o \in Plugin
      /\ Unattached(At(i)) /\ Beside(pc[c], At(i), p, o)
  BY WorkerAt DEF Guarded
<1>2. registry.plugins[i] = o
  BY <1>1 DEF Beside, Stands, At
<1>3. loc[c].oldDeps = registry.dependencies[i] /\ new \in SUBSET PluginId
  BY <1>0, <1>1 DEF Dwelling, Residence, Placed, At, TypedLocals, Guarded
<1>4. PICK s : s = Swapped(registry, c)
  OBVIOUS
<1>5. IF R!CanSwap(registry, i, p, new) THEN EntryIs(registry, s, i, p, new)
                                        ELSE SameEntries(registry, s)
  BY <1>0, <1>1, <1>3, <1>4, RegistrySwapAt DEF Swapped
<1>6. /\ registry' = IF R!CanSwap(registry, i, p, new) THEN SwappedBack(s, c) ELSE s
      /\ R!CanSwap(registry, i, p, new) => p \in Broken
  BY <1>4 DEF SwapRaises
<1>7. CASE ~R!CanSwap(registry, i, p, new)
  BY <1>5, <1>6, <1>7
<1>8. CASE R!CanSwap(registry, i, p, new)
  <2>1. registry.dependencies[i] \subseteq R!Members(registry)
    <3>1. CASE NoForcedRemoval
      BY <1>0, <1>1, <1>2, <3>1 DEF Dwelling, RP!Present, R!Members, RP!Members
    <3>2. CASE ~NoForcedRemoval
      <4>1. NameOf[o] = NameOf[p]
        BY <1>2, <1>8 DEF R!CanSwap
      <4>2. Needless(o)
        BY <1>1, <1>6, <1>8, <3>2, <4>1 DEF Dwelling, Undisturbed
      <4>. QED  BY <1>0, <1>1, <1>2, <4>2 DEF Unattached, At
    <3>. QED  BY <3>1, <3>2
  <2>2. registry' = R!SwapAttempted(R!SwapAttempted(registry, i, p, new), i,
                                    registry.plugins[i], registry.dependencies[i])
    BY <1>2, <1>3, <1>4, <1>6, <1>8 DEF Swapped, SwappedBack
  <2>. QED  BY <1>0, <1>1, <1>3, <1>8, <2>1, <2>2, SwapRestoresAt
<1>. QED  BY <1>7, <1>8

\* Between the two instances.
LEMMA ReloadSwitches ==
  ASSUME Dwelling, CallsTyped', NEW c \in Call, Proceeds(c), pc[c] = "reload_on_start",
         NEW i, NEW p, NEW o, i = loc[c].id, p = loc[c].plug, o = loc[c].old,
         ReloadOnStartReturns(c) \/ SwapRaises(c)
  PROVE  Residence'
<1>0. /\ TypedLocals(loc[c]) /\ DOMAIN loc = Call /\ pc \in [Call -> PCs]
      /\ RP!Consistent(registry) /\ registry.plugins \in [PluginId -> Plugin \cup {NoPlugin}]
      /\ registry.dependencies \in [PluginId -> SUBSET PluginId]
      /\ idOf \in [Plugin -> PluginId] /\ NoPlugin \notin Plugin /\ table \in Tables
  BY DwellingTypes
<1>1. /\ i \in PluginId /\ p \in Plugin /\ o \in Plugin /\ idOf[p] = i /\ idOf[o] = i /\ p # o
      /\ pc[c] \in Guarded /\ Unattached(At(i)) /\ Beside(pc[c], At(i), p, o)
  BY WorkerAt DEF Guarded
<1>2. /\ Stands(At(i), o, {o, p}, Entries(o)) /\ Up(At(i), o) /\ Fresh(At(i), p)
      /\ registry.plugins[i] = o
  BY <1>1 DEF Beside, Stands, At
<1>3. PICK new : new = loc[c].newDeps
  OBVIOUS
<1>4. (Needless(p) => new = {}) /\ new \in SUBSET PluginId
  BY <1>0, <1>1, <1>3 DEF Dwelling, Residence, Placed, At, TypedLocals
<1>5. /\ loc' = loc /\ active' = active /\ initialized' = initialized \cup {p}
      /\ UNCHANGED <<idOf, shutdown>>
  BY DEF ReloadOnStartReturns, SwapRaises
<1>6. PICK s : s = Swapped(registry, c)
  OBVIOUS
<1>7. IF R!CanSwap(registry, i, p, new) THEN EntryIs(registry, s, i, p, new)
                                        ELSE SameEntries(registry, s)
  BY <1>0, <1>1, <1>3, <1>4, <1>6, RegistrySwapAt DEF Swapped
<1>8. CASE ReloadOnStartReturns(c)
  <2>1. /\ pc'[c] = "restore_state" /\ handlers' = handlers
        /\ table' = ProviderSwapped(table, p, idOf) /\ registry' = s
        /\ R!CanSwap(registry, i, p, new)
    BY <1>0, <1>3, <1>6, <1>8 DEF ReloadOnStartReturns, Goto
  <2>2. /\ registry'.plugins = [registry.plugins EXCEPT ![i] = p]
        /\ registry'.dependencies = [registry.dependencies EXCEPT ![i] = new]
    BY <1>7, <2>1 DEF EntryIs
  <2>3. \A j \in PluginId :
        ListedAt(table', idOf, j) = IF j = i THEN Entries(p) ELSE ListedAt(table, idOf, j)
    BY <1>0, <1>1, <2>1, ProviderSwappedAt
  <2>4. \A j \in PluginId : j # i => At(j)' = At(j)
    BY <1>0, <1>1, <1>5, <2>1, <2>2, <2>3, SameAt
  <2>5. Stands(At(i)', p, {o, p}, Entries(p)) /\ Up(At(i)', o) /\ Up(At(i)', p)
    BY <1>0, <1>1, <1>2, <1>5, <2>1, <2>2, <2>3 DEF Stands, Up, Fresh, At
  <2>6. registry'.plugins[i] = p /\ At(i)'.edges = new
    BY <1>0, <1>1, <2>2 DEF At
  <2>7. Unattached(At(i)')
    BY <1>0, <1>4, <2>5, <2>6 DEF Unattached, Stands
  <2>8. WorksAt(c, i)
    BY <1>1, <1>5, <2>4, <2>6, <2>7 DEF WorksAt
  <2>9. Beside(pc'[c], At(i)', p, o)
    BY <2>1, <2>5 DEF Beside
  <2>. QED  BY <1>5, <2>1, <2>8, <2>9, GoesOnBeside
<1>9. CASE SwapRaises(c)
  <2>1. pc'[c] = "reload_rollback" /\ handlers' = handlers \ {p} /\ table' = table
    BY <1>0, <1>9 DEF SwapRaises, Goto, HandlersWithoutInstance
  <2>2. SameEntries(registry, registry')
    BY <1>9, RaisingSwapRestores
  <2>3. \A j \in PluginId : j # i => At(j)' = At(j)
    BY <1>1, <1>5, <2>1, <2>2, SameAt DEF SameEntries
  <2>4. Serving(At(i)', o)
    BY <1>1, <1>2, <1>5, <2>1, <2>2 DEF Serving, Stands, Up, At, SameEntries
  <2>5. Unattached(At(i)') /\ registry'.plugins[i] = o
    BY <1>1, <1>2, <2>2 DEF Unattached, At, SameEntries
  <2>6. WorksAt(c, i)
    BY <1>1, <1>2, <1>5, <2>3, <2>5 DEF WorksAt
  <2>7. Beside(pc'[c], At(i)', p, o)
    BY <2>1, <2>4 DEF Beside
  <2>. QED  BY <1>5, <2>1, <2>6, <2>7, GoesOnBeside
<1>. QED  BY <1>8, <1>9

LEMMA ReloadFinishes ==
  ASSUME Dwelling, CallsTyped', NEW c \in Call, Proceeds(c), pc[c] \in Reloading,
         NEW i, NEW p, NEW o, i = loc[c].id, p = loc[c].plug, o = loc[c].old,
         \/ GetStateRaises(c) \/ ReloadRolledBack(c) \/ ReloadReturns(c)
         \/ RestoreStateReturns(c) \/ OldOnStopEnds(c)
  PROVE  Residence'
<1>0. /\ TypedLocals(loc[c]) /\ DOMAIN loc = Call /\ pc \in [Call -> PCs]
      /\ idOf \in [Plugin -> PluginId] /\ NoPlugin \notin Plugin
  BY DwellingTypes
<1>1. /\ i \in PluginId /\ p \in Plugin /\ o \in Plugin /\ idOf[p] = i /\ idOf[o] = i /\ p # o
      /\ pc[c] \in Guarded /\ Unattached(At(i)) /\ Beside(pc[c], At(i), p, o)
  BY WorkerAt DEF Guarded
<1>2. CASE GetStateRaises(c)
  <2>1. Serving(At(i), o)
    BY <1>1, <1>2 DEF GetStateRaises, Beside
  <2>. QED  BY <1>2, <2>1, ReloadEnds DEF GetStateRaises, graph, instances, Final
<1>3. CASE ReloadRolledBack(c)
  <2>1. Serving(At(i), o)
    BY <1>1, <1>3 DEF ReloadRolledBack, Beside
  <2>. QED  BY <1>3, <2>1, ReloadEnds DEF ReloadRolledBack, graph, instances, Final
<1>4. CASE ReloadReturns(c)
  <2>1. Serving(At(i), p)
    BY <1>1, <1>4 DEF ReloadReturns, Beside
  <2>. QED  BY <1>4, <2>1, ReloadEnds DEF ReloadReturns, graph, instances, Final
<1>5. CASE RestoreStateReturns(c)
  <2>1. /\ pc[c] = "restore_state" /\ pc'[c] = "reload_on_stop" /\ loc' = loc /\ active' = active
        /\ UNCHANGED <<registry, table, handlers, idOf, initialized, shutdown>>
    BY <1>0, <1>5 DEF RestoreStateReturns, Goto, graph, instances
  <2>2. \A j \in PluginId : At(j)' = At(j)
    BY <2>1 DEF At
  <2>3. WorksAt(c, i)
    BY <1>1, <2>1, <2>2 DEF WorksAt
  <2>4. Beside(pc'[c], At(i)', p, o)
    BY <1>1, <2>1, <2>2 DEF Beside
  <2>. QED  BY <2>1, <2>3, <2>4, GoesOnBeside
<1>6. CASE OldOnStopEnds(c)
  <2>1. /\ pc[c] = "reload_on_stop" /\ pc'[c] = "reload_drain" /\ loc' = loc /\ active' = active
        /\ shutdown' = shutdown \cup {o} /\ handlers' = handlers \ {o}
        /\ UNCHANGED <<registry, table, idOf, initialized>>
    BY <1>0, <1>6 DEF OldOnStopEnds, Goto, HandlersWithoutInstance
  <2>2. Stands(At(i), p, {o, p}, Entries(p)) /\ Up(At(i), p)
    BY <1>1, <2>1 DEF Beside
  <2>3. \A j \in PluginId : j # i => At(j)' = At(j)
    BY <1>1, <2>1, SameAt
  <2>4. Serving(At(i)', p)
    BY <1>1, <2>1, <2>2 DEF Serving, Stands, Up, At
  <2>5. Unattached(At(i)')
    BY <1>1, <2>1 DEF Unattached, At
  <2>6. WorksAt(c, i)
    BY <1>0, <1>1, <2>1, <2>3, <2>5 DEF WorksAt
  <2>7. Beside(pc'[c], At(i)', p, o)
    BY <2>1, <2>4 DEF Beside
  <2>. QED  BY <2>1, <2>6, <2>7, GoesOnBeside
<1>. QED  BY <1>2, <1>3, <1>4, <1>5, <1>6

LEMMA ReloadResides ==
  ASSUME Dwelling, CallsTyped', NEW c \in Call, Proceeds(c), ReloadStep(c)
  PROVE  Residence'
<1>1. ASSUME NEW p \in Plugin, NEW i \in PluginId, ReloadRefused(c, p, i) \/ ReloadStart(c, p, i)
      PROVE  Residence'
  BY <1>1, ReloadEnters
<1>2. CASE GetStateReturns(c) \/ ReloadOnStartRaises(c)
  <2>1. pc[c] \in Reloading
    BY <1>2 DEF GetStateReturns, ReloadOnStartRaises
  <2>2. \A i, p, o : i = loc[c].id /\ p = loc[c].plug /\ o = loc[c].old => Residence'
    BY <1>2, <2>1, ReloadPrepares
  <2>. QED  BY <2>2
<1>3. CASE ReloadOnStartReturns(c) \/ SwapRaises(c)
  <2>1. pc[c] = "reload_on_start"
    BY <1>3 DEF ReloadOnStartReturns, SwapRaises
  <2>2. \A i, p, o : i = loc[c].id /\ p = loc[c].plug /\ o = loc[c].old => Residence'
    BY <1>3, <2>1, ReloadSwitches
  <2>. QED  BY <2>2
<1>4. CASE \/ GetStateRaises(c) \/ ReloadRolledBack(c) \/ ReloadReturns(c)
           \/ RestoreStateReturns(c) \/ OldOnStopEnds(c)
  <2>1. pc[c] \in Reloading
    BY <1>4 DEF GetStateRaises, ReloadRolledBack, ReloadReturns, RestoreStateReturns,
           OldOnStopEnds
  <2>2. \A i, p, o : i = loc[c].id /\ p = loc[c].plug /\ o = loc[c].old => Residence'
    BY <1>4, <2>1, ReloadFinishes
  <2>. QED  BY <2>2
<1>5. ~RestoreStateRaises(c)
  BY DEF RestoreStateRaises, Dwelling, Undisturbed
<1>. QED  BY <1>1, <1>2, <1>3, <1>4, <1>5 DEF ReloadStep

-----------------------------------------------------------------------------
(* The steps outside the guard, and the invariant. *)

LEMMA CoreResides ==
  ASSUME Dwelling, CallsTyped', NEW c \in Call, Proceeds(c), CoreStep(c)
  PROVE  Residence'
<1>0. /\ CallsTyped /\ Residence /\ pc \in [Call -> PCs] /\ kind[c] # "stop"
      /\ pc[c] \notin InStop
  BY DwellingTypes DEF Dwelling, Locking, Chains
<1>1. /\ pc'[c] \in {"stopped_hook", "returned", "raised", "run_hook", "init_hook"}
      /\ loc' = loc /\ active' = active
      /\ UNCHANGED <<registry, table, handlers, idOf, initialized, shutdown>>
  BY <1>0 DEF CoreStep, StopBegins, StopDrains, StopOrders, StopFinishes, StopReturns,
         StartBegins, StartRuns, StartReturns, Goto, graph, instances, InStop
<1>2. \A j \in PluginId : At(j)' = At(j)
  BY <1>1 DEF At
<1>. QED  BY <1>0, <1>1, <1>2, StaysPut DEF Guarded

LEMMA CancelResides ==
  ASSUME Dwelling, CallsTyped', NEW c \in Call, Proceeds(c), Cancel(c)
  PROVE  Residence'
<1>0. CallsTyped /\ Residence /\ pc \in [Call -> PCs] /\ pc[c] \notin Guarded
  BY DwellingTypes DEF Dwelling, Undisturbed, Cancel
<1>1. /\ pc'[c] = "cancelled" /\ loc' = loc /\ active' = active
      /\ UNCHANGED <<registry, table, handlers, idOf, initialized, shutdown>>
  BY <1>0 DEF Cancel, CancelledOutside, CancelledInside, CancelledUnregistering,
         CancelledInFinally, Guarded, Goto, graph, instances
<1>2. \A j \in PluginId : At(j)' = At(j)
  BY <1>1 DEF At
<1>. QED  BY <1>0, <1>1, <1>2, StaysPut DEF Guarded

\* The instance that a new call brings was never brought before.
LEMMA BroughtOnce ==
  ASSUME HandOnce, NEW k \in Operations, NEW args \in Arguments(k)
  PROVE  /\ args.old = NoPlugin
         /\ k \in {"register", "load"} => ~Handed(args.plug)
<1>1. CASE k = "register"
  <2>1. PICK p \in Instances : /\ args = [NoLocals EXCEPT !.plug = p, !.id = idOf[p]]
                               /\ ~Handed(p)
    BY <1>1 DEF Arguments
  <2>. QED  BY <2>1 DEF NoLocals
<1>2. CASE k = "load"
  <2>1. PICK p \in Sources : args = [NoLocals EXCEPT !.plug = p] /\ ~Handed(p)
    BY <1>2 DEF Arguments
  <2>. QED  BY <2>1 DEF NoLocals
<1>3. CASE k \in {"unregister", "force"}
  <2>1. PICK i \in PluginId : args = [NoLocals EXCEPT !.id = i, !.force = (k = "force")]
    BY <1>3 DEF Arguments
  <2>. QED  BY <1>3, <2>1 DEF NoLocals
<1>4. CASE k = "stop"
  <2>1. args = [NoLocals EXCEPT !.force = TRUE]
    BY <1>4 DEF Arguments
  <2>. QED  BY <1>4, <2>1 DEF NoLocals
<1>5. CASE k = "start"
  BY <1>5 DEF Arguments, NoLocals
<1>. QED  BY <1>1, <1>2, <1>3, <1>4, <1>5 DEF Operations

LEMMA InvokeResides ==
  ASSUME Dwelling, NEW c \in Call, NEW k \in Kinds, NEW caller, NEW own,
         Invoke(c, k, caller, own)
  PROVE  Residence'
<1>0. /\ CallsTyped /\ Residence /\ pc \in [Call -> PCs] /\ DOMAIN loc = Call
      /\ kind \in [Call -> Operations \cup {"none"}]
      /\ k \in Operations /\ k # "stop" /\ HandOnce
  BY DwellingTypes, LifecycleAssumption DEF CallsTyped, Dwelling, Undisturbed
<1>1. /\ pc[c] = "idle" /\ pc'[c] \in {"called", "raised", "await_lock"} /\ active' = active
      /\ UNCHANGED <<registry, table, handlers, idOf, initialized, shutdown>>
      /\ kind'[c] = k
      /\ \A d \in Call : d # c => pc'[d] = pc[d] /\ loc'[d] = loc[d] /\ kind'[d] = kind[d]
  BY <1>0 DEF Invoke, Goto, graph, instances
<1>2. PICK args \in Arguments(k) : loc' = [loc EXCEPT ![c] = args]
  BY DEF Invoke
<1>3. /\ loc'[c].old = NoPlugin
      /\ k \in {"register", "load"} => \A d \in Call : loc[d].plug # loc'[c].plug
  BY <1>0, <1>2, BroughtOnce DEF Handed
<1>4. \A j \in PluginId : At(j)' = At(j)
  BY <1>1 DEF At
<1>5. Orderly'
  <2>1. \A d \in Call : kind'[d] # "stop"
    BY <1>0, <1>1 DEF Residence, Orderly
  <2>2. \A d \in Call : d # c => (Hands(d)' <=> Hands(d))
    BY <1>1 DEF Hands
  <2>3. Hands(c)' => k \in {"register", "load"}
    BY <1>1 DEF Hands
  <2>4. ASSUME NEW d \in Call, NEW e \in Call, Hands(d)', Hands(e)', loc'[d].plug = loc'[e].plug
        PROVE  d = e
    <3>1. CASE d # c /\ e # c
      BY <1>0, <1>1, <2>2, <2>4, <3>1 DEF Residence, Orderly
    <3>2. CASE d = c /\ e # c
      BY <1>1, <1>3, <2>3, <2>4, <3>2
    <3>3. CASE d # c /\ e = c
      BY <1>1, <1>3, <2>3, <2>4, <3>3
    <3>. QED  BY <3>1, <3>2, <3>3
  <2>5. \A d \in Call : pc'[d] = "await_lock" => loc'[d].old = NoPlugin
    BY <1>0, <1>1, <1>3 DEF Residence, Orderly
  <2>. QED  BY <2>1, <2>4, <2>5 DEF Orderly
<1>6. Taken \subseteq Taken'
  <2>1. \A d \in Call : Hands(d) /\ pc[d] # "await_lock" =>
          Hands(d)' /\ pc'[d] # "await_lock" /\ loc'[d] = loc[d]
    BY <1>1 DEF Hands
  <2>. QED  BY <2>1 DEF Taken
<1>7. pc'[c] \notin Guarded
  BY <1>1 DEF Guarded
<1>8. Known'
  <2>1. \A d \in Call : pc'[d] \in Guarded =>
          {loc'[d].plug, loc'[d].old} \subseteq Taken' \cup {NoPlugin}
    BY <1>0, <1>1, <1>6, <1>7 DEF Residence, Known
  <2>. QED  BY <1>0, <1>1, <1>6, <2>1 DEF Residence, Known
<1>9. ASSUME NEW d \in Call, pc'[d] \in Guarded
      PROVE  Placed(pc[d], loc[d], At(loc[d].id))'
  <2>1. /\ d # c /\ pc[d] \in Guarded /\ pc'[d] = pc[d] /\ loc'[d] = loc[d]
        /\ loc[d].id \in PluginId /\ Placed(pc[d], loc[d], At(loc[d].id))
    BY <1>0, <1>1, <1>7, <1>9 DEF Residence, CallsTyped, Equipped
  <2>2. At(loc[d].id)' = At(loc[d].id)
    BY <1>4, <2>1
  <2>. QED  BY <1>1, <2>1, <2>2 DEF Placed
<1>10. \A j \in PluginId \ active' : Settled(j)'
  BY <1>0, <1>1, <1>4 DEF Residence, Settled
<1>11. \A j \in PluginId : Unattached(At(j)')
  BY <1>0, <1>4 DEF Residence
<1>. QED  BY <1>5, <1>8, <1>9, <1>10, <1>11 DEF Residence

LEMMA InitResides == Init => Residence
<1> SUFFICES ASSUME Init PROVE Residence
  OBVIOUS
<1>1. /\ \A c \in Call : pc[c] = "idle" /\ kind[c] = "none"
      /\ active = {} /\ handlers = {} /\ initialized = {} /\ shutdown = {}
      /\ table = EmptyTable
      /\ \A i \in PluginId : registry.plugins[i] = NoPlugin
  BY DEF Init, R!EmptyRegistry
<1>2. Orderly /\ Known
  BY <1>1 DEF Orderly, Known, Hands, Guarded
<1>3. \A i \in PluginId : Stands(At(i), NoPlugin, {}, NoEntries)
  <2>1. \A k \in Cap : Providers(table, k) = {}
    BY <1>1 DEF EmptyTable, Providers, ToSet
  <2>2. \A i : ListedAt(table, idOf, i) = NoEntries
    BY <2>1 DEF ListedAt, NoEntries
  <2>. QED  BY <1>1, <2>2 DEF Stands, At
<1>4. \A i \in PluginId : Unattached(At(i)) /\ Settled(i)
  BY <1>3 DEF Unattached, Settled, Stands
<1>. QED  BY <1>1, <1>2, <1>4 DEF Residence, Guarded

LEMMA AlwaysResides ==
  ASSUME Undisturbed
  PROVE  Spec => []Residence
<1>1. UnbrokenFinally
  BY DEF Undisturbed, UnbrokenFinally, Guarded
<1>2. Typed /\ Typed' /\ GuardExclusive /\ Locking /\ (NoForcedRemoval => RP!Present(registry))
        /\ Residence /\ [Next]_vars => Residence'
  <2> SUFFICES ASSUME Dwelling, CallsTyped', [Next]_vars PROVE Residence'
    BY DEF Dwelling, Typed
  <2>0. CallsTyped /\ state \in CoreStates
    BY DEF Dwelling, Typed, CoreTyped
  <2>1. ASSUME NEW c \in Call, Step(c)  PROVE Residence'
    <3>1. Proceeds(c)
      BY <2>0, <2>1, StepProceeds
    <3>. QED  BY <2>1, <3>1, RegisterResides, UnregisterResides, ReloadResides, CoreResides DEF Step
  <2>2. ASSUME NEW c \in Call, Cancel(c)  PROVE Residence'
    BY <2>0, <2>2, StepProceeds, CancelResides
  <2>3. ASSUME NEW c \in Call, NEW k \in Kinds, NEW caller \in {NoCall} \cup Call,
               NEW own \in OwnTask, Invoke(c, k, caller, own)
        PROVE  Residence'
    BY <2>3, InvokeResides
  <2>4. ASSUME UNCHANGED <<active, graph, instances, pc, call, loc>>  PROVE Residence'
    <3>1. \A j \in PluginId : At(j)' = At(j)
      BY <2>4 DEF At, graph, instances
    <3>2. Orderly' /\ Known' /\ \A j \in PluginId : Unattached(At(j)')
      BY <2>4, <3>1 DEF Dwelling, Residence, Orderly, Known, Hands, Taken, graph, instances, call
    <3>3. ASSUME NEW c \in Call, pc'[c] \in Guarded
          PROVE  Placed(pc[c], loc[c], At(loc[c].id))'
      <4>1. loc[c].id \in PluginId /\ Placed(pc[c], loc[c], At(loc[c].id))
        BY <2>0, <2>4, <3>3 DEF Dwelling, Residence, CallsTyped, Equipped
      <4>2. At(loc[c].id)' = At(loc[c].id)
        BY <2>4, <3>1, <4>1
      <4>. QED  BY <2>4, <4>1, <4>2 DEF Placed, instances
    <3>4. \A j \in PluginId \ active' : Settled(j)'
      BY <2>4, <3>1 DEF Dwelling, Residence, Settled, graph, instances
    <3>. QED  BY <3>2, <3>3, <3>4 DEF Residence
  <2>5. CASE List
    BY <2>4, <2>5 DEF List
  <2>6. CASE UNCHANGED vars
    BY <2>4, <2>6 DEF vars
  <2>. QED  BY <2>1, <2>2, <2>3, <2>5, <2>6 DEF Next
<1>3. CASE NoForcedRemoval
  <2>1. Depending => RP!Present(registry)
    BY DEF Depending
  <2>. QED  BY <1>1, <1>2, <2>1, <1>3, AlwaysDepending, AlwaysTyped, AlwaysLocking, GuardExcludes,
               InitResides, PTL DEF Spec
<1>4. CASE ~NoForcedRemoval
  BY <1>1, <1>2, <1>4, AlwaysTyped, AlwaysLocking, GuardExcludes, InitResides, PTL DEF Spec
<1>. QED  BY <1>3, <1>4

\* Of a plugin that is registered and that no operation works on: started and
\* not stopped, its handlers installed, its capabilities resolved to it.
THEOREM RegisteredServe ==
  ASSUME Undisturbed
  PROVE  Spec => []RegisteredIsLive
<1>1. Typed /\ Residence => RegisteredIsLive
  <2> SUFFICES ASSUME Typed, Residence, NEW i \in Registered \ active,
                      NEW p, p = registry.plugins[i]
               PROVE  /\ p \in (initialized \ shutdown) \cap handlers
                      /\ \A k \in Provides[p] : p \in Providers(table, k)
    BY DEF RegisteredIsLive
  <2>1. i \in PluginId /\ p \in Plugin
    BY RegistryTypes DEF Typed, GraphTyped, Registered, R!Members
  <2>2. Serving(At(i), p)
    BY <2>1, LifecycleAssumption DEF Residence, Settled, Stands, At
  <2>3. p \in At(i).heard /\ p \in At(i).started \ At(i).ended /\ At(i).listed = Entries(p)
    BY <2>2 DEF Serving, Stands, Up
  <2>4. p \in handlers /\ p \in initialized \ shutdown
    BY <2>3 DEF At
  <2>5. ASSUME NEW k \in Provides[p]
        PROVE  p \in Providers(table, k)
    <3>1. k \in Cap
      BY <2>1, <2>5, TableAssumption
    <3>2. p \in At(i).listed[k]
      BY <2>3, <3>1 DEF Entries
    <3>. QED  BY <3>1, <3>2 DEF At, ListedAt
  <2>. QED  BY <2>4, <2>5
<1>. QED  BY <1>1, AlwaysTyped, AlwaysResides, PTL

\* Nothing is left of an instance that is not registered, once no operation
\* works on its id.
THEOREM LeavesNothing ==
  ASSUME Undisturbed
  PROVE  Spec => []NothingLeaks
<1>1. Typed /\ Residence => NothingLeaks
  <2> SUFFICES ASSUME Typed, Residence, NEW p \in Plugin, idOf[p] \notin active,
                      p \in handlers \/ (\E k \in Cap : p \in Providers(table, k))
               PROVE  registry.plugins[idOf[p]] = p
    BY DEF NothingLeaks
  <2>0. PICK i \in PluginId : i = idOf[p]
    BY DEF Typed, InstancesTyped
  <2>1. p \in At(i).heard \/ \E k \in Cap : p \in At(i).listed[k]
    BY <2>0 DEF At, ListedAt
  <2>2. \/ Stands(At(i), NoPlugin, {}, NoEntries)
        \/ \E q : q = registry.plugins[i] /\ Stands(At(i), q, {q}, Entries(q))
    BY <2>0 DEF Residence, Settled, Serving
  <2>3. \A k \in Cap : NoEntries[k] = {} /\ \A q : Entries(q)[k] \subseteq {q}
    BY DEF NoEntries, Entries
  <2>. QED  BY <2>0, <2>1, <2>2, <2>3 DEF Stands
<1>. QED  BY <1>1, AlwaysTyped, AlwaysResides, PTL

\* "Capabilities remain available throughout" a reload: at each of its
\* suspension points one of the two instances is listed and has its handlers.
THEOREM ReloadsGapless ==
  ASSUME Undisturbed
  PROVE  Spec => []ReloadGapless
<1>1. Typed /\ Residence => ReloadGapless
  <2> SUFFICES ASSUME Typed, Residence, NEW c \in Call, Reload(c), NEW p, NEW o,
                      p = loc[c].plug, o = loc[c].old,
                      NEW k \in Provides[o] \cap Provides[p]
               PROVE  \E q \in Providers(table, k) : idOf[q] = loc[c].id /\ q \in handlers
    BY DEF ReloadGapless
  <2>0. PICK i : i = loc[c].id
    OBVIOUS
  <2>1. /\ p \in Plugin /\ pc[c] \in Reloading /\ Beside(pc[c], At(i), p, o)
    BY <2>0 DEF Typed, CallsTyped, Equipped, Residence, Placed, Reload, InGuard
  <2>2. k \in Cap
    BY <2>1, TableAssumption
  <2>3. \E q \in {o, p} : At(i).listed = Entries(q) /\ q \in At(i).heard
    BY <2>1 DEF Beside, Serving, Stands
  <2>4. \A q \in {o, p} : Entries(q)[k] = {q}
    BY <2>2 DEF Entries
  <2>5. PICK q \in {o, p} : q \in At(i).listed[k] /\ q \in At(i).heard
    BY <2>3, <2>4
  <2>. QED  BY <2>0, <2>2, <2>5 DEF At, ListedAt
<1>. QED  BY <1>1, AlwaysTyped, AlwaysResides, PTL

-----------------------------------------------------------------------------
(* The life of the instances: at most one call is in a callback of an      *)
(* instance, so a step moves the phase of the one it works on.             *)

Begins(c, p) == pc[c] \in {"on_start", "reload_on_start"} /\ loc[c].plug = p
Ends(c, p) == \/ pc[c] \in {"on_stop", "stopping_tasks"} /\ loc[c].plug = p
              \/ pc[c] = "reload_on_stop" /\ loc[c].old = p

\* The phase of p if no call but c is in a callback of p.
Stage(c, p) ==
  IF Begins(c, p) THEN "starting" ELSE IF Ends(c, p) THEN "stopping"
  ELSE IF p \in shutdown THEN "stopped" ELSE IF p \in initialized THEN "live" ELSE "new"

Phases == [p \in Plugin |-> Phase(p)]

\* Nothing happens to p.
Quiet(c, p) ==
  /\ Begins(c, p)' <=> Begins(c, p)
  /\ Ends(c, p)' <=> Ends(c, p)
  /\ p \in initialized' <=> p \in initialized
  /\ p \in shutdown' <=> p \in shutdown

LifeStages == {<<"new", "starting">>, <<"starting", "new">>, <<"starting", "live">>,
               <<"live", "stopping">>, <<"stopping", "stopped">>}

Sole(c, p) == \A d \in Call : d # c => ~Begins(d, p) /\ ~Ends(d, p)

SolelyStaged == \A c \in Call, p \in Plugin : Sole(c, p) => Phase(p) = Stage(c, p)

LEMMA PhaseOf == SolelyStaged
<1> SUFFICES ASSUME NEW c \in Call, NEW p \in Plugin, Sole(c, p)
             PROVE  Phase(p) = Stage(c, p)
  BY DEF SolelyStaged
<1>1. (Starting(p) <=> Begins(c, p)) /\ (Stopping(p) <=> Ends(c, p))
  BY DEF Starting, Stopping, Begins, Ends, Sole
<1>2. ~(Begins(c, p) /\ Ends(c, p))
  BY DEF Begins, Ends
<1>3. CASE Starting(p)
  BY <1>1, <1>2, <1>3 DEF Phase, Stage
<1>4. CASE Stopping(p)
  BY <1>1, <1>2, <1>4 DEF Phase, Stage
<1>5. CASE ~Starting(p) /\ ~Stopping(p)
  BY <1>1, <1>5 DEF Phase, Stage
<1>. QED  BY <1>3, <1>4, <1>5

LEMMA PhaseOfNext == SolelyStaged'
BY PhaseOf, PTL

LEMMA PhaseStays ==
  ASSUME NEW c \in Call, \A d \in Call : d # c => pc'[d] = pc[d] /\ loc'[d] = loc[d],
         NEW p, Quiet(c, p)
  PROVE  Phase(p)' = Phase(p)
<1>1. \A d \in Call : (Begins(d, p)' <=> Begins(d, p)) /\ (Ends(d, p)' <=> Ends(d, p))
  BY DEF Quiet, Begins, Ends
<1>2. (Starting(p)' <=> Starting(p)) /\ (Stopping(p)' <=> Stopping(p))
  BY <1>1 DEF Starting, Stopping, Begins, Ends
<1>3. CASE Starting(p)
  BY <1>2, <1>3 DEF Phase
<1>4. CASE Stopping(p) /\ ~Starting(p)
  BY <1>2, <1>4 DEF Phase
<1>5. CASE ~Starting(p) /\ ~Stopping(p)
  BY <1>2, <1>5 DEF Phase, Quiet
<1>. QED  BY <1>3, <1>4, <1>5

LEMMA LivesOn ==
  ASSUME NEW c \in Call, \A d \in Call : d # c => pc'[d] = pc[d] /\ loc'[d] = loc[d],
         \A p \in Plugin : Quiet(c, p)
  PROVE  Phases' = Phases
BY PhaseStays DEF Phases

\* A step between points where no callback of the life is under way.
LEMMA LivesOnElsewhere ==
  ASSUME NEW c \in Call, \A d \in Call : d # c => pc'[d] = pc[d] /\ loc'[d] = loc[d],
         UNCHANGED <<initialized, shutdown>>,
         {pc[c], pc'[c]} \cap {"on_start", "reload_on_start", "on_stop", "stopping_tasks",
                               "reload_on_stop"} = {}
  PROVE  Phases' = Phases
BY LivesOn DEF Quiet, Begins, Ends

LEMMA LifeMoves ==
  ASSUME Dwelling, NEW c \in Call, Proceeds(c), NEW p \in Plugin,
         \/ pc[c] \in Guarded /\ idOf[p] = loc[c].id
         \/ idOf[p] \notin active,
         \A q \in Plugin : q # p => Quiet(c, q),
         <<Stage(c, p), Stage(c, p)'>> \in LifeStages
  PROVE  Life!Next
<1>1. \A d \in Call : d # c => pc'[d] = pc[d] /\ loc'[d] = loc[d]
  BY DEF Proceeds
<1>2. ASSUME NEW d \in Call, d # c, Begins(d, p) \/ Ends(d, p)
      PROVE  FALSE
  <2>1. pc[d] \in Guarded
    BY <1>2 DEF Begins, Ends, Guarded
  <2>2. idOf[p] = loc[d].id
    BY <1>2, <2>1, WorkerAt DEF Begins, Ends
  <2>. QED  BY <1>2, <2>1, <2>2 DEF Dwelling, GuardExclusive, InGuard
<1>3. Phase(p) = Stage(c, p)
  BY <1>2, PhaseOf DEF Sole, SolelyStaged
<1>4. Phase(p)' = Stage(c, p)'
  <2>1. \A d \in Call : d # c => ~Begins(d, p)' /\ ~Ends(d, p)'
    BY <1>1, <1>2 DEF Begins, Ends
  <2>. QED  BY <2>1, PhaseOfNext DEF Sole, SolelyStaged
<1>5. \A q \in Plugin : q # p => Phase(q)' = Phase(q)
  BY <1>1, PhaseStays
<1>6. \A from, to : Stage(c, p) = from /\ Stage(c, p)' = to =>
        Phases[p] = from /\ Phases' = [Phases EXCEPT ![p] = to]
  BY <1>3, <1>4, <1>5 DEF Phases
<1>7. Stage(c, p) = "new" /\ Stage(c, p)' = "starting" => Life!Starts(p)
  BY <1>6 DEF Life!Starts, Life!Moves, Phases
<1>8. Stage(c, p) = "starting" /\ Stage(c, p)' = "new" => Life!StartFails(p)
  BY <1>6 DEF Life!StartFails, Life!Moves, Phases
<1>9. Stage(c, p) = "starting" /\ Stage(c, p)' = "live" => Life!Started(p)
  BY <1>6 DEF Life!Started, Life!Moves, Phases
<1>10. Stage(c, p) = "live" /\ Stage(c, p)' = "stopping" => Life!Stops(p)
  BY <1>6 DEF Life!Stops, Life!Moves, Phases
<1>11. Stage(c, p) = "stopping" /\ Stage(c, p)' = "stopped" => Life!Stopped(p)
  BY <1>6 DEF Life!Stopped, Life!Moves, Phases
<1>. QED  BY <1>7, <1>8, <1>9, <1>10, <1>11 DEF Life!Next, LifeStages

LEMMA RegisterLives ==
  ASSUME Dwelling, NEW c \in Call, Proceeds(c), RegisterStep(c)
  PROVE  Life!Next \/ Phases' = Phases
<1>0. /\ CallsTyped /\ Residence /\ TypedLocals(loc[c]) /\ DOMAIN loc = Call
      /\ pc \in [Call -> PCs] /\ idOf \in [Plugin -> PluginId]
      /\ initialized \cup shutdown \subseteq Taken
      /\ \A d \in Call : d # c => pc'[d] = pc[d] /\ loc'[d] = loc[d]
  BY DwellingTypes DEF Proceeds
<1>1. ASSUME NEW p \in Plugin, RegisterRejected(c, p) \/ RegisterRefused(c, p)
      PROVE  Phases' = Phases
  <2>1. pc[c] = "await_lock" /\ pc'[c] = "raised" /\ UNCHANGED <<initialized, shutdown>>
    BY <1>0, <1>1 DEF RegisterRejected, RegisterRefused, AboutToRegister, Refuse, Goto, instances
  <2>. QED  BY <1>0, <2>1, LivesOnElsewhere
<1>2. ASSUME NEW p \in Plugin, RegisterStart(c, p)
      PROVE  Life!Next
  <2>1. /\ p = loc[c].plug /\ pc[c] = "await_lock" /\ kind[c] \in {"register", "load"}
        /\ idOf[p] \notin active
    BY <1>2 DEF RegisterStart, AboutToRegister, Busy
  <2>2. \A d \in Call : Hands(d) /\ pc[d] # "await_lock" => loc[d].plug # p
    BY <1>0, <2>1 DEF Residence, Orderly, Hands
  <2>3. p \notin initialized \cup shutdown
    BY <1>0, <2>2 DEF Taken
  <2>4. /\ pc'[c] = "on_start" /\ UNCHANGED <<initialized, shutdown>> /\ loc'[c].plug = p
    BY <1>0, <1>2, <2>1, <2>3 DEF RegisterStart, Goto, instances, TypedLocals, NoLocals
  <2>5. \A q \in Plugin : q # p => Quiet(c, q)
    BY <2>1, <2>4 DEF Quiet, Begins, Ends
  <2>6. Stage(c, p) = "new" /\ Stage(c, p)' = "starting"
    BY <2>1, <2>3, <2>4 DEF Stage, Begins, Ends
  <2>. QED  BY <2>1, <2>5, <2>6, LifeMoves DEF LifeStages
<1>3. CASE OnStartReturns(c) \/ OnStartRaises(c)
  <2>1. PICK p : p = loc[c].plug
    OBVIOUS
  <2>2. /\ pc[c] = "on_start" /\ pc[c] \in Guarded /\ pc'[c] \in {"hook_registered", "rollback"}
        /\ loc' = loc /\ shutdown' = shutdown
        /\ initialized' = IF pc'[c] = "rollback" THEN initialized ELSE initialized \cup {p}
    BY <1>0, <1>3, <2>1 DEF OnStartReturns, OnStartRaises, Goto, instances, Guarded
  <2>3. p \in Plugin /\ idOf[p] = loc[c].id /\ Fresh(At(loc[c].id), p)
    BY <2>1, <2>2, WorkerAt DEF Alone
  <2>4. p \notin initialized \cup shutdown
    BY <2>3 DEF Fresh, At
  <2>5. \A q \in Plugin : q # p => Quiet(c, q)
    BY <2>1, <2>2 DEF Quiet, Begins, Ends
  <2>6. Stage(c, p) = "starting" /\ Stage(c, p)' \in {"new", "live"}
    BY <2>1, <2>2, <2>4 DEF Stage, Begins, Ends
  <2>. QED  BY <2>2, <2>3, <2>5, <2>6, LifeMoves DEF LifeStages
<1>4. CASE RegisterRolledBack(c) \/ RegisterReturns(c)
  <2>1. /\ pc[c] \in {"rollback", "hook_registered"} /\ UNCHANGED <<initialized, shutdown>>
        /\ pc'[c] \in {"raised", "returned", "teardown"}
    BY <1>0, <1>4 DEF RegisterRolledBack, RegisterReturns, Finish, LeaveLock, Goto, instances
  <2>. QED  BY <1>0, <2>1, LivesOnElsewhere
<1>. QED  BY <1>1, <1>2, <1>3, <1>4 DEF RegisterStep

LEMMA UnregisterLives ==
  ASSUME Dwelling, NEW c \in Call, Proceeds(c), UnregisterStep(c)
  PROVE  Life!Next \/ Phases' = Phases
<1>0. /\ CallsTyped /\ Residence /\ TypedLocals(loc[c]) /\ DOMAIN loc = Call
      /\ pc \in [Call -> PCs] /\ kind[c] # "stop" /\ pc[c] # "teardown"
      /\ \A d \in Call : d # c => pc'[d] = pc[d] /\ loc'[d] = loc[d]
  BY DwellingTypes DEF Proceeds, Dwelling, Locking, Chains, InStop
<1>1. ASSUME NEW i \in PluginId, UnregisterRefused(c, i)  PROVE Phases' = Phases
  <2>1. /\ pc[c] = "await_lock" /\ pc'[c] \in {"raised", "returned"}
        /\ UNCHANGED <<initialized, shutdown>>
    BY <1>0, <1>1 DEF UnregisterRefused, AboutToUnregister, Refuse, Goto, instances
  <2>. QED  BY <1>0, <2>1, LivesOnElsewhere
<1>2. ASSUME NEW i \in PluginId, UnregisterStart(c, i)  PROVE Life!Next
  <2>1. PICK p : p = registry.plugins[i]
    OBVIOUS
  <2>2. i \notin active /\ p # NoPlugin /\ pc[c] = "await_lock"
    BY <1>0, <1>2, <2>1 DEF UnregisterStart, AboutToUnregister, Busy, Registered, R!Members
  <2>3. idOf[p] = i /\ Up(At(i), p)
    BY <1>0, <2>1, <2>2 DEF Residence, Settled, Stands, Serving, At
  <2>4. p \in initialized \ shutdown /\ p \in Plugin
    BY <2>3 DEF Up, At, Dwelling, Typed, InstancesTyped
  <2>5. pc'[c] = "on_stop" /\ UNCHANGED <<initialized, shutdown>> /\ loc'[c].plug = p
    BY <1>0, <1>2, <2>1, <2>2, <2>4
       DEF UnregisterStart, Goto, Locals, instances, TypedLocals, NoLocals
  <2>6. \A q \in Plugin : q # p => Quiet(c, q)
    BY <2>2, <2>5 DEF Quiet, Begins, Ends
  <2>7. Stage(c, p) = "live" /\ Stage(c, p)' = "stopping"
    BY <2>2, <2>4, <2>5 DEF Stage, Begins, Ends
  <2>. QED  BY <2>2, <2>3, <2>4, <2>6, <2>7, LifeMoves DEF LifeStages
<1>3. CASE OnStopEnds(c)
  <2>1. /\ pc[c] = "on_stop" /\ pc'[c] = "stopping_tasks" /\ loc' = loc
        /\ UNCHANGED <<initialized, shutdown>>
    BY <1>0, <1>3 DEF OnStopEnds, Goto, instances
  <2>2. \A q \in Plugin : Quiet(c, q)
    BY <2>1 DEF Quiet, Begins, Ends
  <2>. QED  BY <1>0, <2>2, LivesOn
<1>4. CASE StopEnds(c) \/ StopEndsWithDependents(c)
  <2>1. PICK p : p = loc[c].plug
    OBVIOUS
  <2>2. /\ pc[c] = "stopping_tasks" /\ pc[c] \in Guarded
        /\ pc'[c] \in Final \cup {"teardown", "final_drain", "hook_unregistered"}
        /\ initialized' = initialized /\ shutdown' = shutdown \cup {p}
    BY <1>0, <1>4, <2>1, DrainsToTheEnd
       DEF StopEnds, StopEndsWithDependents, Goto, instances, Guarded, Final
  <2>3. p \in Plugin /\ idOf[p] = loc[c].id
    BY <2>1, <2>2, WorkerAt
  <2>4. \A q \in Plugin : q # p => Quiet(c, q)
    BY <2>1, <2>2 DEF Quiet, Begins, Ends, Final
  <2>5. Stage(c, p) = "stopping" /\ Stage(c, p)' = "stopped"
    BY <2>1, <2>2 DEF Stage, Begins, Ends, Final
  <2>. QED  BY <2>2, <2>3, <2>4, <2>5, LifeMoves DEF LifeStages
<1>5. CASE UnregisterReturns(c) \/ FinalDrainEnds(c)
  <2>1. /\ pc[c] \in {"hook_unregistered", "final_drain"} /\ UNCHANGED <<initialized, shutdown>>
        /\ pc'[c] \in Final \cup {"teardown", "final_drain"}
    BY <1>0, <1>5, DrainsToTheEnd DEF UnregisterReturns, FinalDrainEnds, Finish, LeaveLock,
       Goto, instances, TypedLocals, Final
  <2>. QED  BY <1>0, <2>1, LivesOnElsewhere DEF Final
<1>. QED  BY <1>1, <1>2, <1>3, <1>4, <1>5 DEF UnregisterStep

LEMMA ReloadLives ==
  ASSUME Dwelling, NEW c \in Call, Proceeds(c), ReloadStep(c)
  PROVE  Life!Next \/ Phases' = Phases
<1>0. /\ CallsTyped /\ Residence /\ TypedLocals(loc[c]) /\ DOMAIN loc = Call
      /\ pc \in [Call -> PCs]
      /\ \A d \in Call : d # c => pc'[d] = pc[d] /\ loc'[d] = loc[d]
  BY DwellingTypes DEF Proceeds
<1> DEFINE p == loc[c].plug
           o == loc[c].old
           s == At(loc[c].id)
<1>1. ASSUME pc[c] \in Reloading
      PROVE  /\ pc[c] \in Guarded /\ p \in Plugin /\ o \in Plugin /\ o # p
             /\ idOf[p] = loc[c].id /\ idOf[o] = loc[c].id /\ Beside(pc[c], s, p, o)
  BY <1>1, WorkerAt DEF Guarded
<1>2. ASSUME NEW q \in Plugin, NEW i \in PluginId, ReloadRefused(c, q, i) \/ ReloadStart(c, q, i)
      PROVE  Phases' = Phases
  <2>1. /\ pc[c] = "await_lock" /\ pc'[c] \in {"raised", "get_state"}
        /\ UNCHANGED <<initialized, shutdown>>
    BY <1>0, <1>2 DEF ReloadRefused, ReloadStart, AboutToReload, Refuse, Goto
  <2>. QED  BY <1>0, <2>1, LivesOnElsewhere
<1>3. CASE GetStateReturns(c)
  <2>1. /\ pc[c] = "get_state" /\ pc'[c] = "reload_on_start" /\ loc' = loc
        /\ UNCHANGED <<initialized, shutdown>>
    BY <1>0, <1>3 DEF GetStateReturns, Goto, instances
  <2>2. p \notin initialized \cup shutdown
    BY <1>1, <2>1 DEF Beside, Fresh, At
  <2>3. \A q \in Plugin : q # p => Quiet(c, q)
    BY <2>1 DEF Quiet, Begins, Ends
  <2>4. Stage(c, p) = "new" /\ Stage(c, p)' = "starting"
    BY <2>1, <2>2 DEF Stage, Begins, Ends
  <2>. QED  BY <1>1, <2>1, <2>3, <2>4, LifeMoves DEF LifeStages
<1>4. CASE ReloadOnStartRaises(c) \/ ReloadOnStartReturns(c) \/ SwapRaises(c)
  <2>1. /\ pc[c] = "reload_on_start" /\ pc'[c] \in {"restore_state", "reload_rollback"}
        /\ loc' = loc /\ shutdown' = shutdown /\ initialized' \in {initialized, initialized \cup {p}}
    BY <1>0, <1>4 DEF ReloadOnStartRaises, ReloadOnStartReturns, SwapRaises, Goto, instances
  <2>2. p \notin initialized \cup shutdown
    BY <1>1, <2>1 DEF Beside, Fresh, At
  <2>3. \A q \in Plugin : q # p => Quiet(c, q)
    BY <2>1 DEF Quiet, Begins, Ends
  <2>4. Stage(c, p) = "starting" /\ Stage(c, p)' \in {"new", "live"}
    BY <2>1, <2>2 DEF Stage, Begins, Ends
  <2>. QED  BY <1>1, <2>1, <2>3, <2>4, LifeMoves DEF LifeStages
<1>5. CASE RestoreStateReturns(c)
  <2>1. /\ pc[c] = "restore_state" /\ pc'[c] = "reload_on_stop" /\ loc' = loc
        /\ UNCHANGED <<initialized, shutdown>>
    BY <1>0, <1>5 DEF RestoreStateReturns, Goto, instances
  <2>2. o \in initialized \ shutdown
    BY <1>1, <2>1 DEF Beside, Up, At
  <2>3. \A q \in Plugin : q # o => Quiet(c, q)
    BY <2>1 DEF Quiet, Begins, Ends
  <2>4. Stage(c, o) = "live" /\ Stage(c, o)' = "stopping"
    BY <2>1, <2>2 DEF Stage, Begins, Ends
  <2>. QED  BY <1>1, <2>1, <2>3, <2>4, LifeMoves DEF LifeStages
<1>6. CASE OldOnStopEnds(c)
  <2>1. /\ pc[c] = "reload_on_stop" /\ pc'[c] = "reload_drain" /\ loc' = loc
        /\ initialized' = initialized /\ shutdown' = shutdown \cup {o}
    BY <1>0, <1>6 DEF OldOnStopEnds, Goto
  <2>3. \A q \in Plugin : q # o => Quiet(c, q)
    BY <2>1 DEF Quiet, Begins, Ends
  <2>4. Stage(c, o) = "stopping" /\ Stage(c, o)' = "stopped"
    BY <2>1 DEF Stage, Begins, Ends
  <2>. QED  BY <1>1, <2>1, <2>3, <2>4, LifeMoves DEF LifeStages
<1>7. CASE GetStateRaises(c) \/ ReloadRolledBack(c) \/ ReloadReturns(c)
  <2>1. /\ pc[c] \in {"get_state", "reload_rollback", "reload_drain"}
        /\ pc'[c] \in {"raised", "returned", "teardown"}
        /\ UNCHANGED <<initialized, shutdown>>
    BY <1>0, <1>7 DEF GetStateRaises, ReloadRolledBack, ReloadReturns, Finish, LeaveLock,
       Goto, instances
  <2>. QED  BY <1>0, <2>1, LivesOnElsewhere
<1>8. ~RestoreStateRaises(c)
  BY DEF RestoreStateRaises, Dwelling, Undisturbed
<1>. QED  BY <1>2, <1>3, <1>4, <1>5, <1>6, <1>7, <1>8 DEF ReloadStep

LEMMA NextLives == Dwelling /\ [Next]_vars => [Life!Next]_Phases
<1> SUFFICES ASSUME Dwelling, [Next]_vars
             PROVE  Life!Next \/ Phases' = Phases
  OBVIOUS
<1>0. CallsTyped /\ pc \in [Call -> PCs] /\ DOMAIN loc = Call /\ state \in CoreStates
  BY DwellingTypes DEF Dwelling, Typed, CoreTyped
<1>1. ASSUME NEW c \in Call, Step(c)
      PROVE  Life!Next \/ Phases' = Phases
  <2>1. Proceeds(c)
    BY <1>0, <1>1, StepProceeds
  <2>2. CASE CoreStep(c)
    <3>1. kind[c] # "stop" /\ pc[c] \notin InStop
      BY DwellingTypes DEF Dwelling, Locking, Chains
    <3>2. /\ pc[c] \in {"called", "stopped_hook", "init_hook", "run_hook"}
          /\ pc'[c] \in {"stopped_hook", "returned", "raised", "run_hook", "init_hook"}
          /\ UNCHANGED <<initialized, shutdown>>
      BY <1>0, <2>2, <3>1 DEF CoreStep, StopBegins, StopDrains, StopOrders, StopFinishes,
             StopReturns, StartBegins, StartRuns, StartReturns, Goto, instances, InStop
    <3>. QED  BY <2>1, <3>2, LivesOnElsewhere DEF Proceeds
  <2>. QED  BY <1>1, <2>1, <2>2, RegisterLives, UnregisterLives, ReloadLives DEF Step
<1>2. ASSUME NEW c \in Call, Cancel(c)
      PROVE  Phases' = Phases
  <2>1. pc[c] \notin Guarded /\ Proceeds(c)
    BY <1>0, <1>2, StepProceeds DEF Cancel, Dwelling, Undisturbed
  <2>2. pc'[c] = "cancelled" /\ UNCHANGED <<initialized, shutdown>>
    BY <1>0, <1>2, <2>1 DEF Cancel, CancelledOutside, CancelledInside, CancelledUnregistering,
       CancelledInFinally, Guarded, Goto, instances
  <2>. QED  BY <2>1, <2>2, LivesOnElsewhere DEF Proceeds, Guarded
<1>3. ASSUME NEW c \in Call, NEW k \in Kinds, NEW caller, NEW own, Invoke(c, k, caller, own)
      PROVE  Phases' = Phases
  <2>1. /\ pc[c] = "idle" /\ pc'[c] \in {"called", "raised", "await_lock"}
        /\ \A d \in Call : d # c => pc'[d] = pc[d] /\ loc'[d] = loc[d]
        /\ UNCHANGED <<initialized, shutdown>>
    BY <1>0, <1>3 DEF Invoke, Goto, instances
  <2>. QED  BY <2>1, LivesOnElsewhere
<1>4. ASSUME UNCHANGED <<initialized, shutdown, pc, loc>>
      PROVE  Phases' = Phases
  BY <1>4 DEF Phases, Phase, Starting, Stopping
<1>5. CASE List
  BY <1>4, <1>5 DEF List, instances
<1>6. CASE UNCHANGED vars
  BY <1>4, <1>6 DEF vars, instances
<1>. QED  BY <1>1, <1>2, <1>3, <1>5, <1>6 DEF Next

\* Every instance lives as its author may expect, whatever is registered,
\* reloaded, rolled back and removed at the same time: on_start before on_stop,
\* on_stop once and to its end, nothing after it.
THEOREM KernelRefinesLife ==
  ASSUME Undisturbed
  PROVE  Spec => LifeRefined
<1>1. Init => Life!Init
  <2>1. Init => \A p \in Plugin : Phase(p) = "new"
    BY DEF Init, Phase, Starting, Stopping
  <2>. QED  BY <2>1 DEF Life!Init
<1>2. Typed /\ GuardExclusive /\ Locking /\ (NoForcedRemoval => RP!Present(registry))
        /\ Residence /\ [Next]_vars => [Life!Next]_Phases
  BY NextLives DEF Dwelling
<1>3. UnbrokenFinally
  BY DEF Undisturbed, UnbrokenFinally, Guarded
<1>4. CASE NoForcedRemoval
  <2>1. Depending => RP!Present(registry)
    BY DEF Depending
  <2>. QED  BY <1>1, <1>2, <1>3, <1>4, <2>1, AlwaysDepending, AlwaysTyped, AlwaysLocking,
               GuardExcludes, AlwaysResides, PTL DEF Spec, LifeRefined, Life!Spec, Phases
<1>5. CASE ~NoForcedRemoval
  BY <1>1, <1>2, <1>3, <1>5, AlwaysTyped, AlwaysLocking, GuardExcludes, AlwaysResides, PTL
     DEF Spec, LifeRefined, Life!Spec, Phases
<1>. QED  BY <1>4, <1>5

-----------------------------------------------------------------------------
(* What core.list() has cached.  It may be rebuilt while operations are    *)
(* suspended, so the invariant says of every suspension point what a list  *)
(* that was made there or earlier can show, until it is invalidated.       *)

\* Undisturbed, and neither of the two removals that leave the cache as it was
\* happens: the rollback of an on_start, and the exception path of an
\* unregistration that others came to depend on (by Depending).
Listable == Undisturbed /\ NoForcedRemoval /\ "on_start" \notin Faults

Viewed(i) == collection.plugins[i]

\* The cache shows what is registered under i, or what was before a reload.
Told(i) ==
  /\ Viewed(i) = NoPlugin <=> registry.plugins[i] = NoPlugin
  /\ Viewed(i) \in {NoPlugin, registry.plugins[i]} \cup shutdown

\* A plugin that is about to be announced, or whose removal is, may be listed
\* or not; one that is about to be replaced is listed as old or new.
ToldDuring(point, l) ==
  /\ point \in {"on_start", "hook_registered"} => Viewed(l.id) \in {NoPlugin, l.plug}
  /\ point \in {"restore_state", "reload_on_stop"} =>
       Viewed(l.id) # NoPlugin /\ Viewed(l.id) \in {l.plug, l.old} \cup shutdown
  /\ point \in {"on_stop", "stopping_tasks", "final_drain", "get_state", "reload_on_start",
                "reload_rollback", "reload_drain"} => Told(l.id)

Listed ==
  /\ \A c \in Call : pc[c] # "rollback"
  /\ ~collection.dirty =>
       /\ \A c \in Call : pc[c] \in Guarded => ToldDuring(pc[c], loc[c])
       /\ \A i \in PluginId \ active : Told(i)

\* What is known in every step.
Showing == Dwelling /\ Listable /\ Depending /\ Listed

\* A step that at most makes the cache stale.
KeepsCache == collection' = collection \/ collection'.dirty = TRUE

\* A step of an operation concerns the id it works on.
LEMMA CacheAt ==
  ASSUME Showing, NEW c \in Call, Proceeds(c), KeepsCache,
         NEW i \in PluginId, shutdown \subseteq shutdown',
         \A j \in PluginId : j # i => registry'.plugins[j] = registry.plugins[j],
         IF pc[c] \in Guarded THEN loc[c].id = i ELSE i \notin active,
         pc'[c] # "rollback",
         IF pc'[c] \in Guarded
         THEN /\ loc'[c].id = i /\ active' = active \cup {i}
              /\ ~collection'.dirty => ToldDuring(pc[c], loc[c])'
         ELSE active' = active \ {i} /\ (~collection'.dirty => Told(i)')
  PROVE  Listed'
<1>1. \A d \in Call : d # c => pc'[d] = pc[d] /\ loc'[d] = loc[d]
  BY DEF Proceeds
<1>2. \A d \in Call : pc'[d] # "rollback"
  BY <1>1 DEF Showing, Listed
<1>3. SUFFICES ASSUME ~collection'.dirty
               PROVE  /\ \A d \in Call : pc'[d] \in Guarded => ToldDuring(pc[d], loc[d])'
                      /\ \A j \in PluginId \ active' : Told(j)'
  BY <1>2 DEF Listed
<1>4. collection' = collection /\ ~collection.dirty
  BY <1>3 DEF KeepsCache
<1>5. \A j \in PluginId : j # i /\ Told(j) => Told(j)'
  BY <1>4 DEF Told, Viewed
<1>6. ASSUME NEW d \in Call, pc'[d] \in Guarded
      PROVE  ToldDuring(pc[d], loc[d])'
  <2>1. CASE d = c
    BY <1>3, <1>6, <2>1
  <2>2. CASE d # c
    <3>1. pc[d] \in Guarded /\ pc'[d] = pc[d] /\ loc'[d] = loc[d] /\ ToldDuring(pc[d], loc[d])
      BY <1>1, <1>4, <1>6, <2>2 DEF Showing, Listed
    <3>2. loc[d].id \in PluginId /\ loc[d].id # i
      BY <2>2, <3>1, WorkerAt DEF Showing, Dwelling, GuardExclusive, InGuard
    <3>. QED  BY <1>4, <1>5, <3>1, <3>2 DEF ToldDuring, Viewed
  <2>. QED  BY <2>1, <2>2
<1>7. ASSUME NEW j \in PluginId \ active'
      PROVE  Told(j)'
  <2>1. CASE j = i
    BY <1>3, <1>7, <2>1
  <2>2. CASE j # i
    <3>1. j \notin active
      BY <1>7, <2>2
    <3>. QED  BY <1>4, <1>5, <2>2, <3>1 DEF Showing, Listed
  <2>. QED  BY <2>1, <2>2
<1>. QED  BY <1>6, <1>7

\* A step outside the guard.
LEMMA CacheStays ==
  ASSUME Showing, NEW c \in Call, pc[c] \notin Guarded, pc'[c] \notin Guarded, KeepsCache,
         \A d \in Call : d # c => pc'[d] = pc[d] /\ loc'[d] = loc[d],
         UNCHANGED <<registry, shutdown, active>>
  PROVE  Listed'
<1>1. \A d \in Call : pc'[d] # "rollback"
  BY DEF Showing, Listed, Guarded
<1>2. ASSUME ~collection'.dirty
      PROVE  /\ \A d \in Call : pc'[d] \in Guarded => ToldDuring(pc[d], loc[d])'
             /\ \A j \in PluginId \ active' : Told(j)'
  <2>1. collection' = collection /\ ~collection.dirty
    BY <1>2 DEF KeepsCache
  <2>2. \A j \in PluginId : Told(j) => Told(j)'
    BY <2>1 DEF Told, Viewed
  <2>3. ASSUME NEW d \in Call, pc'[d] \in Guarded
        PROVE  ToldDuring(pc[d], loc[d])'
    <3>1. pc[d] \in Guarded /\ pc'[d] = pc[d] /\ loc'[d] = loc[d] /\ ToldDuring(pc[d], loc[d])
      BY <2>1, <2>3 DEF Showing, Listed
    <3>2. loc[d].id \in PluginId
      BY <3>1, WorkerAt DEF Showing
    <3>. QED  BY <2>1, <2>2, <3>1, <3>2 DEF ToldDuring, Viewed
  <2>. QED  BY <2>1, <2>2, <2>3 DEF Showing, Listed
<1>. QED  BY <1>1, <1>2 DEF Listed

LEMMA RegisterListed ==
  ASSUME Showing, NEW c \in Call, Proceeds(c), RegisterStep(c)
  PROVE  Listed'
<1>0. /\ DOMAIN loc = Call /\ pc \in [Call -> PCs] /\ TypedLocals(loc[c]) /\ kind[c] # "stop"
      /\ RP!Consistent(registry) /\ registry.plugins \in [PluginId -> Plugin \cup {NoPlugin}]
      /\ idOf \in [Plugin -> PluginId] /\ initialized \cup shutdown \subseteq Taken /\ Residence
      /\ GuardExclusive
  BY DwellingTypes DEF Showing
<1>1. ASSUME NEW p \in Plugin, RegisterRejected(c, p) \/ RegisterRefused(c, p)
      PROVE  Listed'
  <2>1. /\ pc[c] = "await_lock" /\ pc'[c] = "raised" /\ KeepsCache
        /\ UNCHANGED <<registry, shutdown, active>>
    BY <1>0, <1>1 DEF RegisterRejected, RegisterRefused, AboutToRegister, Refuse, Goto, graph,
           instances, KeepsCache
  <2>. QED  BY <2>1, CacheStays DEF Guarded, Proceeds
<1>2. ASSUME NEW p \in Plugin, RegisterStart(c, p), NEW i, i = idOf[p], NEW edges, edges = NewEdges(p)
      PROVE  Listed'
  <2>1. /\ pc[c] = "await_lock" /\ p = loc[c].plug /\ kind[c] \in {"register", "load"}
        /\ i \in PluginId \ active /\ registry.plugins[i] = NoPlugin
        /\ active' = active \cup {i} /\ collection' = collection /\ shutdown' = shutdown
        /\ registry' = R!Added(registry, i, p, edges) /\ loc' = [loc EXCEPT ![c].id = i]
    BY <1>0, <1>2 DEF RegisterStart, AboutToRegister, Admissible, Busy, Registered, R!Members, instances
  <2>2. p \notin shutdown
    <3>1. \A d \in Call : Hands(d) /\ pc[d] # "await_lock" => loc[d].plug # p
      BY <1>0, <2>1 DEF Residence, Orderly, Hands
    <3>. QED  BY <1>0, <3>1 DEF Taken
  <2>3. pc'[c] \in {"on_start", "hook_registered"} /\ loc'[c].id = i /\ loc'[c].plug = p
    BY <1>0, <1>2, <2>1, <2>2 DEF RegisterStart, Goto, TypedLocals, NoLocals
  <2>4. edges \in SUBSET PluginId
    BY <1>0, <1>2, NewEdgesTyped, DwellingTypes DEF RegisterStart, Admissible, Admits, Showing
  <2>5. \A j \in PluginId : j # i => registry'.plugins[j] = registry.plugins[j]
    <3>1. i \in PluginId /\ RP!Consistent(registry)
      BY <1>0, <2>1
    <3>2. EntryIs(registry, R!Added(registry, i, p, edges), i, p, edges)
      BY <2>4, <3>1, RegistryStepAt
    <3>. QED  BY <1>0, <2>1, <3>2 DEF EntryIs
  <2>6. ~collection.dirty => Viewed(i) = NoPlugin
    BY <2>1 DEF Showing, Listed, Told
  <2>7. ~collection'.dirty => ToldDuring(pc[c], loc[c])'
    BY <2>1, <2>3, <2>6 DEF ToldDuring, Viewed
  <2>8. pc[c] \notin Guarded /\ pc'[c] \in Guarded /\ pc'[c] # "rollback" /\ KeepsCache
    BY <2>1, <2>3 DEF Guarded, KeepsCache
  <2>. QED  BY <2>1, <2>3, <2>5, <2>7, <2>8, CacheAt
<1>3. CASE OnStartReturns(c)
  <2>1. /\ pc[c] = "on_start" /\ pc'[c] = "hook_registered" /\ loc' = loc /\ active' = active
        /\ collection' = collection /\ UNCHANGED <<registry, shutdown>>
    BY <1>0, <1>3 DEF OnStartReturns, Goto, graph
  <2>2. /\ pc[c] \in Guarded /\ pc'[c] \in Guarded /\ KeepsCache
        /\ loc[c].id \in PluginId /\ active' = active \cup {loc[c].id}
    BY <1>0, <2>1, WorkerAt DEF Guarded, KeepsCache, Showing, GuardExclusive, InGuard
  <2>3. ~collection'.dirty => ToldDuring(pc[c], loc[c])'
    BY <2>1, <2>2 DEF Showing, Listed, ToldDuring, Viewed
  <2>. QED  BY <2>1, <2>2, <2>3, CacheAt
<1>4. CASE RegisterReturns(c)
  <2>1. /\ pc[c] = "hook_registered" /\ pc'[c] = "returned" /\ active' = active \ {loc[c].id}
        /\ collection'.dirty = TRUE /\ UNCHANGED <<registry, shutdown>>
    BY <1>0, <1>4 DEF RegisterReturns, Finish, LeaveLock, Goto, graph, instances, Invalidated,
           Showing, Dwelling, Typed, CoreTyped
  <2>2. pc[c] \in Guarded /\ pc'[c] \notin Guarded /\ KeepsCache /\ loc[c].id \in PluginId
    BY <2>1, WorkerAt DEF Guarded, KeepsCache, Showing
  <2>. QED  BY <2>1, <2>2, CacheAt
<1>5. ~OnStartRaises(c) /\ ~RegisterRolledBack(c)
  BY DEF OnStartRaises, RegisterRolledBack, Showing, Listable, Listed
<1>. QED  BY <1>1, <1>2, <1>3, <1>4, <1>5 DEF RegisterStep

LEMMA UnregisterListed ==
  ASSUME Showing, NEW c \in Call, Proceeds(c), UnregisterStep(c)
  PROVE  Listed'
<1>0. /\ DOMAIN loc = Call /\ pc \in [Call -> PCs] /\ TypedLocals(loc[c]) /\ kind[c] # "stop"
      /\ RP!Consistent(registry) /\ registry.plugins \in [PluginId -> Plugin \cup {NoPlugin}]
      /\ GuardExclusive /\ NoPlugin \notin Plugin
  BY DwellingTypes DEF Showing
<1>1. pc[c] # "teardown"
  BY <1>0 DEF Showing, Dwelling, Locking, Chains, InStop
<1>2. ASSUME NEW i \in PluginId, UnregisterRefused(c, i)
      PROVE  Listed'
  <2>1. /\ pc[c] = "await_lock" /\ pc'[c] \in {"returned", "raised"} /\ KeepsCache
        /\ UNCHANGED <<registry, shutdown, active>>
    BY <1>0, <1>1, <1>2 DEF UnregisterRefused, AboutToUnregister, Refuse, Goto, graph,
           instances, KeepsCache
  <2>. QED  BY <2>1, CacheStays DEF Guarded, Proceeds
<1>3. ASSUME NEW i \in PluginId, UnregisterStart(c, i)
      PROVE  Listed'
  <2>1. /\ pc[c] = "await_lock" /\ i = loc[c].id /\ i \notin active
        /\ active' = active \cup {i} /\ collection' = collection /\ shutdown' = shutdown
        /\ loc' = [loc EXCEPT ![c].plug = registry.plugins[i]]
        /\ \/ pc'[c] = "on_stop" /\ registry' = registry
           \/ pc'[c] = "hook_unregistered" /\ registry' = R!Removed(registry, i)
    BY <1>0, <1>1, <1>3 DEF UnregisterStart, AboutToUnregister, Locals, Busy, Goto, instances
  <2>2. loc'[c].id = i
    BY <1>0, <2>1 DEF TypedLocals, NoLocals
  <2>3. \A j \in PluginId : j # i => registry'.plugins[j] = registry.plugins[j]
    <3>1. \A q \in Plugin : EntryIs(registry, R!Removed(registry, i), i, NoPlugin, {})
      BY <1>0, RegistryStepAt
    <3>2. registry.plugins[i] \in Plugin
      BY <1>0, <1>3 DEF UnregisterStart, Registered, R!Members
    <3>3. EntryIs(registry, R!Removed(registry, i), i, NoPlugin, {})
      BY <3>1, <3>2
    <3>. QED  BY <1>0, <2>1, <3>3 DEF EntryIs
  <2>4. ~collection'.dirty => ToldDuring(pc[c], loc[c])'
    BY <2>1, <2>2 DEF ToldDuring, Viewed, Showing, Listed, Told
  <2>5. pc[c] \notin Guarded /\ pc'[c] \in Guarded /\ pc'[c] # "rollback" /\ KeepsCache
    BY <2>1 DEF Guarded, KeepsCache
  <2>. QED  BY <2>1, <2>2, <2>3, <2>4, <2>5, CacheAt
<1>4. ASSUME pc[c] \in Unregistering, NEW i, i = loc[c].id, NEW p, p = loc[c].plug,
             \/ OnStopEnds(c) \/ StopEnds(c) \/ StopEndsWithDependents(c) \/ UnregisterReturns(c)
             \/ FinalDrainEnds(c)
      PROVE  Listed'
  <2>0. /\ i \in PluginId /\ p \in Plugin /\ pc[c] \in Guarded /\ i \in active
        /\ Alone(pc[c], At(i), p)
    BY <1>0, <1>4, WorkerAt DEF Showing, Guarded, GuardExclusive, InGuard
  <2>1. CASE OnStopEnds(c)
    <3>1. /\ pc[c] = "on_stop" /\ pc'[c] = "stopping_tasks" /\ loc' = loc /\ active' = active
          /\ collection' = collection /\ UNCHANGED <<registry, shutdown>>
      BY <1>0, <2>1 DEF OnStopEnds, Goto, instances
    <3>2. ~collection'.dirty => ToldDuring(pc[c], loc[c])'
      BY <1>4, <2>0, <3>1 DEF Showing, Listed, ToldDuring, Told, Viewed
    <3>. QED  BY <1>4, <2>0, <3>1, <3>2, CacheAt DEF KeepsCache, Guarded
  <2>2. CASE StopEnds(c)
    <3>1. /\ pc'[c] = "hook_unregistered" /\ loc' = loc /\ active' = active
          /\ collection' = collection /\ registry' = R!Removed(registry, i)
          /\ shutdown \subseteq shutdown'
      BY <1>0, <1>4, <2>2 DEF StopEnds, Goto
    <3>2. EntryIs(registry, R!Removed(registry, i), i, NoPlugin, {})
      BY <1>0, <2>0, RegistryStepAt
    <3>3. \A j \in PluginId : j # i => registry'.plugins[j] = registry.plugins[j]
      BY <1>0, <3>1, <3>2 DEF EntryIs
    <3>4. ToldDuring(pc[c], loc[c])'
      BY <3>1 DEF ToldDuring
    <3>. QED  BY <1>4, <2>0, <3>1, <3>3, <3>4, CacheAt DEF KeepsCache, Guarded
  <2>3. ~StopEndsWithDependents(c)
    <3>1. ASSUME pc[c] = "stopping_tasks"
          PROVE  R!CanRemove(registry, loc[c].id, loc[c].force)
      <4>1. i \in R!Members(registry)
        BY <1>0, <2>0, <3>1 DEF Alone, Stands, At, R!Members
      <4>2. RP!LiveDependents(registry, i) = {}
        BY <1>4, <3>1 DEF Showing, Depending, Doomed
      <4>. QED  BY <1>4, <4>1, <4>2 DEF R!CanRemove, R!LiveDependents, RP!LiveDependents,
                    R!Members, RP!Members
    <3>. QED  BY <3>1 DEF StopEndsWithDependents
  <2>4. CASE UnregisterReturns(c)
    <3>1. /\ collection'.dirty = TRUE /\ UNCHANGED <<registry, shutdown>>
          /\ \/ active' = active \ {i} /\ pc'[c] = "returned"
             \/ active' = active /\ pc'[c] = "final_drain" /\ loc' = [loc EXCEPT ![c].ends = "returned"]
      BY <1>0, <1>4, <2>4 DEF UnregisterReturns, DrainFinally, Finish, LeaveLock, Goto, instances,
             Invalidated, Showing, Dwelling, Typed, CoreTyped
    <3>2. pc'[c] = "final_drain" => loc'[c].id = i
      BY <1>0, <1>4, <3>1 DEF TypedLocals, NoLocals
    <3>. QED  BY <1>4, <2>0, <3>1, <3>2, CacheAt DEF KeepsCache, Guarded
  <2>5. CASE FinalDrainEnds(c)
    <3>1. /\ pc[c] = "final_drain" /\ pc'[c] \in Final /\ active' = active \ {i}
          /\ collection' = collection /\ UNCHANGED <<registry, shutdown>>
      BY <1>0, <1>4, <2>5 DEF FinalDrainEnds, Finish, LeaveLock, Goto, graph, instances, TypedLocals
    <3>2. ~collection'.dirty => Told(i)'
      BY <1>4, <2>0, <3>1 DEF Showing, Listed, ToldDuring, Told, Viewed
    <3>. QED  BY <1>4, <2>0, <3>1, <3>2, CacheAt DEF KeepsCache, Guarded, Final
  <2>. QED  BY <1>4, <2>1, <2>2, <2>3, <2>4, <2>5
<1>5. CASE \/ OnStopEnds(c) \/ StopEnds(c) \/ StopEndsWithDependents(c)
           \/ UnregisterReturns(c) \/ FinalDrainEnds(c)
  <2>1. pc[c] \in Unregistering
    BY <1>5 DEF OnStopEnds, StopEnds, StopEndsWithDependents, UnregisterReturns, FinalDrainEnds
  <2>2. \A i, p : i = loc[c].id /\ p = loc[c].plug => Listed'
    BY <1>4, <1>5, <2>1
  <2>. QED  BY <2>2
<1>. QED  BY <1>2, <1>3, <1>5 DEF UnregisterStep


LEMMA ReloadListed ==
  ASSUME Showing, NEW c \in Call, Proceeds(c), ReloadStep(c)
  PROVE  Listed'
<1>0. /\ DOMAIN loc = Call /\ pc \in [Call -> PCs] /\ TypedLocals(loc[c]) /\ kind[c] # "stop"
      /\ RP!Consistent(registry) /\ registry.plugins \in [PluginId -> Plugin \cup {NoPlugin}]
      /\ GuardExclusive /\ NoPlugin \notin Plugin /\ shutdown \in SUBSET Plugin
  BY DwellingTypes DEF Showing, InstancesTyped
<1>1. ASSUME NEW p \in Plugin, NEW i \in PluginId, ReloadRefused(c, p, i)
      PROVE  Listed'
  <2>1. /\ pc[c] = "await_lock" /\ pc'[c] = "raised" /\ KeepsCache
        /\ UNCHANGED <<registry, shutdown, active>>
    BY <1>0, <1>1 DEF ReloadRefused, AboutToReload, Refuse, Goto, graph, KeepsCache
  <2>. QED  BY <2>1, CacheStays DEF Guarded, Proceeds
<1>2. ASSUME NEW p \in Plugin, NEW i \in PluginId, ReloadStart(c, p, i)
      PROVE  Listed'
  <2>1. /\ pc[c] = "await_lock" /\ pc'[c] = "get_state" /\ i \notin active
        /\ active' = active \cup {i} /\ collection' = collection
        /\ UNCHANGED <<registry, shutdown>>
    BY <1>0, <1>2 DEF ReloadStart, AboutToReload, Busy, Goto, graph
  <2>2. loc'[c].id = i
    BY <1>0, <1>2 DEF ReloadStart, TypedLocals, NoLocals
  <2>3. ~collection'.dirty => ToldDuring(pc[c], loc[c])'
    BY <2>1, <2>2 DEF ToldDuring, Viewed, Showing, Listed, Told
  <2>. QED  BY <2>1, <2>2, <2>3, CacheAt DEF KeepsCache, Guarded
<1>3. ASSUME pc[c] \in Reloading, NEW i, i = loc[c].id, NEW p, p = loc[c].plug, NEW o, o = loc[c].old,
             \/ GetStateRaises(c) \/ GetStateReturns(c) \/ ReloadOnStartReturns(c) \/ SwapRaises(c)
             \/ RestoreStateReturns(c) \/ ReloadRolledBack(c) \/ OldOnStopEnds(c) \/ ReloadReturns(c)
      PROVE  Listed'
  <2>0. /\ i \in PluginId /\ p \in Plugin /\ o \in Plugin /\ pc[c] \in Guarded /\ i \in active
        /\ Beside(pc[c], At(i), p, o)
        /\ ~collection.dirty => ToldDuring(pc[c], loc[c])
    BY <1>0, <1>3, WorkerAt DEF Showing, Listed, Guarded, GuardExclusive, InGuard
  <2>1. CASE GetStateRaises(c) \/ ReloadRolledBack(c) \/ ReloadReturns(c)
    <3>1. /\ pc[c] \in {"get_state", "reload_rollback", "reload_drain"}
          /\ pc'[c] \in Final /\ active' = active \ {i}
          /\ collection' = collection /\ UNCHANGED <<registry, shutdown>>
      BY <1>0, <1>3, <2>1 DEF GetStateRaises, ReloadRolledBack, ReloadReturns, Finish, LeaveLock,
             Goto, graph, instances, Final
    <3>2. ~collection'.dirty => Told(i)'
      BY <1>3, <2>0, <3>1 DEF ToldDuring, Told, Viewed
    <3>. QED  BY <1>3, <2>0, <3>1, <3>2, CacheAt DEF KeepsCache, Guarded, Final
  <2>2. CASE GetStateReturns(c) \/ RestoreStateReturns(c)
    <3>1. /\ \/ pc[c] = "get_state" /\ pc'[c] = "reload_on_start"
             \/ pc[c] = "restore_state" /\ pc'[c] = "reload_on_stop"
          /\ loc' = loc /\ active' = active
          /\ collection' = collection /\ UNCHANGED <<registry, shutdown>>
      BY <1>0, <2>2 DEF GetStateReturns, RestoreStateReturns, Goto, graph, instances
    <3>2. ~collection'.dirty => ToldDuring(pc[c], loc[c])'
      BY <2>0, <3>1 DEF ToldDuring, Told, Viewed
    <3>. QED  BY <1>3, <2>0, <3>1, <3>2, CacheAt DEF KeepsCache, Guarded
  <2>3. CASE ReloadOnStartReturns(c)
    <3>1. /\ pc[c] = "reload_on_start" /\ pc'[c] = "restore_state" /\ loc' = loc /\ active' = active
          /\ collection' = collection /\ shutdown' = shutdown
          /\ registry' = Swapped(registry, c)
          /\ R!CanSwap(registry, i, p, loc[c].newDeps)
      BY <1>0, <1>3, <2>3 DEF ReloadOnStartReturns, Goto
    <3>2. PICK new : new = loc[c].newDeps
      OBVIOUS
    <3>3. new \in SUBSET PluginId /\ registry' = R!SwapAttempted(registry, i, p, new)
      BY <1>0, <1>3, <3>1, <3>2 DEF TypedLocals, Swapped
    <3>4. EntryIs(registry, registry', i, p, new)
      BY <1>0, <2>0, <3>1, <3>2, <3>3, RegistrySwapAt
    <3>5. \A j \in PluginId : j # i => registry'.plugins[j] = registry.plugins[j]
      BY <1>0, <3>4 DEF EntryIs
    <3>6. registry.plugins[i] = o
      BY <2>0, <3>1 DEF Beside, Stands, At
    <3>7. ~collection'.dirty => ToldDuring(pc[c], loc[c])'
      BY <1>0, <1>3, <2>0, <3>1, <3>6 DEF ToldDuring, Told, Viewed
    <3>. QED  BY <1>3, <2>0, <3>1, <3>5, <3>7, CacheAt DEF KeepsCache, Guarded
  <2>4. CASE SwapRaises(c)
    <3>1. /\ pc[c] = "reload_on_start" /\ pc'[c] = "reload_rollback" /\ loc' = loc /\ active' = active
          /\ collection' = collection /\ shutdown' = shutdown
      BY <1>0, <2>4 DEF SwapRaises, Goto
    <3>2. registry'.plugins = registry.plugins
      BY <2>4, <3>1, RaisingSwapRestores DEF SameEntries, Showing
    <3>3. ~collection'.dirty => ToldDuring(pc[c], loc[c])'
      BY <2>0, <3>1, <3>2 DEF ToldDuring, Told, Viewed
    <3>. QED  BY <1>3, <2>0, <3>1, <3>2, <3>3, CacheAt DEF KeepsCache, Guarded
  <2>5. CASE OldOnStopEnds(c)
    <3>1. /\ pc[c] = "reload_on_stop" /\ pc'[c] = "reload_drain" /\ loc' = loc /\ active' = active
          /\ collection' = collection /\ shutdown' = shutdown \cup {o} /\ registry' = registry
      BY <1>0, <1>3, <2>5 DEF OldOnStopEnds, Goto
    <3>2. registry.plugins[i] = p
      BY <2>0, <3>1 DEF Beside, Stands, At
    <3>3. ~collection'.dirty => ToldDuring(pc[c], loc[c])'
      BY <1>0, <1>3, <2>0, <3>1, <3>2 DEF ToldDuring, Told, Viewed
    <3>. QED  BY <1>3, <2>0, <3>1, <3>3, CacheAt DEF KeepsCache, Guarded
  <2>. QED  BY <1>3, <2>1, <2>2, <2>3, <2>4, <2>5
<1>4. CASE \/ GetStateRaises(c) \/ GetStateReturns(c) \/ ReloadOnStartReturns(c) \/ SwapRaises(c)
           \/ RestoreStateReturns(c) \/ ReloadRolledBack(c) \/ OldOnStopEnds(c) \/ ReloadReturns(c)
  <2>1. pc[c] \in Reloading
    BY <1>4 DEF GetStateRaises, GetStateReturns, ReloadOnStartReturns, SwapRaises,
           RestoreStateReturns, ReloadRolledBack, OldOnStopEnds, ReloadReturns
  <2>2. \A i, p, o : i = loc[c].id /\ p = loc[c].plug /\ o = loc[c].old => Listed'
    BY <1>3, <1>4, <2>1
  <2>. QED  BY <2>2
<1>5. ~ReloadOnStartRaises(c) /\ ~RestoreStateRaises(c)
  BY DEF ReloadOnStartRaises, RestoreStateRaises, Showing, Listable, Undisturbed
<1>. QED  BY <1>1, <1>2, <1>4, <1>5 DEF ReloadStep

LEMMA OthersListed ==
  ASSUME Showing, NEW c \in Call,
         \/ Proceeds(c) /\ (CoreStep(c) \/ Cancel(c))
         \/ \E k \in Kinds, caller \in {NoCall} \cup Call, own \in OwnTask :
              Invoke(c, k, caller, own)
  PROVE  Listed'
<1>0. /\ DOMAIN loc = Call /\ pc \in [Call -> PCs] /\ kind[c] # "stop" /\ pc[c] \notin InStop
      /\ collection \in [dirty : BOOLEAN, plugins : [PluginId -> Plugin \cup {NoPlugin}]]
  BY DwellingTypes DEF Showing, Dwelling, Locking, Chains, Typed, CoreTyped
<1>1. CASE Proceeds(c) /\ CoreStep(c)
  <2>1. /\ pc'[c] \in {"stopped_hook", "returned", "raised", "run_hook", "init_hook"}
        /\ pc[c] \notin Guarded /\ collection' = collection
        /\ UNCHANGED <<registry, shutdown, active>>
    BY <1>0, <1>1 DEF CoreStep, StopBegins, StopDrains, StopOrders, StopFinishes, StopReturns,
           StartBegins, StartRuns, StartReturns, Goto, graph, instances, InStop, Guarded
  <2>. QED  BY <1>1, <2>1, CacheStays DEF Guarded, Proceeds, KeepsCache
<1>2. CASE Proceeds(c) /\ Cancel(c)
  <2>0. pc[c] \notin Guarded
    BY <1>2 DEF Cancel, Showing, Dwelling, Undisturbed
  <2>1. /\ pc'[c] = "cancelled" /\ collection' = collection
        /\ UNCHANGED <<registry, shutdown, active>>
    BY <1>0, <1>2, <2>0 DEF Cancel, CancelledOutside, CancelledInside, CancelledUnregistering,
           CancelledInFinally, Guarded, Goto, graph, instances
  <2>. QED  BY <1>2, <2>0, <2>1, CacheStays DEF Guarded, Proceeds, KeepsCache
<1>3. ASSUME NEW k \in Kinds, NEW caller \in {NoCall} \cup Call, NEW own \in OwnTask,
             Invoke(c, k, caller, own)
      PROVE  Listed'
  <2>1. /\ pc[c] = "idle" /\ pc'[c] \in {"called", "raised", "await_lock"}
        /\ collection' = collection /\ UNCHANGED <<registry, shutdown, active>>
        /\ \A d \in Call : d # c => pc'[d] = pc[d] /\ loc'[d] = loc[d]
    BY <1>0, <1>3 DEF Invoke, Goto, graph, instances
  <2>. QED  BY <2>1, CacheStays DEF Guarded, KeepsCache
<1>. QED  BY <1>1, <1>2, <1>3

\* A list that is made now tells what is registered.
LEMMA ListShows ==
  ASSUME Showing, List
  PROVE  Listed'
<1>0. pc' = pc /\ loc' = loc /\ active' = active /\ registry' = registry /\ shutdown' = shutdown
  BY DEF List, graph, instances
<1>1. \A i \in PluginId : Told(i)'
  BY DEF List, Told, Viewed, graph
<1>2. ASSUME NEW c \in Call, pc[c] \in Guarded
      PROVE  ToldDuring(pc[c], loc[c])'
  <2>1. loc[c].id \in PluginId /\ Viewed(loc[c].id)' = registry.plugins[loc[c].id]
    BY <1>2, WorkerAt DEF Showing, List, Viewed
  <2>2. /\ pc[c] \in {"on_start", "hook_registered"} => registry.plugins[loc[c].id] = loc[c].plug
        /\ pc[c] \in {"restore_state", "reload_on_stop"} =>
             registry.plugins[loc[c].id] = loc[c].plug /\ loc[c].plug # NoPlugin
    <3>1. /\ loc[c].plug \in Plugin /\ NoPlugin \notin Plugin
          /\ \/ pc[c] \notin Reloading /\ Alone(pc[c], At(loc[c].id), loc[c].plug)
             \/ pc[c] \in Reloading /\ Beside(pc[c], At(loc[c].id), loc[c].plug, loc[c].old)
      BY <1>2, WorkerAt, LifecycleAssumption DEF Showing
    <3>. QED  BY <3>1 DEF Alone, Beside, Serving, Stands, At
  <2>. QED  BY <1>0, <1>1, <2>1, <2>2 DEF ToldDuring
<1>. QED  BY <1>0, <1>1, <1>2 DEF Showing, Listed

LEMMA NextListed ==
  ASSUME Showing, [Next]_vars
  PROVE  Listed'
<1>0. CallsTyped /\ state \in CoreStates
  BY DEF Showing, Dwelling, Typed, CoreTyped
<1>1. ASSUME NEW c \in Call, Step(c)  PROVE Listed'
  <2>1. Proceeds(c)
    BY <1>0, <1>1, StepProceeds
  <2>. QED  BY <1>1, <2>1, RegisterListed, UnregisterListed, ReloadListed, OthersListed DEF Step
<1>2. ASSUME NEW c \in Call, Cancel(c)  PROVE Listed'
  BY <1>0, <1>2, StepProceeds, OthersListed
<1>3. ASSUME NEW c \in Call, NEW k \in Kinds, NEW caller \in {NoCall} \cup Call, NEW own \in OwnTask,
             Invoke(c, k, caller, own)
      PROVE  Listed'
  BY <1>3, OthersListed
<1>4. CASE UNCHANGED vars
  <2>1. UNCHANGED <<pc, loc, active, registry, shutdown, collection>>
    BY <1>4 DEF vars, graph, instances
  <2>2. \A i : Told(i)' <=> Told(i)
    BY <2>1 DEF Told, Viewed
  <2>3. \A c \in Call : ToldDuring(pc[c], loc[c])' <=> ToldDuring(pc[c], loc[c])
    BY <2>1, <2>2 DEF ToldDuring, Viewed
  <2>. QED  BY <2>1, <2>2, <2>3 DEF Showing, Listed
<1>. QED  BY <1>1, <1>2, <1>3, <1>4, ListShows DEF Next

\* core.list() never misses a plugin that is registered and settled, nor shows
\* one that is not, however operations interleave with the lists and with each
\* other: what it shows in place of the registered instance has stopped.
THEOREM ListsComplete ==
  ASSUME Listable
  PROVE  Spec => []ListingComplete
<1>1. Init => Listed
  BY DEF Init, Listed
<1>2. /\ Undisturbed /\ NoForcedRemoval /\ UnbrokenFinally
      /\ Depending => RP!Present(registry)
  BY DEF Listable, Undisturbed, UnbrokenFinally, Guarded, Depending
<1>3. Typed /\ GuardExclusive /\ Locking /\ Residence /\ Depending /\ Listed /\ [Next]_vars => Listed'
  BY <1>2, NextListed DEF Showing, Dwelling
<1>4. Typed /\ Residence /\ Listed => ListingComplete
  <2> SUFFICES ASSUME Typed, Residence, Listed, active = {}, ~collection.dirty, NEW i \in PluginId
               PROVE  LET listed == collection.plugins[i]
                          current == registry.plugins[i]
                      IN  /\ listed = NoPlugin <=> current = NoPlugin
                          /\ listed # NoPlugin =>
                               ViewStatus(listed) = IF listed = current THEN "active" ELSE "stopped"
    BY DEF ListingComplete
  <2>1. Told(i) /\ Settled(i)
    BY DEF Listed, Residence
  <2>2. registry.plugins[i] # NoPlugin => registry.plugins[i] \in initialized \ shutdown
    BY <2>1 DEF Settled, Serving, Stands, Up, At
  <2>. QED  BY <2>1, <2>2 DEF Told, Viewed, ViewStatus
<1>. QED  BY <1>1, <1>2, <1>3, <1>4, AlwaysTyped, AlwaysLocking, GuardExcludes, AlwaysResides,
             AlwaysDepending, PTL DEF Spec

-----------------------------------------------------------------------------
(* What the callbacks of a plugin find of what it requires.                *)

\* Undisturbed, with versions that keep their promises: a reload to one that
\* provides less leaves those that required it without.
Steady ==
  /\ Undisturbed /\ NoForcedRemoval
  /\ \A p, q \in Plugin : NameOf[p] = NameOf[q] => Provides[p] = Provides[q]

Supplies(d, k) == registry.plugins[d] # NoPlugin /\ k \in Provides[registry.plugins[d]]

\* p needs no more than it and what is registered under deps provide.
Meets(p, deps) == \A k \in Requires[p] : k \in Provides[p] \/ \E d \in deps : Supplies(d, k)

\* Gone for good: an instance is registered once.
Gone(d) == registry.plugins[d] = NoPlugin /\ d \in Taken

\* The edges of a new version are those of the moment the reload began; if
\* one of them is gone meanwhile, the swap will raise.
Required ==
  /\ \A p \in Plugin \ Taken : idOf[p] = p
  /\ \A i \in PluginId : registry.plugins[i] # NoPlugin =>
       i \in Taken /\ Meets(registry.plugins[i], registry.dependencies[i])
  /\ \A c \in Call : pc[c] \in {"get_state", "reload_on_start"} =>
       Meets(loc[c].plug, loc[c].newDeps) \/ \E d \in loc[c].newDeps : Gone(d)

\* What is known in every step.
Supplying == Dwelling /\ Steady /\ Depending /\ Required

\* Only the registered instance of an id is listed.
LEMMA ListedHeld ==
  ASSUME Dwelling, NEW i \in PluginId
  PROVE  \/ At(i).listed = NoEntries
         \/ registry.plugins[i] \in Plugin /\ At(i).listed = Entries(registry.plugins[i])
<1>0. registry.plugins[i] \in Plugin \cup {NoPlugin} /\ At(i).held = registry.plugins[i] /\ NoPlugin \notin Plugin
  BY DwellingTypes DEF At
<1>1. CASE i \notin active
  <2>1. Settled(i)
    BY <1>1 DEF Dwelling, Residence
  <2>. QED  BY <1>0, <2>1 DEF Settled, Serving, Stands
<1>2. CASE i \in active
  <2>1. PICK d \in Call : pc[d] \in Guarded /\ loc[d].id = i
    BY <1>2 DEF Dwelling, GuardExclusive, InGuard
  <2>2. /\ loc[d].plug \in Plugin
        /\ \/ pc[d] \notin Reloading /\ Alone(pc[d], At(i), loc[d].plug)
           \/ /\ pc[d] \in Reloading /\ loc[d].old \in Plugin
              /\ Beside(pc[d], At(i), loc[d].plug, loc[d].old)
    BY <2>1, WorkerAt
  <2>3. CASE pc[d] \notin Reloading
    BY <1>0, <2>1, <2>2, <2>3 DEF Alone, Serving, Stands, Guarded
  <2>4. CASE pc[d] \in Reloading
    BY <1>0, <2>1, <2>2, <2>4 DEF Beside, Serving, Stands
  <2>. QED  BY <2>3, <2>4
<1>. QED  BY <1>1, <1>2

LEMMA ProviderHeld ==
  ASSUME Dwelling, NEW k \in Cap, NEW q \in Providers(table, k)
  PROVE  idOf[q] \in PluginId /\ registry.plugins[idOf[q]] = q /\ q \in Plugin /\ k \in Provides[q]
<1>1. q \in Plugin /\ idOf[q] \in PluginId
  BY DwellingTypes DEF Tables, Providers, ToSet
<1>2. q \in At(idOf[q]).listed[k]
  BY DEF At, ListedAt
<1>3. \/ At(idOf[q]).listed = NoEntries
      \/ At(idOf[q]).listed = Entries(registry.plugins[idOf[q]])
  BY <1>1, ListedHeld
<1>4. At(idOf[q]).listed = Entries(registry.plugins[idOf[q]])
  BY <1>2, <1>3 DEF NoEntries
<1>. QED  BY <1>1, <1>2, <1>4 DEF Entries

\* What p gets edges to provides what it requires.
LEMMA EdgesMeet ==
  ASSUME Dwelling, NEW p \in Plugin, MissingRequirements(table, p) = {}, NEW k \in Requires[p]
  PROVE  \E d \in NewEdges(p) : Supplies(d, k)
<1>1. k \in Cap /\ table[k] # <<>> /\ table[k] \in Seq(Plugin) /\ NoPlugin \notin Plugin
  BY TableAssumption, DwellingTypes DEF MissingRequirements, Provided, Tables
<1>2. PICK q : q = Selected(table, k)
  OBVIOUS
<1>3. q \in Providers(table, k)
  <2>1. 1 \in DOMAIN table[k] /\ Len(table[k]) \in DOMAIN table[k]
    BY <1>1
  <2>. QED  BY <1>1, <1>2, <2>1 DEF Selected, Last, Providers, ToSet
<1>4. Supplies(idOf[q], k)
  BY <1>1, <1>3, ProviderHeld DEF Supplies
<1>. QED  BY <1>2, <1>4 DEF NewEdges, RequirementEdges

\* A provider that others depend on, and that is not about to leave, is listed.
LEMMA DependedIsListed ==
  ASSUME Dwelling, Depending, NEW d \in PluginId, RP!LiveDependents(registry, d) # {},
         registry.plugins[d] # NoPlugin
  PROVE  At(d).listed = Entries(registry.plugins[d])
<1>0. At(d).held = registry.plugins[d]
  BY DEF At
<1>1. CASE d \notin active
  <2>1. Settled(d)
    BY <1>1 DEF Dwelling, Residence
  <2>. QED  BY <1>0, <2>1 DEF Settled, Serving, Stands
<1>2. CASE d \in active
  <2>1. PICK c \in Call : pc[c] \in Guarded /\ loc[c].id = d
    BY <1>2 DEF Dwelling, GuardExclusive, InGuard
  <2>2. pc[c] \notin {"rollback", "stopping_tasks"}
    BY <2>1 DEF Depending, Doomed
  <2>3. \/ pc[c] \notin Reloading /\ Alone(pc[c], At(d), loc[c].plug)
        \/ pc[c] \in Reloading /\ Beside(pc[c], At(d), loc[c].plug, loc[c].old)
    BY <2>1, WorkerAt
  <2>4. CASE pc[c] \notin Reloading
    BY <1>0, <2>1, <2>2, <2>3, <2>4 DEF Alone, Serving, Stands, Guarded
  <2>5. CASE pc[c] \in Reloading
    BY <1>0, <2>1, <2>3, <2>5 DEF Beside, Serving, Stands
  <2>. QED  BY <2>4, <2>5
<1>. QED  BY <1>1, <1>2

\* Hence what is registered and listed itself misses nothing.
LEMMA MeetsMisses ==
  ASSUME Supplying, NEW i \in PluginId, NEW p \in Plugin, registry.plugins[i] = p,
         At(i).listed = Entries(p)
  PROVE  MissingRequirements(table, p) = {}
<1> SUFFICES ASSUME NEW k \in Requires[p]
             PROVE  \E q : q \in Providers(table, k)
  BY TableAssumption, DwellingTypes DEF MissingRequirements, Provided, Providers, ToSet, Tables, Supplying
<1>0. /\ k \in Cap /\ p # NoPlugin /\ Meets(p, registry.dependencies[i]) /\ RP!Present(registry)
      /\ registry.dependencies \in [PluginId -> SUBSET PluginId]
  BY TableAssumption, DwellingTypes DEF Supplying, Required, Depending
<1>1. CASE k \in Provides[p]
  <2>1. p \in At(i).listed[k]
    BY <1>0, <1>1 DEF Entries
  <2>. QED  BY <1>0, <2>1 DEF At, ListedAt
<1>2. CASE \E d \in registry.dependencies[i] : Supplies(d, k)
  <2>1. PICK d \in registry.dependencies[i] : Supplies(d, k)
    BY <1>2
  <2>2. d \in PluginId /\ i \in RP!LiveDependents(registry, d)
    BY <1>0 DEF RP!Present, RP!Members, RP!LiveDependents
  <2>3. At(d).listed = Entries(registry.plugins[d])
    BY <2>1, <2>2, DependedIsListed DEF Supplying, Supplies
  <2>4. registry.plugins[d] \in At(d).listed[k]
    BY <1>0, <2>1, <2>3 DEF Entries, Supplies
  <2>. QED  BY <1>0, <2>4 DEF At, ListedAt
<1>. QED  BY <1>0, <1>1, <1>2 DEF Meets


\* What a step does to what d supplies.
Keeps(d) == \A k : Supplies(d, k) => Supplies(d, k)'

LEMMA MeetsStays ==
  ASSUME NEW p, NEW deps, Meets(p, deps), \A d \in deps : Keeps(d)
  PROVE  Meets(p, deps)'
BY DEF Meets, Keeps

\* A step of c that changes at most the entry and the edges of i.
Touches(c, i) ==
  /\ \A d \in Call : d # c => pc'[d] = pc[d] /\ loc'[d] = loc[d]
  /\ Taken \subseteq Taken'
  /\ \A p \in Plugin : p \notin Taken' => idOf'[p] = idOf[p]
  /\ \A j \in PluginId : j # i => /\ registry'.plugins[j] = registry.plugins[j]
                                  /\ registry'.dependencies[j] = registry.dependencies[j]

\* c does not prepare a reload, or it has edges for it.
Prepared(c) ==
  pc[c] \in {"get_state", "reload_on_start"} =>
    Meets(loc[c].plug, loc[c].newDeps) \/ \E d \in loc[c].newDeps : Gone(d)

\* The id in question keeps what it supplies, or nobody needs it.
LEMMA RequiredAt ==
  ASSUME Supplying, NEW c \in Call, NEW i \in PluginId, Touches(c, i), Prepared(c)',
         \/ Keeps(i)
         \/ registry'.plugins[i] = NoPlugin /\ RP!LiveDependents(registry, i) = {} /\ i \in Taken,
         i \in Taken /\ registry.plugins[i] = NoPlugin => registry'.plugins[i] = NoPlugin,
         registry'.plugins[i] # NoPlugin =>
           i \in Taken' /\ Meets(registry.plugins[i], registry.dependencies[i])'
  PROVE  Required'
<1>0. /\ registry.plugins \in [PluginId -> Plugin \cup {NoPlugin}]
      /\ registry.dependencies \in [PluginId -> SUBSET PluginId]
      /\ \A d \in Call : TypedLocals(loc[d])
      /\ RP!Present(registry)
  BY DwellingTypes DEF Supplying, Depending
<1>1. \A j \in PluginId : j # i => Keeps(j)
  BY DEF Touches, Keeps, Supplies
<1>2. \A p \in Plugin \ Taken' : idOf'[p] = p
  BY DEF Touches, Supplying, Required
<1>3. ASSUME NEW j \in PluginId, registry'.plugins[j] # NoPlugin
      PROVE  j \in Taken' /\ Meets(registry.plugins[j], registry.dependencies[j])'
  <2>1. CASE j = i
    BY <1>3, <2>1
  <2>2. CASE j # i
    <3>1. /\ registry'.plugins[j] = registry.plugins[j] /\ registry.plugins[j] # NoPlugin
          /\ registry'.dependencies[j] = registry.dependencies[j]
          /\ j \in Taken /\ Meets(registry.plugins[j], registry.dependencies[j])
      BY <1>3, <2>2 DEF Touches, Supplying, Required
    <3>2. \A d \in registry.dependencies[j] : Keeps(d)
      <4>1. ASSUME i \in registry.dependencies[j]
            PROVE  j \in RP!LiveDependents(registry, i)
        BY <1>0, <3>1, <4>1 DEF RP!Present, RP!Members, RP!LiveDependents
      <4>2. \A d \in registry.dependencies[j] : d \in PluginId
        BY <1>0
      <4>. QED  BY <1>1, <4>1, <4>2
    <3>3. Meets(registry.plugins[j], registry.dependencies[j])'
      <4>1. \A p, deps : Meets(p, deps) /\ (\A d \in deps : Keeps(d)) => Meets(p, deps)'
        BY MeetsStays
      <4>. QED  BY <3>1, <3>2, <4>1 DEF Meets
    <3>. QED  BY <3>1, <3>3 DEF Touches
  <2>. QED  BY <2>1, <2>2
<1>4. ASSUME NEW d \in Call
      PROVE  Prepared(d)'
  <2>1. CASE d = c
    BY <2>1
  <2>2. CASE d # c
    <3> SUFFICES ASSUME NEW p, NEW deps, p = loc[d].plug, deps = loc[d].newDeps,
                        pc'[d] \in {"get_state", "reload_on_start"}
                 PROVE  Meets(p, deps)' \/ \E e \in deps : Gone(e)'
      BY <2>2 DEF Prepared, Touches, Meets
    <3>1. Meets(p, deps) \/ \E e \in deps : Gone(e)
      BY <2>2 DEF Touches, Supplying, Required
    <3>2. \A e \in deps : e \in PluginId
      BY <1>0 DEF TypedLocals
    <3>3. CASE \E e \in deps : Gone(e)
      BY <3>2, <3>3 DEF Touches, Gone
    <3>4. CASE Meets(p, deps) /\ i \in deps /\ ~Keeps(i)
      BY <3>4 DEF Touches, Gone
    <3>5. CASE Meets(p, deps) /\ (i \in deps => Keeps(i))
      BY <1>1, <3>2, <3>5, MeetsStays
    <3>. QED  BY <3>1, <3>3, <3>4, <3>5
  <2>. QED  BY <2>1, <2>2
<1>. QED  BY <1>2, <1>3, <1>4 DEF Required, Prepared

\* A step that leaves the registry as it is.
LEMMA RequiredStays ==
  ASSUME Supplying, NEW c \in Call, Taken \subseteq Taken',
         \A d \in Call : d # c => pc'[d] = pc[d] /\ loc'[d] = loc[d],
         \A p \in Plugin : p \notin Taken' => idOf'[p] = idOf[p],
         SameEntries(registry, registry'), Prepared(c)'
  PROVE  Required'
<1>1. \A d : Keeps(d)
  BY DEF Keeps, Supplies, SameEntries
<1>2. \A d : Gone(d) => Gone(d)'
  BY DEF Gone, SameEntries
<1>3. \A p, deps : Meets(p, deps) => Meets(p, deps)'
  BY <1>1 DEF Meets, Keeps
<1>4. \A p \in Plugin \ Taken' : idOf'[p] = p
  BY DEF Supplying, Required
<1>5. \A j \in PluginId : registry'.plugins[j] # NoPlugin =>
        j \in Taken' /\ Meets(registry.plugins[j], registry.dependencies[j])'
  BY <1>3 DEF Supplying, Required, SameEntries, Meets
<1>6. ASSUME NEW d \in Call
      PROVE  Prepared(d)'
  <2>1. CASE d # c
    BY <1>2, <1>3, <2>1 DEF Supplying, Required, Prepared, Meets
  <2>. QED  BY <2>1
<1>. QED  BY <1>4, <1>5, <1>6 DEF Required, Prepared


\* A step that leaves the ids alone, too, and begins no reload.
LEMMA RequiredQuietly ==
  ASSUME Supplying, NEW c \in Call, Proceeds(c), pc'[c] \notin {"idle", "await_lock"},
         kind[c] \in {"register", "load"} => loc'[c].plug = loc[c].plug,
         pc'[c] \notin {"get_state", "reload_on_start"}, idOf' = idOf, SameEntries(registry, registry')
  PROVE  Required'
<1>1. Taken \subseteq Taken'
  BY TakenStays DEF Supplying, Dwelling, Typed
<1>2. Prepared(c)'
  BY DEF Prepared
<1>. QED  BY <1>1, <1>2, RequiredStays DEF Proceeds

\* A step that removes a plugin nobody depends on.
LEMMA RequiredAfterRemoval ==
  ASSUME Supplying, NEW c \in Call, Proceeds(c),
         pc'[c] \notin {"idle", "await_lock", "get_state", "reload_on_start"},
         kind[c] \in {"register", "load"} => loc'[c].plug = loc[c].plug, idOf' = idOf,
         \/ pc[c] \in Doomed /\ pc[c] \in Guarded
         \/ loc[c].id \in PluginId /\ RP!LiveDependents(registry, loc[c].id) = {},
         registry' = IF loc[c].id \in Registered THEN R!Removed(registry, loc[c].id) ELSE registry
  PROVE  Required'
<1> SUFFICES ASSUME NEW i, i = loc[c].id  PROVE Required'
  OBVIOUS
<1>0. /\ RP!Consistent(registry) /\ registry.plugins \in [PluginId -> Plugin \cup {NoPlugin}]
      /\ registry.dependencies \in [PluginId -> SUBSET PluginId] /\ NoPlugin \notin Plugin
  BY DwellingTypes DEF Supplying
<1>1. i \in PluginId /\ RP!LiveDependents(registry, i) = {}
  BY WorkerAt DEF Supplying, Depending
<1>2. CASE i \notin Registered
  BY <1>2, RequiredQuietly DEF SameEntries
<1>3. CASE i \in Registered
  <2>1. registry.plugins[i] \in Plugin
    BY <1>0, <1>1, <1>3 DEF Registered, R!Members
  <2>2. EntryIs(registry, R!Removed(registry, i), i, NoPlugin, {})
    BY <1>0, <1>1, <2>1, RegistryStepAt
  <2>3. /\ registry'.plugins[i] = NoPlugin
        /\ \A j \in PluginId : j # i => /\ registry'.plugins[j] = registry.plugins[j]
                                        /\ registry'.dependencies[j] = registry.dependencies[j]
    BY <1>0, <1>1, <1>3, <2>2 DEF EntryIs
  <2>4. Taken \subseteq Taken'
    BY TakenStays DEF Supplying, Dwelling, Typed
  <2>5. Touches(c, i) /\ Prepared(c)'
    BY <2>3, <2>4 DEF Touches, Proceeds, Prepared
  <2>6. i \in Taken
    BY <1>0, <1>1, <2>1 DEF Supplying, Required
  <2>. QED  BY <1>1, <2>3, <2>5, <2>6, RequiredAt
<1>. QED  BY <1>2, <1>3

LEMMA RegisterSupplies ==
  ASSUME Supplying, NEW c \in Call, Proceeds(c), RegisterStep(c)
  PROVE  Required'
<1>0. /\ DOMAIN loc = Call /\ pc \in [Call -> PCs] /\ TypedLocals(loc[c]) /\ kind[c] # "stop"
      /\ RP!Consistent(registry) /\ registry.plugins \in [PluginId -> Plugin \cup {NoPlugin}]
      /\ idOf \in [Plugin -> PluginId] /\ initialized \cup shutdown \subseteq Taken /\ Residence
      /\ registry.dependencies \in [PluginId -> SUBSET PluginId] /\ CallsTyped
  BY DwellingTypes DEF Supplying
<1>1. ASSUME NEW p \in Plugin, RegisterRejected(c, p) \/ RegisterRefused(c, p)
      PROVE  Required'
  <2>1. pc'[c] = "raised" /\ loc' = loc /\ idOf' = idOf /\ registry' = registry
    BY <1>0, <1>1 DEF RegisterRejected, RegisterRefused, AboutToRegister, Refuse, Goto, graph,
           instances
  <2>. QED  BY <2>1, RequiredQuietly DEF SameEntries
<1>2. ASSUME NEW p \in Plugin, RegisterStart(c, p), NEW i, i = idOf[p], NEW edges, edges = NewEdges(p)
      PROVE  Required'
  <2>1. /\ pc[c] = "await_lock" /\ p = loc[c].plug /\ kind[c] \in {"register", "load"}
        /\ i \in PluginId /\ registry.plugins[i] = NoPlugin
        /\ registry' = R!Added(registry, i, p, edges) /\ loc' = [loc EXCEPT ![c].id = i]
        /\ idOf' = idOf /\ pc'[c] \in {"on_start", "rollback", "hook_registered"}
    BY <1>0, <1>2 DEF RegisterStart, AboutToRegister, Admissible, Registered, R!Members, instances,
           Goto
  <2>2. p \notin Taken /\ i = p
    <3>1. \A d \in Call : Hands(d) /\ pc[d] # "await_lock" => loc[d].plug # p
      BY <1>0, <2>1 DEF Residence, Orderly, Hands
    <3>2. p \notin Taken
      BY <1>0, <3>1 DEF Taken
    <3>. QED  BY <1>2, <3>2 DEF Supplying, Required
  <2>3. loc'[c].plug = p
    BY <1>0, <2>1 DEF TypedLocals, NoLocals
  <2>4. Taken \subseteq Taken' /\ p \in Taken'
    BY <1>0, <2>1, <2>3, TakenStays
  <2>5. MissingRequirements(table, p) = {}
    BY <1>2 DEF RegisterStart, Admissible, Admits
  <2>6. edges \in SUBSET PluginId
    BY <1>2, <2>5, NewEdgesTyped, DwellingTypes DEF Supplying
  <2>7. EntryIs(registry, registry', i, p, edges)
    <3>1. EntryIs(registry, R!Added(registry, i, p, edges), i, p, edges)
      BY <1>0, <2>1, <2>6, RegistryStepAt
    <3>. QED  BY <2>1, <3>1
  <2>8. /\ registry'.plugins[i] = p /\ registry'.dependencies[i] = edges
        /\ \A j \in PluginId : j # i => /\ registry'.plugins[j] = registry.plugins[j]
                                        /\ registry'.dependencies[j] = registry.dependencies[j]
    BY <1>0, <2>1, <2>7 DEF EntryIs
  <2>9. Touches(c, i) /\ Keeps(i) /\ Prepared(c)'
    BY <2>1, <2>4, <2>8 DEF Touches, Proceeds, Keeps, Supplies, Prepared
  <2>10. Meets(p, edges)'
    <3>1. \A k \in Requires[p] : \E d \in edges : Supplies(d, k)
      BY <1>2, <2>5, EdgesMeet DEF Supplying
    <3>2. \A d \in edges : \A k : Supplies(d, k) => d # i /\ Supplies(d, k)'
      BY <2>1, <2>6, <2>8 DEF Supplies
    <3>. QED  BY <3>1, <3>2 DEF Meets
  <2>11. Meets(registry.plugins[i], registry.dependencies[i])'
    BY <2>8, <2>10 DEF Meets
  <2>. QED  BY <2>1, <2>2, <2>4, <2>9, <2>11, RequiredAt
<1>3. CASE OnStartReturns(c) \/ OnStartRaises(c) \/ RegisterReturns(c)
  <2>1. /\ pc'[c] \in {"hook_registered", "rollback", "returned"}
        /\ loc' = loc /\ idOf' = idOf /\ registry' = registry
    BY <1>0, <1>3 DEF OnStartReturns, OnStartRaises, RegisterReturns, Finish, LeaveLock, Goto,
           graph, instances
  <2>. QED  BY <2>1, RequiredQuietly DEF SameEntries
<1>4. CASE RegisterRolledBack(c)
  <2>1. /\ pc[c] = "rollback" /\ pc'[c] = "raised" /\ loc' = loc /\ idOf' = idOf
        /\ registry' = IF loc[c].id \in Registered THEN R!Removed(registry, loc[c].id) ELSE registry
    BY <1>0, <1>4 DEF RegisterRolledBack, Finish, LeaveLock, Goto, instances
  <2>. QED  BY <2>1, RequiredAfterRemoval DEF Doomed, Guarded
<1>. QED  BY <1>1, <1>2, <1>3, <1>4 DEF RegisterStep

LEMMA UnregisterSupplies ==
  ASSUME Supplying, NEW c \in Call, Proceeds(c), UnregisterStep(c)
  PROVE  Required'
<1>0. /\ DOMAIN loc = Call /\ pc \in [Call -> PCs] /\ TypedLocals(loc[c]) /\ kind[c] # "stop"
  BY DwellingTypes DEF Supplying
<1>1. pc[c] # "teardown" /\ ~loc[c].force
  BY <1>0 DEF Supplying, Dwelling, Locking, Chains, InStop, Depending
<1>2. ASSUME NEW i \in PluginId, UnregisterRefused(c, i)
      PROVE  Required'
  <2>1. /\ kind[c] \in {"unregister", "force"} /\ pc'[c] \in {"returned", "raised"}
        /\ idOf' = idOf /\ registry' = registry
    BY <1>0, <1>1, <1>2 DEF UnregisterRefused, AboutToUnregister, Refuse, Goto, graph, instances
  <2>. QED  BY <2>1, RequiredQuietly DEF SameEntries
<1>3. ASSUME NEW i \in PluginId, UnregisterStart(c, i)
      PROVE  Required'
  <2>1. /\ kind[c] \in {"unregister", "force"} /\ idOf' = idOf
        /\ i = loc[c].id /\ i \in R!Members(registry) /\ R!LiveDependents(registry, i) = {}
        /\ \/ pc'[c] = "on_stop" /\ registry' = registry
           \/ pc'[c] = "hook_unregistered" /\ registry' = R!Removed(registry, i)
    BY <1>0, <1>1, <1>3 DEF UnregisterStart, AboutToUnregister, Goto, instances, R!CanRemove
  <2>2. CASE registry' = registry /\ pc'[c] = "on_stop"
    BY <2>1, <2>2, RequiredQuietly DEF SameEntries
  <2>3. CASE registry' = R!Removed(registry, i) /\ pc'[c] = "hook_unregistered"
    <3>1. RP!LiveDependents(registry, i) = {}
      BY <2>1 DEF R!LiveDependents, RP!LiveDependents, R!Members, RP!Members
    <3>. QED  BY <2>1, <2>3, <3>1, RequiredAfterRemoval DEF Registered
  <2>. QED  BY <2>1, <2>2, <2>3
<1>4. CASE OnStopEnds(c) \/ UnregisterReturns(c) \/ FinalDrainEnds(c)
  <2>1. /\ pc'[c] \in {"stopping_tasks", "final_drain"} \cup Final
        /\ idOf' = idOf /\ registry' = registry
        /\ loc' = loc \/ loc' = [loc EXCEPT ![c].ends = "returned"]
    BY <1>0, <1>4 DEF OnStopEnds, UnregisterReturns, FinalDrainEnds, DrainFinally, Finish, LeaveLock,
           Goto, graph, instances, TypedLocals, Final
  <2>2. loc'[c].plug = loc[c].plug
    BY <1>0, <2>1 DEF TypedLocals, NoLocals
  <2>. QED  BY <2>1, <2>2, RequiredQuietly DEF SameEntries, Final
<1>5. CASE StopEnds(c) \/ StopEndsWithDependents(c)
  <2>1. /\ pc[c] = "stopping_tasks" /\ pc'[c] \in {"hook_unregistered", "final_drain", "raised"}
        /\ idOf' = idOf
        /\ loc' = loc \/ loc' = [loc EXCEPT ![c].ends = "raised"]
        /\ \/ registry' = R!Removed(registry, loc[c].id) /\ loc[c].id \in R!Members(registry)
           \/ registry' = IF loc[c].id \in Registered THEN R!Removed(registry, loc[c].id)
                                                      ELSE registry
    BY <1>0, <1>5 DEF StopEnds, StopEndsWithDependents, DrainFinally, Finish, LeaveLock, Goto,
           R!CanRemove
  <2>2. loc'[c].plug = loc[c].plug
    BY <1>0, <2>1 DEF TypedLocals, NoLocals
  <2>3. registry' = IF loc[c].id \in Registered THEN R!Removed(registry, loc[c].id) ELSE registry
    BY <2>1 DEF Registered
  <2>. QED  BY <2>1, <2>2, <2>3, RequiredAfterRemoval DEF Doomed, Guarded
<1>. QED  BY <1>2, <1>3, <1>4, <1>5 DEF UnregisterStep


LEMMA ReloadSupplies ==
  ASSUME Supplying, NEW c \in Call, Proceeds(c), ReloadStep(c)
  PROVE  Required'
<1>0. /\ DOMAIN loc = Call /\ pc \in [Call -> PCs] /\ TypedLocals(loc[c]) /\ kind[c] # "stop"
      /\ RP!Consistent(registry) /\ registry.plugins \in [PluginId -> Plugin \cup {NoPlugin}]
      /\ idOf \in [Plugin -> PluginId] /\ CallsTyped /\ NoPlugin \notin Plugin
      /\ registry.dependencies \in [PluginId -> SUBSET PluginId]
  BY DwellingTypes DEF Supplying
<1>1. ASSUME NEW p \in Plugin, NEW i \in PluginId, ReloadRefused(c, p, i) \/ ReloadStart(c, p, i)
      PROVE  Required'
  <2>1. /\ kind[c] = "load" /\ p = loc[c].plug /\ loc'[c].plug = p
        /\ idOf' = [idOf EXCEPT ![p] = i] /\ registry' = registry
        /\ \/ ReloadRefused(c, p, i) /\ pc'[c] = "raised"
           \/ /\ ReloadStart(c, p, i) /\ pc'[c] = "get_state"
              /\ loc'[c].newDeps = SwapEdges(p, i)
    BY <1>0, <1>1 DEF ReloadRefused, ReloadStart, AboutToReload, Refuse, Goto, graph, TypedLocals,
           NoLocals
  <2>2. Taken \subseteq Taken' /\ p \in Taken'
    BY <1>0, <2>1, TakenStays
  <2>3. \A q \in Plugin : q \notin Taken' => idOf'[q] = idOf[q]
    BY <1>0, <2>1, <2>2
  <2>4. CASE ReloadRefused(c, p, i) /\ pc'[c] = "raised"
    BY <2>1, <2>2, <2>3, <2>4, RequiredStays DEF Proceeds, Prepared, SameEntries
  <2>5. CASE ReloadStart(c, p, i) /\ pc'[c] = "get_state" /\ loc'[c].newDeps = SwapEdges(p, i)
    <3>1. /\ MissingRequirements(table, p) = {} /\ registry.plugins[i] \in Plugin
          /\ NameOf[registry.plugins[i]] = NameOf[p]
      BY <1>0, <2>5 DEF ReloadStart, AboutToReload, Live, Registered, R!Members
    <3>2. Provides[registry.plugins[i]] = Provides[p]
      BY <3>1 DEF Supplying, Steady
    <3>3. ASSUME NEW k \in Requires[p], k \notin Provides[p]
          PROVE  \E d \in SwapEdges(p, i) : Supplies(d, k)
      <4>1. PICK d \in NewEdges(p) : Supplies(d, k)
        BY <3>1, EdgesMeet DEF Supplying
      <4>2. d # i
        BY <3>2, <3>3, <4>1 DEF Supplies
      <4>. QED  BY <4>1, <4>2 DEF SwapEdges
    <3>4. Meets(p, SwapEdges(p, i))
      BY <3>3 DEF Meets
    <3>5. Meets(loc[c].plug, loc[c].newDeps)'
      BY <2>1, <2>5, <3>4 DEF Meets, Supplies
    <3>. QED  BY <2>1, <2>2, <2>3, <3>5, RequiredStays DEF Proceeds, Prepared, SameEntries
  <2>. QED  BY <2>1, <2>4, <2>5
<1>2. CASE GetStateReturns(c)
  <2>1. /\ pc[c] = "get_state" /\ pc'[c] = "reload_on_start" /\ loc' = loc /\ idOf' = idOf
        /\ registry' = registry
    BY <1>0, <1>2 DEF GetStateReturns, Goto, instances
  <2>2. Taken \subseteq Taken'
    BY <1>0, <2>1, TakenStays
  <2>3. Prepared(c)'
    BY <2>1, <2>2 DEF Prepared, Supplying, Required, Meets, Supplies, Gone
  <2>. QED  BY <2>1, <2>2, <2>3, RequiredStays DEF Proceeds, SameEntries
<1>3. CASE ReloadOnStartReturns(c)
  <2> SUFFICES ASSUME NEW i, i = loc[c].id, NEW p, p = loc[c].plug, NEW new, new = loc[c].newDeps
               PROVE  Required'
    OBVIOUS
  <2>1. /\ pc[c] = "reload_on_start" /\ pc'[c] = "restore_state" /\ loc' = loc /\ idOf' = idOf
        /\ R!CanSwap(registry, i, p, new) /\ registry' = R!SwapAttempted(registry, i, p, new)
    BY <1>0, <1>3 DEF ReloadOnStartReturns, Goto, Swapped
  <2>2. /\ i \in PluginId /\ p \in Plugin /\ new \in SUBSET PluginId
        /\ registry.plugins[i] \in Plugin
    BY <1>0, <2>1, WorkerAt DEF Supplying, Guarded, TypedLocals, R!CanSwap, R!Members
  <2>3. EntryIs(registry, registry', i, p, new)
    BY <1>0, <2>1, <2>2, RegistrySwapAt
  <2>4. /\ registry'.plugins[i] = p /\ registry'.dependencies[i] = new
        /\ \A j \in PluginId : j # i => /\ registry'.plugins[j] = registry.plugins[j]
                                        /\ registry'.dependencies[j] = registry.dependencies[j]
    BY <1>0, <2>2, <2>3 DEF EntryIs
  <2>5. Taken \subseteq Taken'
    BY <1>0, <2>1, TakenStays
  <2>6. Touches(c, i) /\ Prepared(c)'
    BY <2>1, <2>4, <2>5 DEF Touches, Proceeds, Prepared
  <2>7. Keeps(i)
    <3>1. Provides[p] = Provides[registry.plugins[i]]
      BY <2>1, <2>2 DEF Supplying, Steady, R!CanSwap
    <3>. QED  BY <1>0, <2>2, <2>4, <3>1 DEF Keeps, Supplies
  <2>8. Meets(p, new)'
    <3>1. \A d \in new : ~Gone(d)
      BY <2>1 DEF R!CanSwap, R!CanReplaceEdges, R!Members, Gone
    <3>2. Meets(p, new)
      BY <2>1, <3>1 DEF Supplying, Required
    <3>3. \A d \in new : Keeps(d)
      BY <2>2, <2>4, <2>7 DEF Keeps, Supplies
    <3>. QED  BY <3>2, <3>3, MeetsStays
  <2>9. Meets(registry.plugins[i], registry.dependencies[i])'
    BY <2>4, <2>8 DEF Meets
  <2>10. i \in Taken /\ registry.plugins[i] # NoPlugin
    BY <1>0, <2>2 DEF Supplying, Required
  <2>. QED  BY <2>2, <2>5, <2>6, <2>7, <2>9, <2>10, RequiredAt
<1>4. CASE SwapRaises(c)
  <2>1. /\ pc[c] = "reload_on_start" /\ pc'[c] = "reload_rollback" /\ loc' = loc /\ idOf' = idOf
    BY <1>0, <1>4 DEF SwapRaises, Goto
  <2>. QED  BY <1>4, <2>1, RaisingSwapRestores, RequiredQuietly DEF Supplying
<1>5. CASE \/ GetStateRaises(c) \/ ReloadOnStartRaises(c) \/ RestoreStateReturns(c)
           \/ ReloadRolledBack(c) \/ OldOnStopEnds(c) \/ ReloadReturns(c)
  <2>1. /\ pc'[c] \in {"reload_rollback", "reload_on_stop", "reload_drain"} \cup Final
        /\ loc' = loc /\ idOf' = idOf /\ registry' = registry
    BY <1>0, <1>5 DEF GetStateRaises, ReloadOnStartRaises, RestoreStateReturns, ReloadRolledBack,
           OldOnStopEnds, ReloadReturns, Finish, LeaveLock, Goto, graph, instances, Final
  <2>. QED  BY <2>1, RequiredQuietly DEF SameEntries, Final
<1>6. ~RestoreStateRaises(c)
  BY DEF RestoreStateRaises, Supplying, Steady, Undisturbed
<1>. QED  BY <1>1, <1>2, <1>3, <1>4, <1>5, <1>6 DEF ReloadStep

LEMMA OthersSupply ==
  ASSUME Supplying, NEW c \in Call,
         \/ Proceeds(c) /\ (CoreStep(c) \/ Cancel(c))
         \/ \E k \in Kinds, caller \in {NoCall} \cup Call, own \in OwnTask :
              Invoke(c, k, caller, own)
  PROVE  Required'
<1>0. /\ DOMAIN loc = Call /\ pc \in [Call -> PCs] /\ kind[c] # "stop" /\ pc[c] \notin InStop
      /\ kind \in [Call -> Operations \cup {"none"}]
  BY DwellingTypes DEF Supplying, Dwelling, Locking, Chains, CallsTyped
<1>1. CASE Proceeds(c) /\ CoreStep(c)
  <2>1. /\ pc'[c] \in {"stopped_hook", "returned", "raised", "run_hook", "init_hook"}
        /\ loc' = loc /\ idOf' = idOf /\ registry' = registry
    BY <1>0, <1>1 DEF CoreStep, StopBegins, StopDrains, StopOrders, StopFinishes, StopReturns,
           StartBegins, StartRuns, StartReturns, Goto, graph, instances, InStop
  <2>. QED  BY <1>1, <2>1, RequiredQuietly DEF SameEntries
<1>2. CASE Proceeds(c) /\ Cancel(c)
  <2>0. pc[c] \notin Guarded
    BY <1>2 DEF Cancel, Supplying, Dwelling, Undisturbed
  <2>1. pc'[c] = "cancelled" /\ loc' = loc /\ idOf' = idOf /\ registry' = registry
    BY <1>0, <1>2, <2>0 DEF Cancel, CancelledOutside, CancelledInside, CancelledUnregistering,
           CancelledInFinally, Guarded, Goto, graph, instances
  <2>. QED  BY <1>2, <2>1, RequiredQuietly DEF SameEntries
<1>3. ASSUME NEW k \in Kinds, NEW caller \in {NoCall} \cup Call, NEW own \in OwnTask,
             Invoke(c, k, caller, own)
      PROVE  Required'
  <2>1. /\ pc[c] = "idle" /\ pc'[c] \in {"called", "raised", "await_lock"}
        /\ idOf' = idOf /\ registry' = registry
        /\ \A d \in Call : d # c => pc'[d] = pc[d] /\ loc'[d] = loc[d] /\ kind'[d] = kind[d]
    BY <1>0, <1>3 DEF Invoke, Goto, graph, instances
  <2>2. Taken \subseteq Taken'
    <3>1. \A d \in Call : Hands(d) /\ pc[d] # "await_lock" =>
            Hands(d)' /\ pc'[d] # "await_lock" /\ loc'[d] = loc[d]
      BY <2>1 DEF Hands
    <3>. QED  BY <3>1 DEF Taken
  <2>. QED  BY <2>1, <2>2, RequiredStays DEF Prepared, SameEntries
<1>. QED  BY <1>1, <1>2, <1>3

LEMMA NextSupplies ==
  ASSUME Supplying, [Next]_vars
  PROVE  Required'
<1>0. CallsTyped /\ state \in CoreStates
  BY DEF Supplying, Dwelling, Typed, CoreTyped
<1>1. ASSUME NEW c \in Call, Step(c)  PROVE Required'
  <2>1. Proceeds(c)
    BY <1>0, <1>1, StepProceeds
  <2>. QED  BY <1>1, <2>1, RegisterSupplies, UnregisterSupplies, ReloadSupplies, OthersSupply DEF Step
<1>2. ASSUME NEW c \in Call, Cancel(c)  PROVE Required'
  BY <1>0, <1>2, StepProceeds, OthersSupply
<1>3. ASSUME NEW c \in Call, NEW k \in Kinds, NEW caller \in {NoCall} \cup Call, NEW own \in OwnTask,
             Invoke(c, k, caller, own)
      PROVE  Required'
  BY <1>3, OthersSupply
<1>4. CASE UNCHANGED <<pc, loc, kind, registry, idOf>>
  <2>1. Taken' = Taken
    BY <1>4 DEF Taken, Hands
  <2>. QED  BY <1>4, <2>1 DEF Supplying, Required, Meets, Supplies, Gone
<1>5. List => UNCHANGED <<pc, loc, kind, registry, idOf>>
  BY DEF List, graph, instances, call
<1>6. UNCHANGED vars => UNCHANGED <<pc, loc, kind, registry, idOf>>
  BY DEF vars, graph, instances, call
<1>. QED  BY <1>1, <1>2, <1>3, <1>4, <1>5, <1>6 DEF Next

\* "A plugin's on_start() and on_stop() handlers can safely use any required
\* capability": whatever is registered, reloaded and removed before and while
\* they run.
THEOREM CallbacksFindRequirements ==
  ASSUME Steady
  PROVE  Spec => []CallbacksHaveRequirements
<1>1. Init => Required
  BY DEF Init, Required, R!EmptyRegistry
<1>2. /\ Undisturbed /\ NoForcedRemoval /\ UnbrokenFinally
      /\ Depending => RP!Present(registry)
  BY DEF Steady, Undisturbed, UnbrokenFinally, Guarded, Depending
<1>3. /\ Typed /\ GuardExclusive /\ Locking /\ Residence /\ Depending /\ Required
      /\ [Next]_vars
      => Required'
  BY <1>2, NextSupplies DEF Supplying, Dwelling
<1>4. Typed /\ GuardExclusive /\ Locking /\ Residence /\ Depending /\ Required =>
        CallbacksHaveRequirements
  <2> SUFFICES ASSUME Supplying, NEW c \in Call, pc[c] \in {"on_start", "on_stop"}
               PROVE  MissingRequirements(table, loc[c].plug) = {}
    BY <1>2 DEF CallbacksHaveRequirements, Supplying, Dwelling
  <2>1. loc[c].id \in PluginId /\ loc[c].plug \in Plugin /\ Alone(pc[c], At(loc[c].id), loc[c].plug)
    BY WorkerAt DEF Supplying, Guarded
  <2>2. registry.plugins[loc[c].id] = loc[c].plug /\ At(loc[c].id).listed = Entries(loc[c].plug)
    BY <2>1 DEF Alone, Serving, Stands, At
  <2>. QED  BY <2>1, <2>2, MeetsMisses
<1>. QED  BY <1>1, <1>2, <1>3, <1>4, AlwaysTyped, AlwaysLocking, GuardExcludes, AlwaysResides,
             AlwaysDepending, PTL DEF Spec

=============================================================================

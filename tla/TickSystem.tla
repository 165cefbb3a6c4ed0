----------------------------- MODULE TickSystem -----------------------------
(***************************************************************************)
(* The tick system of uxok: the clock (src/uxok/timing/_clock.py), the     *)
(* scheduler of deferred work (_scheduler.py), emit and hook with at_tick  *)
(* (plugin/_base.py) and the part of Core.stop that winds them down.       *)
(*                                                                         *)
(* Wall-clock time advances in units of which Interval make a tick period. *)
(* The clock's loop suspends only while it sleeps until its next boundary; *)
(* it may wake any time later, so everything it does at a boundary, all    *)
(* the boundaries it replays in burst mode included, is one step.  Slip is *)
(* only reported and is left out.                                          *)
(***************************************************************************)
EXTENDS Naturals, FiniteSets

CONSTANTS Owner,       \* plugin instances
          PluginOf,    \* PluginOf[o]: versions of a plugin share their id
          Work,        \* calls of emit or hook with at_tick
          OwnerOf,     \* OwnerOf[w]: the instance that makes the call
          Loop,        \* tasks that run the clock's loop
          NoLoop,
          Interval,    \* units of time in a tick period
          Catchups,    \* the values of CoreConfig.tick_catchup considered
          MaxTime, Horizon   \* bounds: of time, and of at_tick - core.tick

ASSUME TickAssumption ==
  /\ OwnerOf \in [Work -> Owner]
  /\ DOMAIN PluginOf = Owner
  /\ NoLoop \notin Loop
  /\ Interval \in Nat \ {0}
  /\ Catchups \subseteq {"skip", "burst"}
  /\ MaxTime \in Nat /\ Horizon \in Nat

VARIABLES
  now,         \* time.monotonic()
  catchup,     \* CoreConfig.tick_catchup
  running,     \* TickClock._running
  current,     \* TickClock._task
  origin,      \* _start_wall, with the tick count of that moment
  tick,        \* TickClock._tick
  loop,        \* loop[l]: the state of the task, and its next_boundary
  processed,   \* TickScheduler._last_processed_tick
  work,        \* work[w]: what has become of it, and the tick it is due
  retired,     \* instances whose resources have been drained
  handling,    \* instances with a handler in flight
  winding      \* how far Core.stop has come

clock == <<running, current, origin, loop>>
plugins == <<retired, handling>>
vars == <<now, catchup, clock, tick, processed, work, plugins, winding>>

Fates == {"unknown", "pending", "launched", "cancelled", "done", "dropped"}

Pending == {w \in Work : work[w].fate = "pending"}
InFlight == {w \in Work : work[w].fate \in {"launched", "cancelled"}}
Alive(l) == loop[l].state \in {"sleeping", "cancelled"}

\* Mutant: the others are lost.
BecomeOnly(W, fate) == [w \in W |-> [work[w] EXCEPT !.fate = fate]]

\* The fate of all of W becomes fate.
Become(W, fate) ==
  [w \in Work |-> IF w \in W THEN [work[w] EXCEPT !.fate = fate] ELSE work[w]]

Init ==
  /\ now = 0
  /\ catchup \in Catchups
  /\ running = FALSE /\ current = NoLoop
  /\ origin = [time |-> 0, tick |-> 0]
  /\ tick = 0 /\ processed = 0
  /\ loop = [l \in Loop |-> [state |-> "unused", next |-> 0]]
  /\ work = [w \in Work |-> [fate |-> "unknown", due |-> 0]]
  /\ retired = {} /\ handling = {}
  /\ winding = "down"

-----------------------------------------------------------------------------
(* The clock. *)

\* Mutant: start() does not look at _running.
MayStartAgain == TRUE

MayStart == ~running

\* Core.start, when Core.stop is not under way.
ClockStart(l) ==
  /\ winding \in {"down", "up"}
  /\ IF MayStart
     THEN /\ loop[l].state = "unused"
          /\ running' = TRUE
          /\ origin' = [time |-> now, tick |-> tick]
          /\ loop' = [loop EXCEPT ![l] = [state |-> "sleeping", next |-> now + Interval]]
          /\ current' = l
     ELSE UNCHANGED clock
  /\ winding' = "up"
  /\ UNCHANGED <<now, catchup, tick, processed, work, plugins>>

\* Mutant: the boundary re-anchored in both modes.
BoundaryReanchored(l, missed) == now + Interval

\* Skip: the boundaries after a miss are counted from the moment the clock
\* woke up.  Burst: they stay on the grid.
NextBoundary(l, missed) ==
  IF catchup = "skip" /\ missed > 0 THEN now + Interval
                                    ELSE loop[l].next + (missed + 1) * Interval

\* Either way the tick counter moves past the missed boundaries and this one.
Advance(missed) == missed + 1

\* Mutant: only the tick just reached is looked up.
DueNow(last, reached) == {w \in Pending : work[w].due = reached}

\* Entries due in (last, reached].
Due(last, reached) == {w \in Pending : last < work[w].due /\ work[w].due <= reached}

\* The loop wakes at or after its boundary: tick, scheduler, next
\* boundary.  _running is looked at only before the loop sleeps again.
Wake(l) ==
  /\ loop[l].state = "sleeping" /\ now >= loop[l].next
  /\ LET missed == (now - loop[l].next) \div Interval
         reached == tick + Advance(missed)
     IN  /\ tick' = reached
         /\ IF reached > processed
            THEN processed' = reached /\ work' = Become(Due(processed, reached), "launched")
            ELSE UNCHANGED <<processed, work>>
         /\ loop' = [loop EXCEPT ![l] =
                       IF running THEN [state |-> "sleeping", next |-> NextBoundary(l, missed)]
                                  ELSE [state |-> "ended", next |-> 0]]
  /\ UNCHANGED <<now, catchup, running, current, origin, plugins, winding>>

TimePasses ==
  /\ now < MaxTime
  /\ now' = now + 1
  /\ UNCHANGED <<catchup, clock, tick, processed, work, plugins, winding>>

-----------------------------------------------------------------------------
(* Deferred work. *)

\* Plugin code runs while the plugin is registered, and in a handler that
\* was in flight when it was drained.
CanCall(o) == o \notin retired \/ o \in handling

\* emit or hook with at_tick = t; t <= core.tick raises.
Schedule(w, t) ==
  /\ CanCall(OwnerOf[w]) /\ work[w].fate = "unknown"
  /\ t > tick
  /\ work' = [work EXCEPT ![w] = [fate |-> "pending", due |-> t]]
  /\ UNCHANGED <<now, catchup, clock, tick, processed, plugins, winding>>

\* A launched task runs to its end, or is gone after cancel().
WorkEnds(w) ==
  /\ w \in InFlight
  /\ work' = Become({w}, "done")
  /\ UNCHANGED <<now, catchup, clock, tick, processed, plugins, winding>>

HandlerBegins(o) ==
  /\ o \notin retired \cup handling
  /\ handling' = handling \cup {o}
  /\ UNCHANGED <<now, catchup, clock, tick, processed, work, retired, winding>>

HandlerEnds(o) ==
  /\ o \in handling
  /\ handling' = handling \ {o}
  /\ UNCHANGED <<now, catchup, clock, tick, processed, work, retired, winding>>

\* Mutant: entries are found by plugin id.
OwnedByPlugin(o) == {w \in Pending : PluginOf[OwnerOf[w]] = PluginOf[o]}

\* unschedule_owner compares instances.
Owned(o) == {w \in Pending : OwnerOf[w] = o}

\* Unregistration or hot reload drains an instance.
Drain(o) ==
  /\ o \notin retired
  /\ retired' = retired \cup {o}
  /\ work' = Become(Owned(o), "dropped")
  /\ UNCHANGED <<now, catchup, clock, tick, processed, handling, winding>>

-----------------------------------------------------------------------------
(* Core.stop. *)

\* TickClock.stop: cancel the loop and wait for it.
StopClock ==
  /\ winding = "up"
  /\ winding' = "clock"
  /\ running' = FALSE
  /\ loop' = IF current \in Loop /\ loop[current].state = "sleeping"
             THEN [loop EXCEPT ![current].state = "cancelled"]
             ELSE loop
  /\ UNCHANGED <<now, catchup, current, origin, tick, processed, work, plugins>>

LoopEnds(l) ==
  /\ loop[l].state = "cancelled"
  /\ loop' = [loop EXCEPT ![l] = [state |-> "ended", next |-> 0]]
  /\ UNCHANGED <<now, catchup, running, current, origin, tick, processed, work,
                 plugins, winding>>

\* Mutant: stop() does not wait for the loop.
ClockGone == TRUE

ClockHasEnded == current = NoLoop \/ ~Alive(current)

\* TickScheduler.cancel_all: cancel what was launched and wait for it.
CancelAll ==
  /\ winding = "clock" /\ ClockHasEnded
  /\ winding' = "tasks"
  /\ current' = NoLoop
  /\ work' = Become(InFlight, "cancelled")
  /\ UNCHANGED <<now, catchup, running, origin, loop, tick, processed, plugins>>

\* Mutant: cancel_all does not wait for the tasks.
NotAwaited == TRUE

TasksHaveEnded == \A w \in Work : work[w].fate # "cancelled"

Stopped ==
  /\ winding = "tasks" /\ TasksHaveEnded
  /\ winding' = "down"
  /\ UNCHANGED <<now, catchup, clock, tick, processed, work, plugins>>

-----------------------------------------------------------------------------

Next ==
  \/ TimePasses
  \/ \E l \in Loop : ClockStart(l) \/ Wake(l) \/ LoopEnds(l)
  \/ \E w \in Work : WorkEnds(w) \/ \E t \in tick + 1 .. tick + Horizon : Schedule(w, t)
  \/ \E o \in Owner : HandlerBegins(o) \/ HandlerEnds(o) \/ Drain(o)
  \/ StopClock \/ CancelAll \/ Stopped

Spec == Init /\ [][Next]_vars

-----------------------------------------------------------------------------
(* Properties. *)

\* The type invariant.
TypeOK ==
  /\ now \in Nat /\ catchup \in {"skip", "burst"}
  /\ running \in BOOLEAN /\ current \in Loop \cup {NoLoop}
  /\ origin \in [time : Nat, tick : Nat]
  /\ tick \in Nat /\ processed \in Nat
  /\ loop \in [Loop -> [state : {"unused", "sleeping", "cancelled", "ended"}, next : Nat]]
  /\ work \in [Work -> [fate : Fates, due : Nat]]
  /\ retired \subseteq Owner /\ handling \subseteq Owner
  /\ winding \in {"down", "up", "clock", "tasks"}

\* "The sole framework-driven task and the only writer of _tick": whatever
\* starts, stops and restarts there are, at most one loop advances the clock,
\* and it is the one that stop() cancels.
SoleLoop == \A l \in Loop : loop[l].state = "sleeping" => running /\ l = current

\* No deferred work is lost: what is pending is due at a tick the scheduler
\* has yet to look at, however many ticks the clock jumps over and however
\* often it is restarted.
NothingStranded == \A w \in Pending : work[w].due > processed

\* What is pending is launched at the first boundary that reaches its tick,
\* never before, and it disappears without being launched only when its own
\* instance is drained: "draining the old instance must not cancel schedules
\* the new instance registered".
LeavesWhenDue ==
  [][\A w \in Pending :
       /\ work[w].fate' = "launched" => tick < work[w].due /\ work[w].due <= tick'
       /\ work[w].fate' = "dropped" => OwnerOf[w] \in retired']_vars

\* Whole periods on the wall clock since start(), and ticks since then.
Periods == (now - origin.time) \div Interval
Ticks == tick - origin.tick

\* "Advance boundary (monotonic, no drift accumulation)": a clock that has
\* caught up, so that its next boundary lies ahead, has counted every period
\* but one.  The tolerance is one period, whatever has happened before.
NoDrift ==
  \A l \in Loop : loop[l].state = "sleeping" /\ now < loop[l].next => Periods <= Ticks + 1

\* The counter never runs ahead of the wall clock, however long the loop was
\* kept from running, and in burst mode a clock that has caught up has counted
\* every period, exactly.
KeepsTime ==
  /\ running => Ticks <= Periods
  /\ \A l \in Loop :
       catchup = "burst" /\ loop[l].state = "sleeping" /\ now < loop[l].next =>
         Periods = Ticks

\* Once stop() is past the tick system no tick and no launched work runs
\* beside the teardown of the plugins.
StoppedIsQuiet == winding = "down" => InFlight = {} /\ \A l \in Loop : ~Alive(l)

\* "Pending at_tick entries belonging to the plugin instance are cancelled
\* during teardown, so no zombie work fires after unregistration."
NoZombieWork == \A w \in Pending : OwnerOf[w] \notin retired

=============================================================================

-------------------------- MODULE TickSystemProofs --------------------------
(***************************************************************************)
(* The tick system, for any plugins, deferred work, tick period and number *)
(* of starts: deferred work is launched at its tick and never stranded,    *)
(* one loop drives the clock, the counter keeps to the wall clock, and a   *)
(* core that has stopped is quiet.                                         *)
(***************************************************************************)
EXTENDS TickSystem, TLAPS

\* The scheduler has looked up to the tick the clock has reached.
Processing == TypeOK /\ processed = tick /\ NothingStranded

\* The number of periods a loop has missed when it wakes.
LEMMA MissedIsNatural ==
  ASSUME TypeOK, NEW l \in Loop, now >= loop[l].next
  PROVE  (now - loop[l].next) \div Interval \in Nat
<1>1. now - loop[l].next \in Nat
  BY DEF TypeOK
<1>. QED BY <1>1, TickAssumption

LEMMA BecomeTyped ==
  ASSUME TypeOK, NEW W, NEW fate \in Fates
  PROVE  /\ Become(W, fate) \in [Work -> [fate : Fates, due : Nat]]
         /\ \A w \in Work : /\ Become(W, fate)[w].due = work[w].due
                            /\ Become(W, fate)[w].fate = IF w \in W THEN fate ELSE work[w].fate
BY DEF TypeOK, Become

\* What a wake-up does, with the arithmetic of the boundaries left out.
LEMMA WakeTyped ==
  ASSUME TypeOK, NEW l \in Loop, Wake(l)
  PROVE  /\ TypeOK'
         /\ tick' > tick
         /\ \/ tick' <= processed /\ processed' = processed /\ work' = work
            \/ /\ tick' > processed /\ processed' = tick'
               /\ work' = Become(Due(processed, tick'), "launched")
<1>. DEFINE missed == (now - loop[l].next) \div Interval
<1>1. missed \in Nat
  BY MissedIsNatural DEF Wake
<1>2. tick' = tick + missed + 1 /\ tick' \in Nat /\ tick' > tick
  BY <1>1 DEF Wake, Advance, TypeOK
<1>3. NextBoundary(l, missed) \in Nat
  <2>. HIDE DEF missed
  <2>1. loop[l].next + (missed + 1) * Interval \in Nat /\ now + Interval \in Nat
    <3>1. (missed + 1) * Interval \in Nat
      BY <1>1, TickAssumption
    <3>. QED BY <3>1, TickAssumption DEF TypeOK
  <2>. QED BY <2>1 DEF NextBoundary
<1>4. loop' \in [Loop -> [state : {"unused", "sleeping", "cancelled", "ended"}, next : Nat]]
  <2>. HIDE DEF missed
  <2>1. loop' = [loop EXCEPT ![l] =
                   IF running THEN [state |-> "sleeping", next |-> NextBoundary(l, missed)]
                              ELSE [state |-> "ended", next |-> 0]]
    BY DEF Wake, missed
  <2>. QED BY <2>1, <1>3 DEF TypeOK
<1>5. \/ tick' <= processed /\ processed' = processed /\ work' = work
      \/ /\ tick' > processed /\ processed' = tick'
         /\ work' = Become(Due(processed, tick'), "launched")
  BY <1>2 DEF Wake, Advance, TypeOK
<1>6. work' \in [Work -> [fate : Fates, due : Nat]] /\ processed' \in Nat
  BY <1>2, <1>5, BecomeTyped DEF Fates, TypeOK
<1>. QED BY <1>2, <1>4, <1>5, <1>6 DEF TypeOK, Wake, plugins

LEMMA ProcessingInvariant ==
  /\ Init => Processing
  /\ Processing /\ [Next]_vars => Processing'
<1>1. Init => Processing
  <2>1. Init => TypeOK
    <3>1. Init => work \in [Work -> [fate : Fates, due : Nat]]
      BY DEF Init, Fates
    <3>2. Init => loop \in [Loop -> [state : {"unused", "sleeping", "cancelled", "ended"}, next : Nat]]
      BY DEF Init
    <3>3. Init => origin \in [time : Nat, tick : Nat]
      BY DEF Init
    <3>4. Init => catchup \in {"skip", "burst"}
      BY TickAssumption DEF Init
    <3>5. Init => running \in BOOLEAN /\ current \in Loop \cup {NoLoop}
      BY DEF Init
    <3>6. Init => now \in Nat /\ tick \in Nat /\ processed \in Nat
      BY DEF Init
    <3>7. Init => /\ retired \subseteq Owner /\ handling \subseteq Owner
                  /\ winding \in {"down", "up", "clock", "tasks"}
      BY DEF Init
    <3>. QED BY <3>1, <3>2, <3>3, <3>4, <3>5, <3>6, <3>7 DEF TypeOK
  <2>2. Init => Pending = {}
    BY DEF Init, Pending
  <2>3. Init => processed = tick
    BY DEF Init
  <2>. QED BY <2>1, <2>2, <2>3 DEF Processing, NothingStranded
<1>2. ASSUME Processing, Next
      PROVE  Processing'
  <2>. USE <1>2 DEF Processing
  <2>1. ASSUME NEW W, NEW fate \in Fates \ {"pending"}, work' = Become(W, fate)
        PROVE  /\ work' \in [Work -> [fate : Fates, due : Nat]]
               /\ \A w \in Pending' : w \in Pending /\ work'[w].due = work[w].due
    <3>1. W = W /\ fate \in Fates
      BY <2>1
    <3>. QED BY <2>1, <3>1, BecomeTyped DEF Pending
  <2>2. ASSUME processed' = processed, tick' = tick, TypeOK', work' = work
        PROVE  Processing'
    BY <2>2 DEF NothingStranded, Pending
  <2>3. ASSUME processed' = processed, tick' = tick, TypeOK',
               NEW W, NEW fate \in Fates \ {"pending"}, work' = Become(W, fate)
        PROVE  Processing'
    BY <2>1, <2>3 DEF NothingStranded
  <2>4. CASE TimePasses
    <3>1. TypeOK'
      BY <2>4 DEF TimePasses, TypeOK, clock, plugins
    <3>. QED BY <3>1, <2>2, <2>4 DEF TimePasses
  <2>5. ASSUME NEW l \in Loop, ClockStart(l)
        PROVE  Processing'
    <3>1. TypeOK'
      <4>1. CASE MayStart
        <5>1. now + Interval \in Nat
          BY TickAssumption DEF TypeOK
        <5>2. loop' \in [Loop -> [state : {"unused", "sleeping", "cancelled", "ended"}, next : Nat]]
          BY <2>5, <4>1, <5>1 DEF ClockStart, TypeOK
        <5>. QED BY <2>5, <4>1, <5>2 DEF ClockStart, TypeOK, plugins
      <4>2. CASE ~MayStart
        BY <2>5, <4>2 DEF ClockStart, TypeOK, clock, plugins
      <4>. QED BY <4>1, <4>2
    <3>. QED BY <3>1, <2>2, <2>5 DEF ClockStart
  <2>6. ASSUME NEW l \in Loop, Wake(l)
        PROVE  Processing'
    <3>1. TypeOK' /\ tick' > tick
      BY <2>6, WakeTyped
    <3>2. CASE tick' <= processed
      BY <3>1, <3>2 DEF TypeOK
    <3>3. CASE /\ tick' > processed /\ processed' = tick'
               /\ work' = Become(Due(processed, tick'), "launched")
      <4>1. \A w \in Work : /\ work'[w].due = work[w].due
                            /\ work'[w].fate = IF w \in Due(processed, tick')
                                               THEN "launched" ELSE work[w].fate
        BY <3>3, BecomeTyped DEF Fates
      <4>2. ASSUME NEW w \in Pending'
            PROVE  work'[w].due > processed'
        <5>1. w \in Pending /\ w \notin Due(processed, tick') /\ work'[w].due = work[w].due
          BY <4>1 DEF Pending
        <5>2. ~(work[w].due <= tick')
          BY <5>1 DEF Due, NothingStranded, Pending, TypeOK
        <5>. QED BY <5>1, <5>2, <3>1, <3>3 DEF TypeOK, Pending
      <4>. QED BY <3>1, <3>3, <4>2 DEF NothingStranded, TypeOK
    <3>. QED BY <2>6, <3>2, <3>3, WakeTyped
  <2>7. ASSUME NEW l \in Loop, LoopEnds(l)
        PROVE  Processing'
    <3>1. TypeOK'
      BY <2>7 DEF LoopEnds, TypeOK, plugins
    <3>. QED BY <3>1, <2>2, <2>7 DEF LoopEnds
  <2>8. ASSUME NEW w \in Work, WorkEnds(w)
        PROVE  Processing'
    <3>1. work' = Become({w}, "done") /\ "done" \in Fates \ {"pending"}
      BY <2>8 DEF WorkEnds, Fates
    <3>2. TypeOK'
      BY <2>1, <2>8, <3>1 DEF WorkEnds, TypeOK, clock, plugins
    <3>. QED BY <3>1, <3>2, <2>3, <2>8 DEF WorkEnds
  <2>9. ASSUME NEW w \in Work, NEW t \in tick + 1 .. tick + Horizon, Schedule(w, t)
        PROVE  Processing'
    <3>1. t \in Nat /\ t > processed
      BY <2>9, TickAssumption DEF TypeOK, Schedule
    <3>2. TypeOK'
      BY <2>9, <3>1 DEF Schedule, TypeOK, Fates, clock, plugins
    <3>3. \A v \in Pending' : v = w \/ (v \in Pending /\ work'[v] = work[v])
      BY <2>9 DEF Schedule, Pending, TypeOK
    <3>4. work'[w].due = t
      BY <2>9 DEF Schedule, TypeOK
    <3>. QED BY <2>9, <3>1, <3>2, <3>3, <3>4 DEF Schedule, NothingStranded
  <2>10. ASSUME NEW o \in Owner, HandlerBegins(o) \/ HandlerEnds(o)
         PROVE  Processing'
    <3>1. TypeOK'
      BY <2>10 DEF HandlerBegins, HandlerEnds, TypeOK, clock
    <3>. QED BY <3>1, <2>2, <2>10 DEF HandlerBegins, HandlerEnds
  <2>11. ASSUME NEW o \in Owner, Drain(o)
         PROVE  Processing'
    <3>1. work' = Become(Owned(o), "dropped") /\ "dropped" \in Fates \ {"pending"}
      BY <2>11 DEF Drain, Fates
    <3>2. TypeOK'
      BY <2>1, <2>11, <3>1 DEF Drain, TypeOK, clock
    <3>. QED BY <3>1, <3>2, <2>3, <2>11 DEF Drain
  <2>12. CASE StopClock
    <3>1. TypeOK'
      BY <2>12 DEF StopClock, TypeOK, plugins
    <3>. QED BY <3>1, <2>2, <2>12 DEF StopClock
  <2>13. CASE CancelAll
    <3>1. work' = Become(InFlight, "cancelled") /\ "cancelled" \in Fates \ {"pending"}
      BY <2>13 DEF CancelAll, Fates
    <3>2. TypeOK'
      BY <2>1, <2>13, <3>1 DEF CancelAll, TypeOK, plugins
    <3>. QED BY <3>1, <3>2, <2>3, <2>13 DEF CancelAll
  <2>14. CASE Stopped
    <3>1. TypeOK'
      BY <2>14 DEF Stopped, TypeOK, clock, plugins
    <3>. QED BY <3>1, <2>2, <2>14 DEF Stopped
  <2>. QED
    BY <2>4, <2>5, <2>6, <2>7, <2>8, <2>9, <2>10, <2>11, <2>12, <2>13, <2>14 DEF Next
<1>3. Processing /\ UNCHANGED vars => Processing'
  BY DEF vars, clock, plugins, Processing, TypeOK, NothingStranded, Pending
<1>. QED BY <1>1, <1>2, <1>3

\* However long the loop is stalled, however far the counter jumps and
\* however often the clock is restarted, no pending entry falls behind
\* _last_processed_tick, where the scheduler would never look for it.
THEOREM NoWorkIsStranded == Spec => []NothingStranded
<1>1. Processing => NothingStranded
  BY DEF Processing
<1>. QED BY <1>1, ProcessingInvariant, PTL DEF Spec

\* The state of the tick system keeps its shape, the arithmetic of the
\* boundaries included: next_boundary and the counter are never negative.
THEOREM TickSystemTyped == Spec => []TypeOK
<1>1. Processing => TypeOK
  BY DEF Processing
<1>. QED BY <1>1, ProcessingInvariant, PTL DEF Spec

\* Work that becomes due leaves in the step that reaches its tick: the tick
\* the scheduler looked up last is the one the clock showed last.
LEMMA DueOnTime ==
  ASSUME Processing, [Next]_vars, NEW w \in Pending
  PROVE  /\ work[w].fate' = "launched" => tick < work[w].due /\ work[w].due <= tick'
         /\ work[w].fate' = "dropped" => OwnerOf[w] \in retired'
<1>0. TypeOK /\ processed = tick /\ w \in Work /\ work[w].fate = "pending"
  BY DEF Processing, Pending
<1>1. ASSUME NEW l \in Loop, Wake(l)
      PROVE  \/ work'[w] = work[w]
             \/ /\ work'[w].fate = "launched"
                /\ tick < work[w].due /\ work[w].due <= tick'
  <2>1. \/ work' = work
        \/ work' = Become(Due(processed, tick'), "launched")
    BY <1>0, <1>1, WakeTyped
  <2>. QED  BY <1>0, <2>1 DEF Become, Due, TypeOK
<1>2. ASSUME NEW v \in Work, WorkEnds(v)
      PROVE  work'[w] = work[w]
  BY <1>0, <1>2 DEF WorkEnds, InFlight, Become
<1>3. ASSUME NEW v \in Work, NEW t \in tick + 1 .. tick + Horizon, Schedule(v, t)
      PROVE  work'[w] = work[w]
  BY <1>0, <1>3 DEF Schedule, TypeOK
<1>4. ASSUME NEW o \in Owner, Drain(o)
      PROVE  work'[w] = work[w] \/ (work'[w].fate = "dropped" /\ OwnerOf[w] \in retired')
  BY <1>0, <1>4 DEF Drain, Become, Owned, TypeOK
<1>5. CASE CancelAll
  BY <1>0, <1>5 DEF CancelAll, Become, InFlight
<1>6. CASE work' = work
  BY <1>0, <1>6
<1>7. /\ TimePasses \/ StopClock \/ Stopped \/ UNCHANGED vars => work' = work
      /\ \A l \in Loop : ClockStart(l) \/ LoopEnds(l) => work' = work
      /\ \A o \in Owner : HandlerBegins(o) \/ HandlerEnds(o) => work' = work
  BY DEF TimePasses, StopClock, Stopped, ClockStart, LoopEnds, HandlerBegins, HandlerEnds, vars
<1>8. CASE work'[w] = work[w]
  BY <1>0, <1>8
<1>. QED  BY <1>0, <1>1, <1>2, <1>3, <1>4, <1>5, <1>6, <1>7, <1>8 DEF Next

\* Whatever the clock jumps over and whoever else is drained, deferred work is
\* launched at the boundary that reaches its tick, or goes with its instance.
THEOREM WorkLeavesWhenDue == Spec => LeavesWhenDue
<1>1. Processing /\ [Next]_vars
        => [\A w \in Pending :
              /\ work[w].fate' = "launched" => tick < work[w].due /\ work[w].due <= tick'
              /\ work[w].fate' = "dropped" => OwnerOf[w] \in retired']_vars
  BY DueOnTime
<1>. QED  BY <1>1, ProcessingInvariant, PTL DEF Spec, LeavesWhenDue

-----------------------------------------------------------------------------
(* One loop, and quiet after a stop. *)

NoneAlive == \A l \in Loop : ~Alive(l)
NoneIs(fate) == \A w \in Work : work[w].fate # fate

\* The clock runs exactly while the core is up, its loop is the one that
\* stop() will cancel, and each stage of stop() leaves nothing behind of what
\* it waited for.
Winding ==
  /\ \A l \in Loop : Alive(l) => l = current
  /\ \A l \in Loop : loop[l].state = "sleeping" => running
  /\ running <=> winding = "up"
  /\ winding \in {"tasks", "down"} => NoneAlive /\ NoneIs("launched")
  /\ winding = "down" => NoneIs("cancelled")

LEMMA WindingSuffices == Winding => SoleLoop /\ StoppedIsQuiet
BY DEF Winding, SoleLoop, StoppedIsQuiet, NoneAlive, NoneIs, Alive, InFlight

LEMMA ClockStartWinds ==
  ASSUME TypeOK, Winding, NEW l \in Loop, ClockStart(l)
  PROVE  Winding'
<1>. USE DEF Winding, NoneAlive, NoneIs, Alive
<1>1. CASE ~MayStart
  BY <1>1 DEF ClockStart, MayStart, clock, plugins, TypeOK
<1>2. CASE MayStart
  <2>1. winding = "down" /\ NoneAlive
    BY <1>2 DEF ClockStart, MayStart
  <2>2. /\ loop' = [loop EXCEPT ![l] = [state |-> "sleeping", next |-> now + Interval]]
        /\ current' = l /\ running' = TRUE /\ winding' = "up" /\ work' = work
    BY <1>2 DEF ClockStart
  <2>3. \A k \in Loop : Alive(k)' => k = l
    BY <2>1, <2>2 DEF TypeOK
  <2>. QED BY <2>2, <2>3
<1>. QED BY <1>1, <1>2

\* A loop that wakes sleeps again, for only a running clock has a sleeper.
LEMMA WakeWinds ==
  ASSUME TypeOK, Winding, NEW l \in Loop, Wake(l)
  PROVE  Winding'
<1>. USE DEF Winding, NoneAlive, NoneIs, Alive
<1>1. running /\ winding = "up" /\ UNCHANGED <<running, current, winding>>
  BY DEF Wake
<1>2. \A k \in Loop : Alive(k)' => Alive(k)
  <2>1. PICK r : loop' = [loop EXCEPT ![l] = r]
    BY DEF Wake
  <2>. QED BY <2>1 DEF TypeOK, Wake
<1>. QED BY <1>1, <1>2

LEMMA LoopEndsWinds ==
  ASSUME TypeOK, Winding, NEW l \in Loop, LoopEnds(l)
  PROVE  Winding'
<1>. USE DEF Winding, NoneAlive, NoneIs, Alive
<1>1. \A k \in Loop : loop'[k] = loop[k] \/ loop'[k].state = "ended"
  BY DEF LoopEnds, TypeOK
<1>. QED BY <1>1 DEF LoopEnds

LEMMA StopClockWinds ==
  ASSUME TypeOK, Winding, StopClock
  PROVE  Winding'
<1>. USE DEF Winding, NoneAlive, NoneIs, Alive
<1>1. \A k \in Loop : /\ loop'[k].state # "sleeping"
                      /\ loop'[k].state = "cancelled" => Alive(k)
  BY DEF StopClock, TypeOK
<1>. QED BY <1>1 DEF StopClock

LEMMA CancelAllWinds ==
  ASSUME TypeOK, Winding, CancelAll
  PROVE  Winding'
<1>. USE DEF Winding, NoneAlive, NoneIs, Alive
<1>1. NoneAlive
  BY TickAssumption DEF CancelAll, ClockHasEnded
<1>2. \A w \in Work : work'[w].fate # "launched"
  BY BecomeTyped DEF CancelAll, InFlight, Fates
<1>. QED BY <1>1, <1>2 DEF CancelAll

\* Work that changes its fate here changes it to one that is not in flight.
LEMMA FatesWind ==
  ASSUME TypeOK, Winding, UNCHANGED <<loop, current, running, winding>>,
         \A w \in Work : work'[w] = work[w] \/ work'[w].fate \in {"pending", "done", "dropped"}
  PROVE  Winding'
BY DEF Winding, NoneAlive, NoneIs, Alive

LEMMA WindingInvariant ==
  /\ Init => Winding
  /\ TypeOK /\ Winding /\ [Next]_vars => Winding'
<1>1. Init => Winding
  BY DEF Init, Winding, NoneAlive, NoneIs, Alive
<1>2. ASSUME TypeOK, Winding, Next
      PROVE  Winding'
  <2>. USE <1>2
  <2>1. ASSUME NEW W, NEW fate \in {"pending", "done", "dropped"}, work' = Become(W, fate),
               UNCHANGED <<loop, current, running, winding>>
        PROVE  Winding'
    <3>1. \A w \in Work : work'[w] = work[w] \/ work'[w].fate = fate
      BY <2>1 DEF Become, TypeOK
    <3>. QED BY <2>1, <3>1, FatesWind
  <2>2. CASE TimePasses
    BY <2>2, FatesWind DEF TimePasses, clock
  <2>3. ASSUME NEW l \in Loop, ClockStart(l) \/ Wake(l) \/ LoopEnds(l)
        PROVE  Winding'
    BY <2>3, ClockStartWinds, WakeWinds, LoopEndsWinds
  <2>4. ASSUME NEW w \in Work, WorkEnds(w)
        PROVE  Winding'
    BY <2>4, <2>1 DEF WorkEnds, clock
  <2>5. ASSUME NEW w \in Work, NEW t \in tick + 1 .. tick + Horizon, Schedule(w, t)
        PROVE  Winding'
    <3>1. \A v \in Work : work'[v] = work[v] \/ work'[v].fate = "pending"
      BY <2>5 DEF Schedule, TypeOK
    <3>. QED BY <2>5, <3>1, FatesWind DEF Schedule, clock
  <2>6. ASSUME NEW o \in Owner, HandlerBegins(o) \/ HandlerEnds(o)
        PROVE  Winding'
    BY <2>6, FatesWind DEF HandlerBegins, HandlerEnds, clock
  <2>7. ASSUME NEW o \in Owner, Drain(o)
        PROVE  Winding'
    BY <2>7, <2>1 DEF Drain, clock
  <2>8. CASE StopClock \/ CancelAll
    BY <2>8, StopClockWinds, CancelAllWinds
  <2>9. CASE Stopped
    BY <2>9 DEF Stopped, TasksHaveEnded, clock, Winding, NoneAlive, NoneIs, Alive
  <2>. QED BY <2>2, <2>3, <2>4, <2>5, <2>6, <2>7, <2>8, <2>9 DEF Next
<1>3. TypeOK /\ Winding /\ UNCHANGED vars => Winding'
  BY DEF vars, clock, Winding, NoneAlive, NoneIs, Alive
<1>. QED BY <1>1, <1>2, <1>3

\* However often the core is started and stopped, at most one loop advances
\* the tick counter, and it is the one TickClock.stop cancels and awaits.
THEOREM OneLoopDrives == Spec => []SoleLoop
<1>. QED BY TickSystemTyped, WindingInvariant, WindingSuffices, PTL DEF Spec

\* When Core.stop has passed the tick system, no tick is counted and no
\* deferred work runs while the plugins are torn down.
THEOREM QuietAfterStop == Spec => []StoppedIsQuiet
<1>. QED BY TickSystemTyped, WindingInvariant, WindingSuffices, PTL DEF Spec

-----------------------------------------------------------------------------
(* The counter and the wall clock. *)

LEMMA Quotient ==
  ASSUME NEW a \in Nat, NEW n \in Nat \ {0}, NEW k \in Nat
  PROVE  /\ a \div n \in Nat
         /\ (a \div n) * n <= a /\ a < (a \div n) * n + n
         /\ k * n <= a => k <= a \div n
         /\ k * n <= a /\ a < k * n + n => a \div n = k
<1>1. /\ a \div n \in Nat
      /\ (a \div n) * n <= a /\ a < (a \div n) * n + n
  OBVIOUS
<1>2. k * n <= a /\ a < k * n + n => a \div n = k
  OBVIOUS
<1>3. k * n <= a => k <= a \div n
  OBVIOUS
<1>. QED  BY <1>1, <1>2, <1>3

\* The nth boundary since the clock was started.
Grid(n) == origin.time + n * Interval

\* In burst mode the loop sleeps until the next boundary of the grid.  In skip
\* mode it has left the grid, but only to later moments.
Keeping ==
  /\ running => Ticks \in Nat /\ Grid(Ticks) <= now
  /\ \A l \in Loop : loop[l].state = "sleeping" =>
       /\ Ticks \in Nat
       /\ Grid(Ticks + 1) <= loop[l].next
       /\ catchup = "burst" => Grid(Ticks + 1) = loop[l].next

LEMMA GridStep ==
  ASSUME TypeOK, NEW n \in Nat, NEW k \in Nat
  PROVE  /\ Grid(n) \in Nat
         /\ Grid(n + k) = Grid(n) + k * Interval
         /\ Grid(0) = origin.time /\ Grid(n + 1) = Grid(n) + Interval
<1>1. Interval \in Nat /\ origin.time \in Nat
  BY TickAssumption DEF TypeOK
<1>2. n * Interval \in Nat /\ (n + k) * Interval = n * Interval + k * Interval
      /\ k * Interval \in Nat /\ (n + 1) * Interval = n * Interval + Interval
  BY <1>1
<1>. QED  BY <1>1, <1>2 DEF Grid

LEMMA KeepingSuffices == TypeOK /\ Winding /\ Keeping => KeepsTime
<1> SUFFICES ASSUME TypeOK, Winding, Keeping PROVE KeepsTime
  OBVIOUS
<1>0. Interval \in Nat \ {0} /\ origin.time \in Nat /\ now \in Nat
  BY TickAssumption DEF TypeOK
<1>1. ASSUME running  PROVE Ticks <= Periods
  <2>1. Ticks \in Nat /\ origin.time + Ticks * Interval <= now
    BY <1>1 DEF Keeping, Grid
  <2>. HIDE DEF Ticks
  <2>2. Ticks * Interval \in Nat
    BY <1>0, <2>1
  <2>3. now - origin.time \in Nat /\ Ticks * Interval <= now - origin.time
    BY <1>0, <2>1, <2>2
  <2>. QED  BY <1>0, <2>1, <2>3, Quotient DEF Periods
<1>2. ASSUME NEW l \in Loop, catchup = "burst", loop[l].state = "sleeping",
             now < loop[l].next
      PROVE  Periods = Ticks
  <2>1. /\ Ticks \in Nat /\ origin.time + Ticks * Interval <= now
        /\ now < origin.time + (Ticks + 1) * Interval
    BY <1>2 DEF Keeping, Grid, Winding
  <2>. HIDE DEF Ticks
  <2>2. Ticks * Interval \in Nat /\ (Ticks + 1) * Interval = Ticks * Interval + Interval
    BY <1>0, <2>1
  <2>3. /\ now - origin.time \in Nat /\ Ticks * Interval <= now - origin.time
        /\ now - origin.time < Ticks * Interval + Interval
    BY <1>0, <2>1, <2>2
  <2>. QED  BY <1>0, <2>1, <2>3, Quotient DEF Periods
<1>. QED  BY <1>1, <1>2 DEF KeepsTime

\* The loop wakes missed periods late: the counter moves past the boundaries
\* of these and its own, all of which have passed.
LEMMA WakeKeeps ==
  ASSUME TypeOK, Winding, Keeping, NEW l \in Loop, Wake(l)
  PROVE  Keeping'
<1> DEFINE missed == (now - loop[l].next) \div Interval
           next == loop[l].next
<1>0. /\ Interval \in Nat \ {0} /\ now \in Nat /\ next \in Nat /\ now >= next
      /\ tick \in Nat /\ origin.tick \in Nat /\ origin.time \in Nat
  BY TickAssumption DEF TypeOK, Wake
<1>1. /\ running /\ Ticks \in Nat /\ Grid(Ticks + 1) <= next
      /\ catchup = "burst" => Grid(Ticks + 1) = next
      /\ UNCHANGED <<running, origin, now, catchup>>
  BY DEF Wake, Winding, Keeping
<1>2. missed \in Nat /\ missed * Interval <= now - next
  <2>1. now - next \in Nat
    BY <1>0
  <2>. QED  BY <1>0, <2>1, Quotient
<1>3. /\ tick' = tick + missed + 1
      /\ loop' = [loop EXCEPT ![l] = [state |-> "sleeping", next |-> NextBoundary(l, missed)]]
  <2>1. /\ tick' = tick + Advance(missed)
        /\ loop' = [loop EXCEPT ![l] =
                      IF running THEN [state |-> "sleeping", next |-> NextBoundary(l, missed)]
                                 ELSE [state |-> "ended", next |-> 0]]
    BY DEF Wake
  <2>. HIDE DEF missed
  <2>. QED  BY <1>0, <1>1, <1>2, <2>1 DEF Advance
<1>4. NextBoundary(l, missed) = IF catchup = "skip" /\ missed > 0
                                THEN now + Interval ELSE next + (missed + 1) * Interval
  BY DEF NextBoundary
<1>5. Ticks' = Ticks + missed + 1 /\ Ticks' \in Nat
  <2>. HIDE DEF missed, next
  <2>. QED  BY <1>0, <1>1, <1>2, <1>3 DEF Ticks
<1>. HIDE DEF missed, next
<1>6. /\ Grid(Ticks + missed + 1) = Grid(Ticks + 1) + missed * Interval
      /\ Grid(Ticks + missed + 1 + 1) = Grid(Ticks + 1) + missed * Interval + Interval
      /\ Grid(Ticks + 1) \in Nat
  <2> DEFINE t == Ticks + 1
  <2>1. t \in Nat /\ Ticks + missed + 1 = t + missed
    BY <1>1, <1>2
  <2>2. t + missed \in Nat
    BY <1>2, <2>1
  <2>. HIDE DEF t
  <2>3. /\ Grid(t) \in Nat /\ Grid(t + missed) = Grid(t) + missed * Interval
        /\ Grid(t + missed + 1) = Grid(t + missed) + Interval
    BY <1>2, <2>1, <2>2, GridStep
  <2>. QED  BY <2>1, <2>3 DEF t
<1>7. Grid(Ticks)' = Grid(Ticks + missed + 1)
      /\ Grid(Ticks + 1)' = Grid(Ticks + missed + 1 + 1)
  BY <1>1, <1>5 DEF Grid
<1>8. missed * Interval \in Nat /\ (missed + 1) * Interval = missed * Interval + Interval
  BY <1>0, <1>2
<1>9. Grid(Ticks)' <= now'
  BY <1>0, <1>1, <1>2, <1>6, <1>7, <1>8
<1>10. /\ Grid(Ticks + 1)' <= NextBoundary(l, missed)
       /\ catchup = "burst" => Grid(Ticks + 1)' = NextBoundary(l, missed)
  BY <1>0, <1>1, <1>2, <1>4, <1>6, <1>7, <1>8
<1>11. \A k \in Loop : loop[k].state = "sleeping" => k = l
  BY DEF Winding, Alive, Wake
<1>12. loop'[l].next = NextBoundary(l, missed) /\ \A k \in Loop : k # l => loop'[k] = loop[k]
  BY <1>3 DEF TypeOK
<1>. QED  BY <1>1, <1>5, <1>9, <1>10, <1>11, <1>12 DEF Keeping

LEMMA StartKeeps ==
  ASSUME TypeOK, Winding, Keeping, NEW l \in Loop, ClockStart(l)
  PROVE  Keeping'
<1>1. CASE ~MayStart
  BY <1>1 DEF ClockStart, clock, Keeping, Ticks, Grid
<1>2. CASE MayStart
  <2>0. Interval \in Nat /\ now \in Nat /\ tick \in Nat
    BY TickAssumption DEF TypeOK
  <2>1. /\ origin'.time = now /\ origin'.tick = tick /\ tick' = tick /\ now' = now
        /\ loop' = [loop EXCEPT ![l] = [state |-> "sleeping", next |-> now + Interval]]
    BY <1>2 DEF ClockStart
  <2>2. Ticks' = 0 /\ Grid(Ticks)' = now /\ Grid(Ticks + 1)' = now + Interval
    BY <2>0, <2>1 DEF Ticks, Grid
  <2>3. \A k \in Loop : loop'[k].state = "sleeping" => loop'[k].next = now + Interval
    BY <1>2, <2>1 DEF MayStart, Winding, TypeOK
  <2>. QED  BY <2>0, <2>1, <2>2, <2>3 DEF Keeping
<1>. QED  BY <1>1, <1>2

LEMMA KeepingInvariant ==
  /\ Init => Keeping
  /\ TypeOK /\ Winding /\ Keeping /\ [Next]_vars => Keeping'
<1>1. Init => Keeping
  BY DEF Init, Keeping
<1>2. ASSUME TypeOK, Winding, Keeping, [Next]_vars
      PROVE  Keeping'
  <2>1. ASSUME UNCHANGED <<catchup, origin, tick>>, now' \in Nat, now <= now',
               running' => running,
               \A l \in Loop : loop'[l].state = "sleeping" => loop'[l] = loop[l]
        PROVE  Keeping'
    <3>1. Ticks' = Ticks /\ Grid(Ticks)' = Grid(Ticks) /\ Grid(Ticks + 1)' = Grid(Ticks + 1)
      BY <2>1 DEF Ticks, Grid
    <3>2. Ticks \in Nat => Grid(Ticks) \in Nat
      BY <1>2, GridStep
    <3>. QED  BY <1>2, <2>1, <3>1, <3>2 DEF Keeping, TypeOK
  <2>2. CASE TimePasses
    BY <1>2, <2>1, <2>2 DEF TimePasses, clock, TypeOK
  <2>3. ASSUME NEW l \in Loop, ClockStart(l) \/ Wake(l) PROVE Keeping'
    BY <1>2, <2>3, StartKeeps, WakeKeeps
  <2>4. ASSUME NEW l \in Loop, LoopEnds(l) PROVE Keeping'
    BY <1>2, <2>1, <2>4 DEF LoopEnds, TypeOK
  <2>5. CASE StopClock
    <3>1. \A l \in Loop : loop'[l].state = "sleeping" => loop'[l] = loop[l]
      BY <1>2, <2>5 DEF StopClock, TypeOK
    <3>. QED  BY <1>2, <2>1, <2>5, <3>1 DEF StopClock, TypeOK
  <2>6. CASE UNCHANGED <<now, catchup, running, origin, tick, loop>>
    BY <1>2, <2>1, <2>6 DEF TypeOK
  <2>7. /\ \A w \in Work : WorkEnds(w) \/ (\E t \in tick + 1 .. tick + Horizon : Schedule(w, t))
             => UNCHANGED <<now, catchup, running, origin, tick, loop>>
        /\ \A o \in Owner : HandlerBegins(o) \/ HandlerEnds(o) \/ Drain(o)
             => UNCHANGED <<now, catchup, running, origin, tick, loop>>
        /\ CancelAll \/ Stopped \/ UNCHANGED vars
             => UNCHANGED <<now, catchup, running, origin, tick, loop>>
    BY DEF WorkEnds, Schedule, HandlerBegins, HandlerEnds, Drain, CancelAll, Stopped, vars, clock
  <2>. QED  BY <1>2, <2>2, <2>3, <2>4, <2>5, <2>6, <2>7 DEF Next
<1>. QED  BY <1>1, <1>2

\* For any period, stall and number of restarts: the counter never runs ahead
\* of the wall clock, and a clock in burst mode that has caught up has counted
\* every period since it was started.
THEOREM ClockKeepsTime == Spec => []KeepsTime
<1>. QED  BY TickSystemTyped, WindingInvariant, KeepingInvariant, KeepingSuffices, PTL DEF Spec

=============================================================================

------------------------ MODULE BackgroundTasksProofs ------------------------
(***************************************************************************)
(* For any number of background tasks, however many cancellations they     *)
(* take and whoever takes the plugin down: no task is lost by its manager, *)
(* and only failures are reported as failures.                             *)
(***************************************************************************)
EXTENDS BackgroundTasks, TLAPS

\* What the manager and a drain know of has been created, and a fate is final.
Created ==
  /\ \A t \in tracked \cup drain.snapshot : life[t] # "unborn"
  /\ \A t \in Task : ~Done(t) => fate[t] = "none"

\* NothingLost alone is not inductive: of a task in the snapshot that has not
\* ended it has to be known that it began.
Tracking == TypeOK /\ NothingLost /\ Created

-----------------------------------------------------------------------------
(* The tasks. *)

\* A task ends, by itself or because it was asked to: it had no fate before,
\* so it was not reported.
LEMMA EndTracking ==
  ASSUME Tracking, NEW t \in Task, Alive(t), NEW how \in Fates, End(t, how)
  PROVE  Tracking'
<1>1. t \notin reported
  BY DEF Tracking, TypeOK, Created, Alive, Done
<1>2. /\ life' = [life EXCEPT ![t] = "ended"] /\ fate' = [fate EXCEPT ![t] = how]
      /\ pending' = pending \ {t}
      /\ UNCHANGED <<needs, tracked, reported, drain, stage>>
  BY DEF End
<1>3. TypeOK'
  BY <1>1, <1>2 DEF Tracking, TypeOK
<1>4. /\ life'[t] = "ended"
      /\ \A u \in Task \ {t} : life'[u] = life[u] /\ fate'[u] = fate[u]
  BY <1>2 DEF Tracking, TypeOK
<1>5. NothingLost'
  BY <1>2, <1>4 DEF Tracking, TypeOK, NothingLost, Alive
<1>6. Created'
  BY <1>2, <1>4 DEF Tracking, TypeOK, Created, Done
<1>. QED  BY <1>3, <1>5, <1>6 DEF Tracking

LEMMA TaskTracking ==
  ASSUME Tracking, NEW t \in Task, Create(t) \/ Run(t) \/ Ends(t) \/ TaskStep(t)
  PROVE  Tracking'
<1>1. CASE Create(t)
  <2>1. /\ life' = [life EXCEPT ![t] = "new"] /\ tracked' = tracked \cup {t}
        /\ UNCHANGED <<fate, needs, pending, reported, drain, stage>>
    BY <1>1 DEF Create
  <2>2. TypeOK'
    BY <2>1 DEF Tracking, TypeOK
  <2>3. NothingLost'
    BY <2>1 DEF Tracking, TypeOK, NothingLost, Alive
  <2>4. Created'
    BY <1>1, <2>1 DEF Create, Tracking, TypeOK, Created, Done
  <2>. QED  BY <2>2, <2>3, <2>4 DEF Tracking
<1>2. CASE Run(t)
  <2>1. /\ life[t] = "new" /\ life' = [life EXCEPT ![t] = "running"]
        /\ UNCHANGED <<fate, needs, pending, tracked, reported, drain, stage>>
    BY <1>2 DEF Run
  <2>2. TypeOK'
    BY <2>1 DEF Tracking, TypeOK
  <2>3. NothingLost'
    BY <2>1 DEF Tracking, TypeOK, NothingLost, Alive
  <2>4. Created'
    BY <2>1 DEF Tracking, TypeOK, Created, Done
  <2>. QED  BY <2>2, <2>3, <2>4 DEF Tracking
<1>3. CASE Ends(t)
  BY <1>3, EndTracking DEF Ends, Alive, Fates
<1>4. CASE GivesIn(t)
  BY <1>4, EndTracking DEF GivesIn, Alive, Fates
<1>5. CASE Resists(t)
  <2>1. /\ needs' = [needs EXCEPT ![t] = needs[t] - 1] /\ needs[t] > 1
        /\ pending' = pending \ {t}
        /\ UNCHANGED <<life, fate, tracked, reported, drain, stage>>
    BY <1>5 DEF Resists
  <2>2. needs' \in [Task -> 1..Stubborn]
    BY <2>1, TasksAssumption DEF Tracking, TypeOK
  <2>3. TypeOK'
    BY <2>1, <2>2 DEF Tracking, TypeOK
  <2>4. NothingLost' /\ Created'
    BY <2>1 DEF Tracking, NothingLost, Created, Alive, Done
  <2>. QED  BY <2>3, <2>4 DEF Tracking
<1>6. CASE OnTaskDone(t)
  <2>1. /\ life[t] = "ended" /\ life' = [life EXCEPT ![t] = "settled"]
        /\ tracked' = tracked \ {t} /\ reported' = reported \cup Reported(t)
        /\ UNCHANGED <<fate, needs, pending, drain, stage>>
    BY <1>6 DEF OnTaskDone
  <2>2. TypeOK'
    BY <2>1 DEF Tracking, TypeOK, Reported
  <2>3. NothingLost'
    BY <2>1 DEF Tracking, TypeOK, NothingLost, Alive
  <2>4. Created'
    BY <2>1 DEF Tracking, TypeOK, Created, Done
  <2>. QED  BY <2>2, <2>3, <2>4 DEF Tracking
<1>. QED  BY <1>1, <1>2, <1>3, <1>4, <1>5, <1>6 DEF TaskStep

-----------------------------------------------------------------------------
(* The drains. *)

\* What a manager or a drain knows of and what has not ended is alive.
LEMMA LiveIsAlive ==
  ASSUME Tracking, NEW t \in tracked \cup drain.snapshot, ~Done(t)
  PROVE  Alive(t)
BY DEF Tracking, TypeOK, Created, Done, Alive

LEMMA BeginTracking ==
  ASSUME Tracking, NEW by \in Task \cup {Kernel}, NEW at \in Draining,
         DrainBegins(by, at)
  PROVE  Tracking'
<1>1. /\ drain = NoDrain
      /\ UNCHANGED <<life, fate, needs, tracked, reported>>
  BY DEF DrainBegins, tasks
<1>2. CASE tracked = {}
  <2>1. pending' = pending /\ drain' = drain /\ stage' \in Stages
    BY <1>2 DEF DrainBegins, After, Stages
  <2>. QED  BY <1>1, <2>1 DEF Tracking, TypeOK, NothingLost, Created, Alive, Done
<1>3. CASE tracked # {}
  <2>1. /\ stage' = at /\ pending' = pending \cup Live(tracked)
        /\ drain' = [phase |-> "waiting", by |-> by, snapshot |-> tracked]
    BY <1>3 DEF DrainBegins
  <2>2. pending = {}
    BY <1>1 DEF Tracking, NothingLost, NoDrain
  <2>3. \A t \in Live(tracked) : Alive(t)
    BY LiveIsAlive DEF Live
  <2>4. TypeOK'
    BY <1>1, <2>1 DEF Tracking, TypeOK, Draining, Stages, Live
  <2>5. NothingLost'
    BY <1>1, <2>1, <2>2, <2>3 DEF Tracking, NothingLost, Alive, Live
  <2>6. Created'
    BY <1>1, <2>1 DEF Tracking, Created, Done
  <2>. QED  BY <2>4, <2>5, <2>6 DEF Tracking
<1>. QED  BY <1>2, <1>3

LEMMA TimeoutTracking ==
  ASSUME Tracking, TimesOut
  PROVE  Tracking'
<1>1. /\ drain' = [drain EXCEPT !.phase = "waiting_again"]
      /\ UNCHANGED <<life, fate, needs, tracked, reported, stage>>
  BY DEF TimesOut, tasks
<1>2. PICK S \in SUBSET Live(drain.snapshot) : pending' = pending \cup S
  BY DEF TimesOut, CancelledAgain
<1>3. \A t \in Live(drain.snapshot) : Alive(t) /\ t \in drain.snapshot
  BY LiveIsAlive DEF Live
<1>4. drain'.snapshot = drain.snapshot
  BY <1>1 DEF Tracking, TypeOK
<1>5. TypeOK'
  <2>1. pending' \subseteq Task
    BY <1>2 DEF Live, Tracking, TypeOK
  <2>2. drain' \in [phase : {"none", "waiting", "waiting_again"},
                    by : Task \cup {Kernel}, snapshot : SUBSET Task]
    BY <1>1 DEF Tracking, TypeOK
  <2>. QED  BY <1>1, <2>1, <2>2 DEF Tracking, TypeOK
<1>6. NothingLost'
  BY <1>1, <1>2, <1>3, <1>4 DEF Tracking, NothingLost, Alive
<1>7. Created'
  BY <1>1, <1>4 DEF Tracking, Created, Done
<1>. QED  BY <1>5, <1>6, <1>7 DEF Tracking

\* What is discarded has ended, so nobody who was asked to end is left.
LEMMA EndOfDrainTracking ==
  ASSUME Tracking, DrainEnds
  PROVE  Tracking'
<1>1. /\ tracked' = tracked \ drain.snapshot /\ drain' = NoDrain
      /\ stage' = After(stage)
      /\ UNCHANGED <<life, fate, needs, pending, reported>>
  BY DEF DrainEnds, tasks
<1>2. \A t \in drain.snapshot : Done(t)
  BY DEF DrainEnds, WaitEnds, Live
<1>3. \A t \in drain.snapshot : ~Alive(t)
  BY <1>2 DEF Done, Alive
<1>4. pending = {}
  BY <1>3 DEF Tracking, NothingLost
<1>5. TypeOK'
  BY <1>1 DEF Tracking, TypeOK, NoDrain, After, Stages
<1>6. NothingLost'
  BY <1>1, <1>3, <1>4 DEF Tracking, NothingLost, Alive
<1>7. Created'
  BY <1>1 DEF Tracking, Created, Done, NoDrain
<1>. QED  BY <1>5, <1>6, <1>7 DEF Tracking

-----------------------------------------------------------------------------

LEMMA InitTracking == Init => Tracking
BY TasksAssumption
   DEF Init, Tracking, TypeOK, NothingLost, Created, Alive, Done, NoDrain, Fates, Stages

LEMMA NextTracking == Tracking /\ [Next]_vars => Tracking'
<1> SUFFICES ASSUME Tracking, [Next]_vars PROVE Tracking'
  OBVIOUS
<1>1. ASSUME NEW t \in Task, Create(t) \/ Run(t) \/ Ends(t) \/ TaskStep(t)
      PROVE  Tracking'
  BY <1>1, TaskTracking
<1>2. ASSUME NEW by \in Task \cup {Kernel}, Unregister(by) \/ Replace(by)
      PROVE  Tracking'
  BY <1>2, BeginTracking DEF Unregister, Replace, Draining
<1>3. CASE DrainAgain
  BY <1>3, BeginTracking DEF DrainAgain, Draining
<1>4. CASE TimesOut
  BY <1>4, TimeoutTracking
<1>5. CASE DrainEnds
  BY <1>5, EndOfDrainTracking
<1>6. CASE UNCHANGED vars
  BY <1>6 DEF vars, tasks, Tracking, TypeOK, NothingLost, Created, Alive, Done
<1>. QED  BY <1>1, <1>2, <1>3, <1>4, <1>5, <1>6 DEF Next, DrainStep

\* A plugin's background tasks keep the shape the manager relies on, and what
\* it reports as a failure is one, not a cancellation.
THEOREM TasksTypeCorrect == Spec => []TypeOK
<1>1. Tracking => TypeOK
  BY DEF Tracking
<1>. QED  BY <1>1, InitTracking, NextTracking, PTL DEF Spec

\* However many tasks a plugin has, however long they resist and whatever
\* they create meanwhile: a task that has not ended is tracked, and only what
\* the drain under way began with is asked to end.
THEOREM NoTaskIsLost == Spec => []NothingLost
<1>1. Tracking => NothingLost
  BY DEF Tracking
<1>. QED  BY <1>1, InitTracking, NextTracking, PTL DEF Spec

=============================================================================

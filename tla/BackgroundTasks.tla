--------------------------- MODULE BackgroundTasks ---------------------------
(***************************************************************************)
(* The background tasks of one plugin: AsyncTaskManager                    *)
(* (src/uxok/utils/_helpers.py) as plugin/_base.py uses it, with the       *)
(* drains by which the kernel takes a plugin down: two in a row when it is *)
(* unregistered (Plugin.stop, then the `finally` of                        *)
(* _unregister_plugin_now), one when it is replaced (_drain_instance).     *)
(*                                                                         *)
(* Cancelling an asyncio task is a request.  It is delivered as an         *)
(* exception when the task runs next, requests that meet before that are   *)
(* one, and the task may catch it, clean up, create further tasks and go   *)
(* on.  A task that has not run at all ends without running.               *)
(***************************************************************************)
EXTENDS Naturals, FiniteSets

CONSTANTS Task,
          Kernel,      \* a lifecycle operation that runs in none of the tasks
          Stubborn     \* how many cancellations a task takes, at most

ASSUME TasksAssumption ==
  /\ Kernel \notin Task
  /\ Stubborn \in Nat \ {0}

VARIABLES
  life,       \* unborn, new (created, has not run), running, ended, settled
              \* (ended, and its done-callback has run)
  fate,       \* how it ended
  needs,      \* cancellations until it gives in
  pending,    \* tasks with a request that is not delivered
  tracked,    \* AsyncTaskManager._tasks
  reported,   \* tasks for which core.plugin_error was published
  drain,      \* the cancel_all under way: its caller and its snapshot
  stage       \* of the plugin

tasks == <<life, fate, needs>>
vars == <<tasks, pending, tracked, reported, drain, stage>>

Fates == {"none", "returned", "failed", "cancelled"}
Stages == {"up", "stop", "stopped", "final", "swap", "gone"}
Draining == {"stop", "final", "swap"}
NoDrain == [phase |-> "none", by |-> Kernel, snapshot |-> {}]

Init ==
  /\ life = [t \in Task |-> "unborn"]
  /\ fate = [t \in Task |-> "none"]
  /\ needs \in [Task -> 1..Stubborn]
  /\ pending = {} /\ tracked = {} /\ reported = {}
  /\ drain = NoDrain
  /\ stage = "up"

Done(t) == life[t] \in {"ended", "settled"}
Alive(t) == life[t] \in {"new", "running"}

\* A task that drains its own plugin is suspended in cancel_all.
InDrain(t) == drain.phase # "none" /\ drain.by = t

-----------------------------------------------------------------------------
(* The tasks. *)

\* create_background_task, called by anyone who has the instance: by its
\* callbacks and handlers, by another task, in the course of a drain, and
\* after it.  Nothing refuses.
Create(t) ==
  /\ life[t] = "unborn"
  /\ life' = [life EXCEPT ![t] = "new"]
  /\ tracked' = tracked \cup {t}
  /\ UNCHANGED <<fate, needs, pending, reported, drain, stage>>

Run(t) ==
  /\ life[t] = "new" /\ t \notin pending
  /\ life' = [life EXCEPT ![t] = "running"]
  /\ UNCHANGED <<fate, needs, pending, tracked, reported, drain, stage>>

End(t, how) ==
  /\ life' = [life EXCEPT ![t] = "ended"]
  /\ fate' = [fate EXCEPT ![t] = how]
  /\ pending' = pending \ {t}
  /\ UNCHANGED <<needs, tracked, reported, drain, stage>>

\* By itself.
Ends(t) ==
  /\ life[t] = "running" /\ t \notin pending /\ ~InDrain(t)
  /\ \E how \in {"returned", "failed"} : End(t, how)

\* CancelledError is raised where the task is suspended.
GivesIn(t) ==
  /\ t \in pending
  /\ \/ life[t] = "new" /\ End(t, "cancelled")
     \/ /\ life[t] = "running" /\ ~InDrain(t) /\ needs[t] = 1
        /\ \E how \in Fates \ {"none"} : End(t, how)

Resists(t) ==
  /\ t \in pending /\ life[t] = "running" /\ ~InDrain(t) /\ needs[t] > 1
  /\ needs' = [needs EXCEPT ![t] = needs[t] - 1]
  /\ pending' = pending \ {t}
  /\ UNCHANGED <<life, fate, tracked, reported, drain, stage>>

\* Mutants: cancellations are reported too; a plugin that is being taken down
\* reports nothing.
ReportedAnyhow(t) == {t}
ReportedIfUp(t) == IF fate[t] = "failed" /\ stage = "up" THEN {t} ELSE {}

Reported(t) == IF fate[t] = "failed" THEN {t} ELSE {}

\* _on_task_done: the event loop calls it after the task has ended.
OnTaskDone(t) ==
  /\ life[t] = "ended"
  /\ life' = [life EXCEPT ![t] = "settled"]
  /\ tracked' = tracked \ {t}
  /\ reported' = reported \cup Reported(t)
  /\ UNCHANGED <<fate, needs, pending, drain, stage>>

-----------------------------------------------------------------------------
(* cancel_all and the operations that call it. *)

Live(S) == {t \in S : ~Done(t)}

After(at) == IF at = "stop" THEN "stopped" ELSE "gone"

\* Nobody drains while somebody else does: the operation guard.  Without
\* tasks cancel_all returns at once.
DrainBegins(by, at) ==
  /\ drain = NoDrain
  /\ by \in Task => life[by] = "running" /\ by \notin pending
  /\ IF tracked = {}
     THEN stage' = After(at) /\ UNCHANGED <<pending, drain>>
     ELSE /\ stage' = at
          /\ pending' = pending \cup Live(tracked)
          /\ drain' = [phase |-> "waiting", by |-> by, snapshot |-> tracked]
  /\ UNCHANGED <<tasks, tracked, reported>>

\* unregister_plugin: on_stop is over.
Unregister(by) == stage = "up" /\ DrainBegins(by, "stop")

\* The same operation, after registry.remove and plugin.unregistered.
DrainAgain == stage = "stopped" /\ DrainBegins(Kernel, "final")

\* A reload drains the old instance, or a new one that failed.
Replace(by) == stage = "up" /\ DrainBegins(by, "swap")

\* Mutant: the second time nothing is cancelled.
NotAgain(S) == {}

\* cancel_all has waited for so long: wait_for cancels what it waits for.
CancelledAgain(S) == Live(S)

\* The event loop has delivered what was requested before.  A task that
\* waits for itself is cancelled recursively until the stack is exhausted,
\* when only some of the tasks have been reached.
TimesOut ==
  /\ drain.phase = "waiting" /\ Live(drain.snapshot) # {}
  /\ \A t \in drain.snapshot \ {drain.by} : t \notin pending
  /\ IF drain.by \in Task
     THEN \E S \in SUBSET CancelledAgain(drain.snapshot) : pending' = pending \cup S
     ELSE pending' = pending \cup CancelledAgain(drain.snapshot)
  /\ drain' = [drain EXCEPT !.phase = "waiting_again"]
  /\ UNCHANGED <<tasks, tracked, reported, stage>>

\* Mutant: the timeout ends the wait, whoever has resisted.
WaitOver == drain.phase = "waiting_again" \/ Live(drain.snapshot) = {}

\* wait_for and gather end with the last of the tasks, timeout or not.
WaitEnds == Live(drain.snapshot) = {}

DrainEnds ==
  /\ drain.phase # "none" /\ WaitEnds
  /\ tracked' = tracked \ drain.snapshot
  /\ drain' = NoDrain
  /\ stage' = After(stage)
  /\ UNCHANGED <<tasks, pending, reported>>

-----------------------------------------------------------------------------

TaskStep(t) == GivesIn(t) \/ Resists(t) \/ OnTaskDone(t)
DrainStep == DrainAgain \/ TimesOut \/ DrainEnds

Next ==
  \/ \E t \in Task : Create(t) \/ Run(t) \/ Ends(t) \/ TaskStep(t)
  \/ \E by \in Task \cup {Kernel} : Unregister(by) \/ Replace(by)
  \/ DrainStep

Spec == Init /\ [][Next]_vars

\* The event loop delivers cancellations and calls callbacks, timers expire,
\* and an operation goes on when it can.  A task that nobody cancels may run
\* for ever.
FairSpec == Spec /\ WF_vars(DrainStep) /\ \A t \in Task : WF_vars(TaskStep(t))

-----------------------------------------------------------------------------
(* Properties. *)

\* The type invariant.
TypeOK ==
  /\ life \in [Task -> {"unborn", "new", "running", "ended", "settled"}]
  /\ fate \in [Task -> Fates]
  /\ needs \in [Task -> 1..Stubborn]
  /\ pending \subseteq Task /\ tracked \subseteq Task /\ reported \subseteq Task
  /\ drain \in [phase : {"none", "waiting", "waiting_again"},
                by : Task \cup {Kernel}, snapshot : SUBSET Task]
  /\ stage \in Stages
  /\ \A t \in reported : fate[t] = "failed"

\* A task that has not ended is tracked, so that the next drain finds it:
\* what a drain discards at its end has ended, although tasks are created,
\* resist and end while it waits, and its timeout is over long before.  And a
\* request to end reaches only what was tracked when the drain began: a task
\* that is created by another one's cleanup works undisturbed until the next.
NothingLost ==
  /\ \A t \in Task : Alive(t) => t \in tracked
  /\ \A t \in pending : Alive(t) /\ t \in drain.snapshot

\* "Background tasks are tracked and cancelled automatically when the plugin
\* stops": the last drain leaves none.
NothingSurvives ==
  [][drain.phase # "none" /\ stage' = "gone" => \A t \in Task : ~Alive(t)']_vars

\* A background task that fails is reported, be it in its cleanup while the
\* plugin is taken down.
FailuresReported == \A t \in Task : fate[t] = "failed" ~> t \in reported

\* A drain ends, whatever the tasks do, if none takes more than two
\* cancellations, and if the plugin is not taken down by a task of its own:
\* that task would wait for itself.
DrainCompletes == drain.phase # "none" ~> drain.phase = "none" \/ drain.by \in Task

=============================================================================

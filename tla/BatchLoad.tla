------------------------------ MODULE BatchLoad ------------------------------
(***************************************************************************)
(* Loading a batch of plugins, load_plugins and try_load_plugins of        *)
(* src/uxok/core/_core.py: the planner they share (_collect_batch_plan,    *)
(* with topo_sort of src/uxok/utils/_helpers.py) and the commit.           *)
(*                                                                         *)
(* The plan is made before the lifecycle lock is taken, and on_start may   *)
(* re-enter the kernel while the plan is committed, so the steps of        *)
(* CapabilitySystem are interleaved with those of the batch.  One          *)
(* registration is one step here; its suspension points are in Lifecycle.  *)
(* As there, an id belongs to a name.  The check of the registry for cycles *)
(* is left to Registry: no edge leads to an id that is not registered, save *)
(* those that a forced removal has left behind.                            *)
(***************************************************************************)
EXTENDS CapabilitySystem, TopologicalOrder

CONSTANTS Garbage,     \* a source that does not materialize
          Batches,     \* the batches considered: sequences of Plugin and Garbage
          Modes,       \* TRUE is try_load_plugins, FALSE load_plugins
          MaxPlugins,  \* CoreConfig.max_plugins
          Depends      \* Depends[p]: the ids in metadata.dependencies

ASSUME BatchAssumption ==
  /\ Garbage \notin Plugin
  /\ Batches \subseteq Seq(Plugin \cup {Garbage})
  /\ Modes \subseteq BOOLEAN
  /\ \A p \in Plugin : IsFiniteSet(Provides[p])
  /\ MaxPlugins \in Nat
  /\ Depends \in [Plugin -> SUBSET PluginId]

VARIABLES
  phase,    \* how far the batch has come
  batch,    \* the sources
  lenient,  \* whether it is try_load_plugins that loads them
  needs,    \* plan.unsatisfied_requires, by position in the batch
  todo,     \* plan.ordered, as positions, but for those dealt with
  report,   \* what has become of each position
  quiet     \* nobody else has changed the core since the plan was made

batchVars == <<phase, batch, lenient, needs, todo, report, quiet>>
allVars == <<vars, batchVars>>

BatchInit ==
  /\ Init
  /\ phase = "idle" /\ batch = <<>> /\ lenient = FALSE
  /\ needs = <<>> /\ todo = <<>> /\ report = <<>>
  /\ quiet = TRUE

Skipped == {"materialize_error", "live_name_collision", "duplicate_name",
            "duplicate_provider", "contract_failure", "missing_capability",
            "dependent_of_skipped", "cycle_member", "max_plugins", "on_start_error"}

-----------------------------------------------------------------------------
(* The plan, stage by stage: sets of positions in the batch b. *)

LiveNames == {i \in PluginId : live[i] # NoPlugin}

Candidates(b) == {k \in DOMAIN b : b[k] # Garbage}
Name(b, k) == IdOf[b[k]]

ProvidersIn(b, c) == {k \in Candidates(b) : c \in Provides[b[k]]}

LiveNamed(b) == {k \in Candidates(b) : Name(b, k) \in LiveNames}
Duplicates(b) ==
  {k \in Candidates(b) \ LiveNamed(b) :
     \E m \in Candidates(b) \ {k} : Name(b, m) = Name(b, k)}

\* Stage 2: a fault of the batch as a whole.
Overflows(b) ==
  Cardinality(LiveNames \cup {Name(b, k) : k \in Candidates(b)}) > MaxPlugins

\* Stage 4, error_on_conflict only: rivals of live providers, then rivals of
\* each other.  A candidate that is out is no rival for the capabilities that
\* come later; their order is that of a dict filled from frozensets.
Refused(b, out) ==
  {k \in Candidates(b) \ out : ProvidesConflicts(policy, table, b[k]) # {}}

Contested(b, gone, c) ==
  LET claimants == ProvidersIn(b, c) \ gone
  IN  IF Cardinality(claimants) > 1 THEN gone \cup claimants ELSE gone

Rivals(b, out, order) ==
  LET gone[n \in 0 .. Len(order)] ==
        IF n = 0 THEN out \cup Refused(b, out) ELSE Contested(b, gone[n - 1], order[n])
  IN  IF policy = "error_on_conflict" THEN gone[Len(order)] \ out ELSE {}

\* Capabilities enter the dict with their first provider.
Orders(b) ==
  {s \in SetToSeqs({c \in Cap : ProvidersIn(b, c) # {}}) :
     \A m, n \in DOMAIN s : m < n =>
       \E k \in ProvidersIn(b, s[m]) : \A l \in ProvidersIn(b, s[n]) : k <= l}

\* Mutant: requirements that are satisfied by live providers count too.
RequiredAnyhow(b) == [k \in Candidates(b) |-> Requires[b[k]]]

UnsatisfiedRequires(b) == [k \in Candidates(b) |-> MissingRequirements(table, b[k])]

\* Stage 7 ends with the largest set of candidates whose needs its own
\* members meet.
Supported(b, fit) ==
  UNION {K \in SUBSET fit :
           \A k \in K : \A c \in UnsatisfiedRequires(b)[k] : ProvidersIn(b, c) \cap K # {}}

\* Positions as a list, in the order of the batch.
InputSeq(S) ==
  CHOOSE s \in [1 .. Cardinality(S) -> S] : \A m, n \in DOMAIN s : m < n => s[m] < s[n]

\* The order of commit, and the reason why each other position is left out.
Plan(b, order) ==
  LET out == LiveNamed(b) \cup Duplicates(b)
      rivals == Rivals(b, out, order)
      broken == {k \in Candidates(b) \ (out \cup rivals) : b[k] \in Broken}
      left == Candidates(b) \ (out \cup rivals \cup broken)
      missing == {k \in left : \E c \in UnsatisfiedRequires(b)[k] : ProvidersIn(b, c) = {}}
      supported == Supported(b, left \ missing)
      deps == [k \in supported |->
                 supported \cap UNION {ProvidersIn(b, c) : c \in UnsatisfiedRequires(b)[k]}]
      sorted == TopoSort(InputSeq(supported), deps)
      unresolved == supported \ ToSet(sorted)
      dependents == [k \in unresolved |-> {m \in unresolved : k \in deps[m]}]
      core == unresolved \ ToSet(TopoSort(InputSeq(unresolved), dependents))
      Fits(n) == n + Cardinality(LiveNames) <= MaxPlugins
  IN  [ordered |-> [n \in {m \in DOMAIN sorted : Fits(m)} |-> sorted[n]],
       reason |-> [k \in DOMAIN b |->
         CASE b[k] = Garbage -> "materialize_error"
           [] k \in LiveNamed(b) -> "live_name_collision"
           [] k \in Duplicates(b) -> "duplicate_name"
           [] k \in rivals -> "duplicate_provider"
           [] k \in broken -> "contract_failure"
           [] k \in missing -> "missing_capability"
           [] k \in core -> "cycle_member"
           [] k \in ToSet(sorted) ->
                IF \E n \in DOMAIN sorted : sorted[n] = k /\ Fits(n)
                THEN "planned" ELSE "max_plugins"
           [] OTHER -> "dependent_of_skipped"]]

Faulty(b, plan) ==
  Overflows(b) \/ \E k \in DOMAIN b : plan.reason[k] \in Skipped

-----------------------------------------------------------------------------
(* load_plugins and try_load_plugins. *)

\* Materialize and plan.  load_plugins raises on the first fault.
BatchBegins ==
  /\ phase = "idle"
  /\ batch' \in Batches /\ lenient' \in Modes
  /\ quiet' = TRUE
  /\ needs' = UnsatisfiedRequires(batch')
  /\ \E order \in Orders(batch') :
       LET plan == Plan(batch', order)
       IN  IF lenient' \/ ~Faulty(batch', plan)
           THEN phase' = "committing" /\ todo' = plan.ordered /\ report' = plan.reason
           ELSE /\ phase' = "done" /\ todo' = <<>>
                /\ report' = [k \in DOMAIN batch' |-> "refused"]
  /\ UNCHANGED vars

\* What k needs from the batch, nobody in the batch was loaded to provide.
Stranded(k) ==
  \E c \in needs[k] : \A m \in ProvidersIn(batch, c) : report[m] # "loaded"

\* The declared dependencies, which only the registry looks at.
DependenciesLive(p) == Depends[p] \subseteq LiveNames

\* What the registry asks of a plugin that it adds.
Registrable(p) ==
  /\ IdOf[p] \notin LiveNames
  /\ Cardinality(LiveNames) < MaxPlugins
  /\ DependenciesLive(p)

\* Admission, with the lock held, and the registry have nothing against k.
Admissible(k) == Admits(policy, table, batch[k]) /\ Registrable(batch[k])

CommitSkips ==
  /\ phase = "committing" /\ todo # <<>>
  /\ lenient /\ Stranded(Head(todo))
  /\ report' = [report EXCEPT ![Head(todo)] = "dependent_of_skipped"]
  /\ todo' = Tail(todo)
  /\ UNCHANGED <<vars, phase, batch, lenient, needs, quiet>>

CommitLoads ==
  /\ phase = "committing" /\ todo # <<>>
  /\ ~(lenient /\ Stranded(Head(todo)))
  /\ Admissible(Head(todo))
  /\ \E p \in Plugin : batch[Head(todo)] = p /\ Register(p)
  /\ report' = [report EXCEPT ![Head(todo)] = "loaded"]
  /\ todo' = Tail(todo)
  /\ UNCHANGED <<phase, batch, lenient, needs, quiet>>

\* Admission refuses the candidate, or its on_start raises and everything it
\* had registered is drained, without an announcement.  load_plugins raises.
CommitFails ==
  /\ phase = "committing" /\ todo # <<>>
  /\ ~(lenient /\ Stranded(Head(todo)))
  /\ report' = [report EXCEPT ![Head(todo)] = "on_start_error"]
  /\ IF lenient THEN todo' = Tail(todo) /\ UNCHANGED phase
                ELSE todo' = <<>> /\ phase' = "done"
  /\ revoked' = {} /\ rebound' = {}
  /\ UNCHANGED <<policy, table, live, batch, lenient, needs, quiet>>

CommitEnds ==
  /\ phase = "committing" /\ todo = <<>>
  /\ phase' = "done"
  /\ UNCHANGED <<vars, batch, lenient, needs, todo, report, quiet>>

BatchReturns ==
  /\ phase = "done"
  /\ phase' = "idle"
  /\ batch' = <<>> /\ needs' = <<>> /\ report' = <<>>
  /\ UNCHANGED <<vars, lenient, todo, quiet>>

\* Somebody else registers, reloads or unregisters a plugin; bounded to once
\* in the course of a batch.
OthersAct ==
  /\ phase = "idle" \/ quiet
  /\ \/ \E p \in Plugin : Registrable(p) /\ Register(p)
     \/ \E p \in Plugin : DependenciesLive(p) /\ Reload(p)
     \/ \E i \in PluginId : Unregister(i)
  /\ quiet' = (phase = "idle")
  /\ UNCHANGED <<phase, batch, lenient, needs, todo, report>>

BatchNext ==
  \/ BatchBegins \/ CommitSkips \/ CommitLoads \/ CommitFails \/ CommitEnds \/ BatchReturns
  \/ OthersAct

BatchSpec == BatchInit /\ [][BatchNext]_allVars

-----------------------------------------------------------------------------
(* Properties. *)

\* "Each candidate's requires is already satisfied at its own admission":
\* when its turn comes, and nobody else has interfered, a planned candidate
\* that is not stranded finds its capabilities, its name, its place and its
\* rivals as the plan foresaw, whatever was skipped or has failed before it.
\* Declared dependencies are no part of the plan; it is refused without them.
PlannedIsAdmitted ==
  phase = "committing" /\ quiet /\ todo # <<>> =>
    LET k == Head(todo)
    IN  \/ lenient /\ Stranded(k)
        \/ DependenciesLive(batch[k]) => Admissible(k)

\* "The only fault that can surface here is a candidate's own on_start()
\* raising (or a TOCTOU loss)" (_core.py:966).  MCBatchDeclared shows that a
\* declared dependency that is not registered, or comes later in the batch,
\* is another.
OnlyOnStartFails ==
  phase = "committing" /\ quiet /\ todo # <<>> =>
    Admissible(Head(todo)) \/ (lenient /\ Stranded(Head(todo)))

\* The positions left out for want of a capability.
LeftWanting ==
  {k \in DOMAIN report : report[k] \in {"missing_capability", "dependent_of_skipped", "cycle_member"}}

\* try_load_plugins "commits the maximal loadable subgraph": whatever it left
\* out for want of a capability still wants one when it is done.
LoadsMaximalSubgraph ==
  phase = "done" /\ lenient /\ quiet =>
    \A k \in LeftWanting : MissingRequirements(table, batch[k]) # {}

\* The same for batches in which no two plugins provide the same capability.
LoadsMaximalWithoutRivals ==
  (\A c \in Cap : Cardinality(ProvidersIn(batch, c)) <= 1) => LoadsMaximalSubgraph

\* Under error_on_conflict "every in-batch claimant skips (no winner is
\* chosen)": a candidate that is to be loaded has no rival that is skipped as
\* one, unless that one is a rival of a live provider.
NoWinnerChosen ==
  phase = "committing" /\ policy = "error_on_conflict" /\ quiet =>
    \A k, m \in DOMAIN report :
      report[k] = "planned" /\ report[m] = "duplicate_provider" =>
        \/ Provides[batch[k]] \cap Provides[batch[m]] = {}
        \/ ProvidesConflicts(policy, table, batch[m]) # {}

=============================================================================

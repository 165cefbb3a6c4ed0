--------------------------- MODULE CapabilityTable ---------------------------
(***************************************************************************)
(* The capability table of uxok (src/uxok/core/_capability_system.py): for *)
(* each capability the list of instances that provide it, in registration  *)
(* order, and the operations on it.  They are pure functions from table to *)
(* table, because the code keeps every mutation free of suspension points. *)
(*                                                                         *)
(* An entry counts as a plugin's when the instance carries the plugin's    *)
(* id; the id of an instance can be reassigned (hot reload), so operators  *)
(* that compare ids take the current assignment ids as a parameter.        *)
(***************************************************************************)
EXTENDS Arrangement, SequencesExt

CONSTANTS Cap,         \* capability names (reserved kernel grants excluded)
          Plugin,      \* plugin instances
          Provides,    \* Provides[p]: metadata.provides
          Requires,    \* Requires[p]: metadata.requires
          Broken,      \* instances that violate a protocol contract they declare
          Selection    \* CoreConfig.capability_selection

CollisionPolicies == {"error_on_conflict", "last_wins_with_warning", "first_wins"}
SelectionPolicies == {"first_registered", "last_registered"}

ASSUME TableAssumption ==
  /\ Provides \in [Plugin -> SUBSET Cap]
  /\ Requires \in [Plugin -> SUBSET Cap]
  /\ Broken \subseteq Plugin
  /\ Selection \in SelectionPolicies

Tables == [Cap -> Seq(Plugin)]
EmptyTable == [c \in Cap |-> <<>>]

Providers(t, c) == ToSet(t[c])
Provided(t) == {c \in Cap : t[c] # <<>>}

Selected(t, c) ==
  IF Selection = "last_registered" THEN Last(t[c]) ELSE Head(t[c])

-----------------------------------------------------------------------------
(* Admission. *)

MissingRequirements(t, p) == Requires[p] \ Provided(t)

ProvidesConflicts(policy, t, p) ==
  IF policy = "error_on_conflict" THEN Provides[p] \cap Provided(t) ELSE {}

Admits(policy, t, p) ==
  /\ MissingRequirements(t, p) = {}
  /\ ProvidesConflicts(policy, t, p) = {}
  /\ p \notin Broken

\* Mutant: only declared dependencies become edges.
NoRequirementEdges(t, p, ids) == {}

\* The dependency edges a plugin gets from its requirements.
RequirementEdges(t, p, ids) == {ids[Selected(t, c)] : c \in Requires[p]}

-----------------------------------------------------------------------------
(* Mutations. *)

\* Mutant: a capability that has a provider takes no other, whatever the policy.
WithPluginIfFree(policy, t, p) ==
  [c \in Cap |-> IF c \in Provides[p] /\ t[c] = <<>> THEN <<p>> ELSE t[c]]

\* register_capabilities, once Admits holds.
WithPlugin(policy, t, p) ==
  [c \in Cap |->
     IF c \in Provides[p] /\ (t[c] = <<>> \/ policy # "first_wins")
     THEN Append(t[c], p)
     ELSE t[c]]

\* unregister_capabilities_by_plugin: every entry that carries the id goes.
WithoutPlugin(t, id, ids) == [c \in Cap |-> Others(t[c], id, ids)]

Lost(t, u) == Provided(t) \ Provided(u)

\* Mutant: the old version is dropped, the new one has yet to be listed.
ProviderDropped(t, new, ids) == WithoutPlugin(t, ids[new], ids)

\* swap_provider: rebind what the new version provides, drop the rest.
ProviderSwapped(t, new, ids) ==
  [c \in Cap |-> IF c \in Provides[new] THEN Rebound(t[c], new, ids[new], ids)
                                        ELSE Others(t[c], ids[new], ids)]

\* The capabilities whose rebinding swap_provider reports.
ReboundCaps(t, new, ids) ==
  {c \in Provides[new] : \E q \in Providers(t, c) : ids[q] = ids[new]}

=============================================================================

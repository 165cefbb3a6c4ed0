-------------------------- MODULE CapabilitySystem --------------------------
(***************************************************************************)
(* The capability system on its own, driven the way the kernel drives it:  *)
(* a plugin is registered once, swapped for a later version of itself any  *)
(* number of times, and unregistered, under any of the collision policies. *)
(* The events the kernel publishes for a mutation are the variables        *)
(* revoked and rebound, which hold those of the latest step.  Failed       *)
(* registrations and drain_all are steps of module Lifecycle.              *)
(***************************************************************************)
EXTENDS CapabilityTable

CONSTANTS Policies,    \* the values of CoreConfig.capability_collision considered
          PluginId, NoPlugin,
          IdOf,        \* the plugin an instance is a version of
          Tag, NoTag,  \* tags a consumer may ask for, or none
          Tags         \* Tags[p]: metadata.tags

ASSUME SystemAssumption ==
  /\ Policies \subseteq CollisionPolicies
  /\ IdOf \in [Plugin -> PluginId]
  /\ NoPlugin \notin Plugin
  /\ NoTag \notin Tag /\ Tags \in [Plugin -> SUBSET Tag]

VARIABLES policy,    \* CoreConfig.capability_collision
          table,     \* _capabilities
          live,      \* the registered version of each plugin
          revoked,   \* core.capability.revoked events of the latest step
          rebound    \* core.capability.rebound events of the latest step

vars == <<policy, table, live, revoked, rebound>>

Init ==
  /\ policy \in Policies
  /\ table = EmptyTable
  /\ live = [i \in PluginId |-> NoPlugin]
  /\ revoked = {}
  /\ rebound = {}

\* get_capability, and _live_provider by which a facet resolves anew on every
\* call: the first, or last, of the providers with the tag.
Tagged(s, tag) == Kept(s, {k \in DOMAIN s : tag \in Tags[s[k]] \cup {NoTag}})

LiveProvider(t, c, tag) ==
  LET providers == Tagged(t[c], tag)
  IN  IF providers = <<>> THEN NoPlugin ELSE Selected([t EXCEPT ![c] = providers], c)

\* Registration of a plugin whose admission succeeds.
Register(p) ==
  /\ live[IdOf[p]] = NoPlugin
  /\ Admits(policy, table, p)
  /\ table' = WithPlugin(policy, table, p)
  /\ live' = [live EXCEPT ![IdOf[p]] = p]
  /\ revoked' = {} /\ rebound' = {}
  /\ UNCHANGED policy

\* Unregistration: the drain announces what nobody provides any more.
Unregister(i) ==
  /\ live[i] # NoPlugin
  /\ table' = WithoutPlugin(table, i, IdOf)
  /\ live' = [live EXCEPT ![i] = NoPlugin]
  /\ revoked' = Lost(table, table')
  /\ rebound' = {}
  /\ UNCHANGED policy

\* The capability part of a hot reload: requirements and contract are
\* checked, the collision policy is not.
Reload(new) ==
  /\ live[IdOf[new]] \notin {NoPlugin, new}
  /\ MissingRequirements(table, new) = {}
  /\ new \notin Broken
  /\ table' = ProviderSwapped(table, new, IdOf)
  /\ live' = [live EXCEPT ![IdOf[new]] = new]
  /\ revoked' = {}
  /\ rebound' = ReboundCaps(table, new, IdOf)
  /\ UNCHANGED policy

Next ==
  \/ \E p \in Plugin : Register(p) \/ Reload(p)
  \/ \E i \in PluginId : Unregister(i)

Spec == Init /\ [][Next]_vars

-----------------------------------------------------------------------------
(* Properties. *)

\* The provider lists follow the registry through any mixture of mutations:
\* a list names a plugin once ("de-duplicating by plugin ID so repeated
\* reloads cannot grow the provider lists"), in the version that is registered
\* and for a capability that it provides; and unless the policy drops later
\* providers, every registered version is listed under all it provides.
ListsFollowRegistry ==
  /\ \A c \in Cap :
       /\ \A p \in Providers(table, c) : live[IdOf[p]] = p /\ c \in Provides[p]
       /\ Cardinality(Providers(table, c)) = Len(table[c])
  /\ policy # "first_wins" =>
       \A i \in PluginId :
         live[i] # NoPlugin => \A c \in Provides[live[i]] : live[i] \in Providers(table, c)

\* A facet "re-resolves the provider from the capability system on every
\* call", so "a swap rebinds it transparently to the new provider": the
\* plugin that answers for a capability, with a tag or without, stays the
\* same plugin in its new version, if both versions provide it and bear the
\* tag, and is announced as rebound.
SwapKeepsSelection ==
  [][\A i \in PluginId, c \in Cap, tag \in Tag \cup {NoTag} :
       (/\ live[i] # NoPlugin /\ live'[i] \notin {NoPlugin, live[i]}
        /\ c \in Provides[live[i]] \cap Provides[live'[i]]
        /\ tag \in (Tags[live[i]] \cap Tags[live'[i]]) \cup {NoTag}
        /\ LiveProvider(table, c, tag) = live[i])
       => c \in rebound' /\ LiveProvider(table', c, tag) = live'[i]]_vars

\* core.capability.revoked is published "when a binding drops with no
\* replacement".
LossIsAnnounced == [][Lost(table, table') \subseteq revoked']_vars

=============================================================================

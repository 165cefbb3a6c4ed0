--------------------------- MODULE CapabilityProofs ---------------------------
(***************************************************************************)
(* Capabilities: the provider lists, for any plugins, capabilities,        *)
(* policies and batches; the contract check, for signatures with any       *)
(* number of parameters; and the loading of a batch, from what its plan    *)
(* promises (Sound, Wanting) to what is kept of that in the course of the  *)
(* commit (BatchInv).                                                      *)
(***************************************************************************)
EXTENDS BatchLoad, Contract, ArrangementProofs

-----------------------------------------------------------------------------
(* Provider lists: the invariant. *)

CapTyped ==
  /\ policy \in CollisionPolicies
  /\ table \in Tables
  /\ live \in [PluginId -> Plugin \cup {NoPlugin}]
  /\ \A i \in PluginId : live[i] # NoPlugin => IdOf[live[i]] = i

OnlyLive ==
  \A c \in Cap :
    /\ Distinct(table[c])
    /\ \A p \in ToSet(table[c]) : live[IdOf[p]] = p /\ c \in Provides[p]

AllLive ==
  policy # "first_wins" =>
    \A i \in PluginId :
      live[i] # NoPlugin => \A c \in Provides[live[i]] : live[i] \in ToSet(table[c])

CapInv == CapTyped /\ OnlyLive /\ AllLive

LEMMA InitCapInv == BatchInit => CapInv
<1>. SUFFICES ASSUME Init PROVE CapInv
  BY DEF BatchInit
<1>1. table = [c \in Cap |-> <<>>] /\ policy \in Policies /\ live = [i \in PluginId |-> NoPlugin]
  BY DEF Init, EmptyTable
<1>2. CapTyped
  BY <1>1, SystemAssumption DEF CapTyped, Tables
<1>3. OnlyLive
  BY <1>1 DEF OnlyLive, Distinct, ToSet
<1>4. AllLive
  BY <1>1 DEF AllLive
<1>. QED  BY <1>2, <1>3, <1>4 DEF CapInv

\* What an instance was, before a step, to those of the plugins.
LEMMA IdsTyped ==
  ASSUME NEW p \in Plugin
  PROVE  /\ IdOf[p] \in PluginId /\ p # NoPlugin
         /\ Provides[p] \in SUBSET Cap
BY SystemAssumption, TableAssumption

LEMMA RegisterKeepsLists ==
  ASSUME CapInv, NEW p \in Plugin, Register(p)
  PROVE  CapInv'
<1>1. /\ IdOf[p] \in PluginId /\ p # NoPlugin /\ live[IdOf[p]] = NoPlugin
      /\ live' = [live EXCEPT ![IdOf[p]] = p] /\ policy' = policy
      /\ live \in [PluginId -> Plugin \cup {NoPlugin}]
  BY IdsTyped DEF Register, CapInv, CapTyped
<1>2. ASSUME NEW c \in Cap
      PROVE  /\ table[c] \in Seq(Plugin)
             /\ p \notin ToSet(table[c])
             /\ \/ table'[c] = table[c] /\ (c \in Provides[p] => policy = "first_wins")
                \/ table'[c] = Append(table[c], p) /\ c \in Provides[p]
  BY <1>1 DEF Register, WithPlugin, CapInv, CapTyped, Tables, OnlyLive
<1>3. ASSUME NEW c \in Cap
      PROVE  /\ table'[c] \in Seq(Plugin)
             /\ Distinct(table'[c])
             /\ ToSet(table'[c]) \subseteq ToSet(table[c]) \cup {p}
             /\ ToSet(table[c]) \subseteq ToSet(table'[c])
             /\ p \in ToSet(table'[c]) => c \in Provides[p]
             /\ c \in Provides[p] /\ policy # "first_wins" => p \in ToSet(table'[c])
  <2>1. Distinct(table[c])
    BY DEF CapInv, OnlyLive
  <2>2. /\ Append(table[c], p) \in Seq(Plugin)
        /\ ToSet(Append(table[c], p)) = ToSet(table[c]) \cup {p}
        /\ Distinct(Append(table[c], p))
    BY <1>2, <2>1, AppendElements
  <2>3. ToSet(table[c]) \subseteq ToSet(table[c]) \cup {p}
    OBVIOUS
  <2>. QED  BY <1>2, <2>1, <2>2, <2>3
<1>4. CapTyped'
  BY <1>1, <1>3 DEF CapInv, CapTyped, Tables, Register, WithPlugin
<1>5. OnlyLive'
  <2> SUFFICES ASSUME NEW c \in Cap, NEW q \in ToSet(table'[c])
               PROVE  live'[IdOf[q]] = q /\ c \in Provides[q]
    BY <1>3 DEF OnlyLive
  <2>1. CASE q = p
    BY <1>1, <1>3, <2>1
  <2>2. CASE q # p
    <3>1. q \in ToSet(table[c]) /\ live[IdOf[q]] = q /\ c \in Provides[q] /\ q \in Plugin
      <4>1. ToSet(table[c]) \subseteq Plugin
        BY <1>2 DEF ToSet
      <4>. QED  BY <1>3, <2>2, <4>1 DEF CapInv, OnlyLive
    <3>2. IdOf[q] # IdOf[p] /\ IdOf[q] \in PluginId
      BY <1>1, <3>1, IdsTyped
    <3>. QED  BY <1>1, <3>1, <3>2
  <2>. QED  BY <2>1, <2>2
<1>6. AllLive'
  <2> SUFFICES ASSUME policy # "first_wins", NEW i \in PluginId, live'[i] # NoPlugin,
                      NEW c \in Provides[live'[i]]
               PROVE  live'[i] \in ToSet(table'[c])
    BY <1>1 DEF AllLive
  <2>1. CASE i = IdOf[p]
    BY <1>1, <1>3, <2>1, IdsTyped
  <2>2. CASE i # IdOf[p]
    <3>1. live'[i] = live[i] /\ live[i] \in Plugin
      BY <1>1, <2>2
    <3>2. c \in Cap /\ live[i] \in ToSet(table[c])
      BY <3>1, IdsTyped DEF CapInv, AllLive
    <3>. QED  BY <1>3, <3>1, <3>2
  <2>. QED  BY <2>1, <2>2
<1>. QED  BY <1>4, <1>5, <1>6 DEF CapInv

LEMMA UnregisterKeepsLists ==
  ASSUME CapInv, NEW i \in PluginId, Unregister(i)
  PROVE  CapInv'
<1>1. /\ live' = [live EXCEPT ![i] = NoPlugin] /\ policy' = policy
      /\ live \in [PluginId -> Plugin \cup {NoPlugin}]
      /\ table' = [c \in Cap |-> Others(table[c], i, IdOf)]
  BY DEF Unregister, WithoutPlugin, CapInv, CapTyped
<1>2. ASSUME NEW c \in Cap
      PROVE  /\ table[c] \in Seq(Plugin)
             /\ table'[c] \in Seq(Plugin)
             /\ ToSet(table'[c]) = {q \in ToSet(table[c]) : IdOf[q] # i}
             /\ Distinct(table'[c])
  <2>1. table[c] \in Seq(Plugin) /\ Distinct(table[c])
    BY DEF CapInv, CapTyped, Tables, OnlyLive
  <2>. QED  BY <1>1, <2>1, OthersProperties
<1>3. CapTyped'
  BY <1>1, <1>2 DEF CapInv, CapTyped, Tables
<1>4. OnlyLive'
  <2> SUFFICES ASSUME NEW c \in Cap, NEW q \in ToSet(table'[c])
               PROVE  live'[IdOf[q]] = q /\ c \in Provides[q]
    BY <1>2 DEF OnlyLive
  <2>1. ToSet(table[c]) \subseteq Plugin
    BY <1>2 DEF ToSet
  <2>2. q \in ToSet(table[c]) /\ IdOf[q] # i
    BY <1>2
  <2>3. live[IdOf[q]] = q /\ c \in Provides[q] /\ IdOf[q] \in PluginId
    BY <2>1, <2>2, IdsTyped DEF CapInv, OnlyLive
  <2>. QED  BY <1>1, <2>2, <2>3
<1>5. AllLive'
  <2> SUFFICES ASSUME policy # "first_wins", NEW j \in PluginId, live'[j] # NoPlugin,
                      NEW c \in Provides[live'[j]]
               PROVE  live'[j] \in ToSet(table'[c])
    BY <1>1 DEF AllLive
  <2>1. j # i /\ live'[j] = live[j] /\ live[j] \in Plugin
    BY <1>1
  <2>2. c \in Cap /\ live[j] \in ToSet(table[c]) /\ IdOf[live[j]] = j
    BY <2>1, IdsTyped DEF CapInv, CapTyped, AllLive
  <2>. QED  BY <1>2, <2>1, <2>2
<1>. QED  BY <1>3, <1>4, <1>5 DEF CapInv

LEMMA ReloadKeepsLists ==
  ASSUME CapInv, NEW new \in Plugin, Reload(new)
  PROVE  CapInv'
<1> DEFINE i == IdOf[new]
<1>1. /\ live' = [live EXCEPT ![i] = new] /\ policy' = policy
      /\ live \in [PluginId -> Plugin \cup {NoPlugin}] /\ i \in PluginId /\ new # NoPlugin
      /\ table' = [c \in Cap |-> IF c \in Provides[new] THEN Rebound(table[c], new, i, IdOf)
                                                        ELSE Others(table[c], i, IdOf)]
  BY IdsTyped DEF Reload, ProviderSwapped, CapInv, CapTyped
<1>2. ASSUME NEW c \in Cap
      PROVE  /\ table[c] \in Seq(Plugin)
             /\ table'[c] \in Seq(Plugin)
             /\ ToSet(table'[c]) = {q \in ToSet(table[c]) : IdOf[q] # i}
                                      \cup (IF c \in Provides[new] THEN {new} ELSE {})
             /\ Distinct(table'[c])
  <2>1. table[c] \in Seq(Plugin) /\ Distinct(table[c])
    BY DEF CapInv, CapTyped, Tables, OnlyLive
  <2>2. CASE c \in Provides[new]
    BY <1>1, <2>1, <2>2, ReboundProperties
  <2>3. CASE c \notin Provides[new]
    BY <1>1, <2>1, <2>3, OthersProperties
  <2>. QED  BY <2>2, <2>3
<1>. HIDE DEF i
<1>3. CapTyped'
  BY <1>1, <1>2 DEF CapInv, CapTyped, Tables, i
<1>4. OnlyLive'
  <2> SUFFICES ASSUME NEW c \in Cap, NEW q \in ToSet(table'[c])
               PROVE  live'[IdOf[q]] = q /\ c \in Provides[q]
    BY <1>2 DEF OnlyLive
  <2>1. CASE IdOf[q] = i
    <3>1. q = new /\ c \in Provides[new]
      BY <1>2, <2>1
    <3>. QED  BY <1>1, <2>1, <3>1
  <2>2. CASE IdOf[q] # i
    <3>1. q \in ToSet(table[c]) /\ q \in Plugin
      <4>1. ToSet(table[c]) \subseteq Plugin
        BY <1>2 DEF ToSet
      <4>2. q # new
        BY <2>2 DEF i
      <4>. QED  BY <1>2, <4>1, <4>2
    <3>. QED  BY <1>1, <2>2, <3>1, IdsTyped DEF CapInv, OnlyLive
  <2>. QED  BY <2>1, <2>2
<1>5. AllLive'
  <2> SUFFICES ASSUME policy # "first_wins", NEW j \in PluginId, live'[j] # NoPlugin,
                      NEW c \in Provides[live'[j]]
               PROVE  live'[j] \in ToSet(table'[c])
    BY <1>1 DEF AllLive
  <2>1. CASE j = i
    BY <1>1, <1>2, <2>1, IdsTyped
  <2>2. CASE j # i
    <3>1. live'[j] = live[j] /\ live[j] \in Plugin
      BY <1>1, <2>2
    <3>2. c \in Cap /\ live[j] \in ToSet(table[c]) /\ IdOf[live[j]] = j
      BY <3>1, IdsTyped DEF CapInv, CapTyped, AllLive
    <3>. QED  BY <1>2, <2>2, <3>1, <3>2
  <2>. QED  BY <2>1, <2>2
<1>. QED  BY <1>3, <1>4, <1>5 DEF CapInv

\* A step of a batch is one of the capability system, or leaves it alone.
LEMMA BatchSteps ==
  ASSUME [BatchNext]_allVars
  PROVE  \/ \E p \in Plugin : Register(p) \/ Reload(p)
         \/ \E i \in PluginId : Unregister(i)
         \/ UNCHANGED <<policy, table, live>>
<1>1. CASE BatchBegins \/ CommitSkips \/ CommitEnds \/ BatchReturns
  BY <1>1 DEF BatchBegins, CommitSkips, CommitEnds, BatchReturns, vars
<1>2. CASE CommitLoads
  BY <1>2 DEF CommitLoads
<1>3. CASE CommitFails
  BY <1>3 DEF CommitFails
<1>4. CASE OthersAct
  BY <1>4 DEF OthersAct
<1>5. CASE UNCHANGED allVars
  BY <1>5 DEF allVars, vars
<1>. QED  BY <1>1, <1>2, <1>3, <1>4, <1>5 DEF BatchNext

LEMMA CapInvInductive == BatchSpec => []CapInv
<1>1. CapInv /\ [BatchNext]_allVars => CapInv'
  <2> SUFFICES ASSUME CapInv, [BatchNext]_allVars PROVE CapInv'
    OBVIOUS
  <2>1. CASE UNCHANGED <<policy, table, live>>
    BY <2>1 DEF CapInv, CapTyped, OnlyLive, AllLive
  <2>. QED  BY <2>1, BatchSteps, RegisterKeepsLists, UnregisterKeepsLists, ReloadKeepsLists
<1>. QED  BY <1>1, InitCapInv, PTL DEF BatchSpec

\* For any plugins, capabilities, policies and batches: the provider lists
\* follow the registry.
THEOREM ProviderListsFollow == BatchSpec => []ListsFollowRegistry
<1>1. CapInv => ListsFollowRegistry
  <2> SUFFICES ASSUME CapInv PROVE ListsFollowRegistry
    OBVIOUS
  <2>1. ASSUME NEW c \in Cap
        PROVE  Cardinality(ToSet(table[c])) = Len(table[c])
    BY DistinctCount DEF CapInv, CapTyped, Tables, OnlyLive
  <2>. QED  BY <2>1 DEF CapInv, OnlyLive, AllLive, ListsFollowRegistry, Providers
<1>. QED  BY <1>1, CapInvInductive, PTL

-----------------------------------------------------------------------------
(* Selection. *)

\* The positions of the providers that bear the tag.
Bearing(s, tag) == {k \in DOMAIN s : tag \in Tags[s[k]] \cup {NoTag}}

\* The place of the selected one of n providers.
Place(n) == IF Selection = "last_registered" THEN n ELSE 1

\* The provider that answers has its place among those that bear the tag.
LEMMA LiveProviderPlace ==
  ASSUME NEW t \in Tables, NEW c \in Cap, NEW tag
  PROVE  LET P == Bearing(t[c], tag)
             N == Cardinality(P)
         IN  /\ IsFiniteSet(P) /\ N \in Nat
             /\ N = 0 => LiveProvider(t, c, tag) = NoPlugin
             /\ N # 0 => LiveProvider(t, c, tag) = t[c][Arranged(P, Ascending(P))[Place(N)]]
<1> DEFINE s == t[c]
           P == Bearing(s, tag)
           N == Cardinality(P)
           u == Kept(s, P)
<1>1. s \in Seq(Plugin) /\ P \in SUBSET DOMAIN s
  BY DEF Tables, Bearing
<1>2. Tagged(s, tag) = u
  BY DEF Tagged, Bearing
<1>3. LiveProvider(t, c, tag) =
        IF u = <<>> THEN NoPlugin ELSE Selected([t EXCEPT ![c] = u], c)
  BY <1>2 DEF LiveProvider
<1>4. [t EXCEPT ![c] = u][c] = u
  BY DEF Tables
<1>5. LiveProvider(t, c, tag) =
        IF u = <<>> THEN NoPlugin
        ELSE IF Selection = "last_registered" THEN Last(u) ELSE Head(u)
  BY <1>3, <1>4 DEF Selected
<1>. HIDE DEF s, P
<1>6. u = [n \in 1 .. N |-> s[Arranged(P, Ascending(P))[n]]]
  BY DEF Kept, ArrangedBy
<1>7. u \in Seq(Plugin) /\ Len(u) = N
  BY <1>1, KeptProperties
<1>8. IsFiniteSet(P) /\ N \in Nat
  BY <1>1, PositionsFinite
<1>. HIDE DEF u, N
<1>9. u = <<>> <=> N = 0
  BY <1>7
<1>10. N # 0 => Place(N) \in 1 .. N
  BY <1>8 DEF Place
<1>11. N # 0 => (IF Selection = "last_registered" THEN Last(u) ELSE Head(u)) = u[Place(N)]
  BY <1>7, <1>9 DEF Place, Last
<1>12. N # 0 => u[Place(N)] = s[Arranged(P, Ascending(P))[Place(N)]]
  BY <1>6, <1>10
<1>. QED  BY <1>5, <1>8, <1>9, <1>11, <1>12 DEF s, P, N

\* A plugin that is listed once is rebound in its place.
LEMMA ReboundInPlace ==
  ASSUME NEW s \in Seq(Plugin), NEW new \in Plugin, NEW id, NEW ids,
         NEW k \in DOMAIN s, ids[s[k]] = id,
         \A n \in DOMAIN s : ids[s[n]] = id => n = k
  PROVE  Rebound(s, new, id, ids) = [s EXCEPT ![k] = new]
<1>1. \E n \in DOMAIN s : ids[s[n]] = id
  OBVIOUS
<1>2. Rebound(s, new, id, ids) = Replaced(s, k, new, id, ids)
  BY <1>1, FirstEntry
<1>3. {n \in DOMAIN s : n = k \/ ids[s[n]] # id} = DOMAIN [s EXCEPT ![k] = new]
  OBVIOUS
<1>4. Replaced(s, k, new, id, ids) = Kept([s EXCEPT ![k] = new], DOMAIN [s EXCEPT ![k] = new])
  BY <1>3 DEF Replaced
<1>5. [s EXCEPT ![k] = new] \in Seq(Plugin)
  OBVIOUS
<1>. QED  BY <1>2, <1>4, <1>5, KeptAll

LEMMA ReloadKeepsSelection ==
  ASSUME CapInv, NEW new \in Plugin, Reload(new),
         NEW c \in Cap, NEW tag,
         live[IdOf[new]] # NoPlugin,
         c \in Provides[live[IdOf[new]]] \cap Provides[new],
         tag \in (Tags[live[IdOf[new]]] \cap Tags[new]) \cup {NoTag},
         LiveProvider(table, c, tag) = live[IdOf[new]]
  PROVE  c \in rebound' /\ LiveProvider(table', c, tag) = new
<1> DEFINE i == IdOf[new]
           old == live[i]
           s == table[c]
           P == Bearing(s, tag)
           N == Cardinality(P)
           A == Arranged(P, Ascending(P))
<1>1. /\ table \in Tables /\ s \in Seq(Plugin) /\ Distinct(s)
      /\ \A q \in ToSet(s) : live[IdOf[q]] = q
      /\ IdOf[old] = i
  BY IdsTyped DEF CapInv, CapTyped, OnlyLive, Tables
<1>2. /\ N \in Nat /\ IsFiniteSet(P)
      /\ N # 0
      /\ LiveProvider(table, c, tag) = s[A[Place(N)]]
  BY <1>1, LiveProviderPlace
<1>3. A[Place(N)] \in P /\ A[Place(N)] \in DOMAIN s
  <2>1. P \in SUBSET DOMAIN s
    BY DEF Bearing
  <2>2. IsOrder(P, Ascending(P))
    BY <1>1, <2>1, PositionsFinite, AscendingIsOrder
  <2>3. A \in [1 .. N -> P]
    BY <1>2, <2>2, ArrangedOrder
  <2>4. Place(N) \in 1 .. N
    BY <1>2 DEF Place
  <2> HIDE DEF P, A, N
  <2>. QED  BY <2>1, <2>3, <2>4
<1>4. PICK k \in DOMAIN s : k = A[Place(N)]
  BY <1>3
<1>5. s[k] = old /\ k \in P
  BY <1>2, <1>3, <1>4
<1>6. \A n \in DOMAIN s : IdOf[s[n]] = i => n = k
  <2> SUFFICES ASSUME NEW n \in DOMAIN s, IdOf[s[n]] = i PROVE n = k
    OBVIOUS
  <2>1. s[n] = old
    BY <1>1 DEF ToSet
  <2>. QED  BY <1>1, <1>5, <2>1 DEF Distinct
<1>7. c \in rebound'
  <2>1. old \in Providers(table, c) /\ IdOf[old] = IdOf[new]
    BY <1>1, <1>5 DEF Providers, ToSet
  <2>. QED  BY <2>1 DEF Reload, ReboundCaps
<1>8. table'[c] = [s EXCEPT ![k] = new]
  <2>1. table'[c] = Rebound(s, new, i, IdOf)
    BY DEF Reload, ProviderSwapped
  <2>2. IdOf[s[k]] = i
    BY <1>1, <1>5
  <2> HIDE DEF s, i
  <2>3. Rebound(s, new, i, IdOf) = [s EXCEPT ![k] = new]
    BY <1>1, <1>6, <2>2, ReboundInPlace
  <2>. QED  BY <2>1, <2>3
<1>9. Bearing(table'[c], tag) = P
  <2>1. tag \in Tags[new] \cup {NoTag} /\ tag \in Tags[s[k]] \cup {NoTag}
    BY <1>5
  <2> HIDE DEF s
  <2>2. \A n \in DOMAIN s : tag \in Tags[[s EXCEPT ![k] = new][n]] \cup {NoTag}
                              <=> tag \in Tags[s[n]] \cup {NoTag}
    BY <2>1
  <2>3. DOMAIN [s EXCEPT ![k] = new] = DOMAIN s
    OBVIOUS
  <2>. QED  BY <1>8, <2>2, <2>3 DEF Bearing
<1>10. table' \in Tables
  BY ReloadKeepsLists DEF CapInv, CapTyped
<1>11. LiveProvider(table', c, tag) = table'[c][A[Place(N)]]
  BY <1>2, <1>9, <1>10, LiveProviderPlace
<1>12. table'[c][k] = new
  <2> HIDE DEF s
  <2>. QED  BY <1>8
<1>. QED  BY <1>4, <1>7, <1>11, <1>12

\* For any plugins, capabilities, tags and policies, in the middle of a batch
\* or not: a reload leaves a capability to the plugin that answered for it, in
\* the new version, and announces that.
THEOREM SwapsKeepSelection == BatchSpec => SwapKeepsSelection
<1> DEFINE KeepsSelection ==
      \A i \in PluginId, c \in Cap, tag \in Tag \cup {NoTag} :
        (/\ live[i] # NoPlugin /\ live'[i] \notin {NoPlugin, live[i]}
         /\ c \in Provides[live[i]] \cap Provides[live'[i]]
         /\ tag \in (Tags[live[i]] \cap Tags[live'[i]]) \cup {NoTag}
         /\ LiveProvider(table, c, tag) = live[i])
        => c \in rebound' /\ LiveProvider(table', c, tag) = live'[i]
<1>1. CapInv /\ [BatchNext]_allVars => KeepsSelection
  <2> SUFFICES ASSUME CapInv, [BatchNext]_allVars,
                      NEW i \in PluginId, NEW c \in Cap, NEW tag \in Tag \cup {NoTag},
                      live[i] # NoPlugin, live'[i] \notin {NoPlugin, live[i]},
                      c \in Provides[live[i]] \cap Provides[live'[i]],
                      tag \in (Tags[live[i]] \cap Tags[live'[i]]) \cup {NoTag},
                      LiveProvider(table, c, tag) = live[i]
               PROVE  c \in rebound' /\ LiveProvider(table', c, tag) = live'[i]
    OBVIOUS
  <2>1. ASSUME NEW p \in Plugin, Register(p) PROVE FALSE
    BY <2>1, IdsTyped DEF Register, CapInv, CapTyped
  <2>2. ASSUME NEW j \in PluginId, Unregister(j) PROVE FALSE
    BY <2>2 DEF Unregister, CapInv, CapTyped
  <2>3. ASSUME UNCHANGED <<policy, table, live>> PROVE FALSE
    BY <2>3
  <2>4. ASSUME NEW new \in Plugin, Reload(new)
        PROVE  c \in rebound' /\ LiveProvider(table', c, tag) = live'[i]
    <3>1. i = IdOf[new] /\ live'[i] = new
      BY <2>4, IdsTyped DEF Reload, CapInv, CapTyped
    <3>. QED  BY <2>4, <3>1, ReloadKeepsSelection
  <2>. QED  BY <2>1, <2>2, <2>3, <2>4, BatchSteps
<1>. QED  BY <1>1, CapInvInductive, PTL DEF BatchSpec, SwapKeepsSelection

-----------------------------------------------------------------------------
(* The contract check. *)

\* Positions count from 1: nothing is given by a call without positional
\* arguments.
LEMMA PositionsArePositive ==
  ASSUME NEW s \in Signature, NEW i \in DOMAIN s.pos
  PROVE  i \in Nat \ {0}
<1>1. s.pos \in SetToAllKPermutations(Parameter)
  BY DEF Signature
<1>2. PICK S \in SUBSET Parameter : s.pos \in SetToSeqs(S)
  BY <1>1 DEF SetToAllKPermutations
<1>3. i \in 1..Cardinality(S)
  BY <1>2 DEF SetToSeqs
<1>4. Cardinality(S) \in Nat
  BY ContractAssumption, FS_Subset, FS_CardinalityType
<1>. QED  BY <1>3, <1>4

\* By keyword every parameter can be named, and those that are needed are
\* among the declared ones.
LEMMA ByKeywordAll ==
  ASSUME NEW s \in Signature, s.only = 0
  PROVE  /\ Nameable(s, 0) = Declared(s)
         /\ Taken(s, 0) = {}
         /\ Needed(s) \subseteq Declared(s)
<1>1. \A i \in DOMAIN s.pos : i > 0 /\ ~(i <= 0)
  BY PositionsArePositive
<1>2. s.koNeeded \subseteq s.ko
  BY DEF Signature
<1>. QED  BY <1>1, <1>2 DEF Nameable, Taken, Needed, Declared, ToSet

\* Python's binding of such a call, parameter by parameter.
LEMMA KeywordBinding ==
  ASSUME NEW p \in Signature, NEW q \in Signature, q.only = 0, q # Missing
  PROVE  Accepts(q, ByKeyword(p)) <=>
           /\ Declared(p) \subseteq Declared(q) \/ q.kwargs
           /\ Needed(q) \subseteq Declared(p)
<1>1. /\ ByKeyword(p).given = 0
      /\ ByKeyword(p).keywords = Declared(p)
  BY DEF ByKeyword
<1>2. ~(0 > Len(q.pos))
  <2>1. PICK S \in SUBSET Parameter : q.pos \in [1..Cardinality(S) -> S]
    BY DEF Signature, SetToAllKPermutations, SetToSeqs
  <2>2. Cardinality(S) \in Nat
    BY ContractAssumption, FS_Subset, FS_CardinalityType
  <2>. QED  BY <2>1, <2>2
<1>3. \A i \in DOMAIN q.pos : ~(i <= 0)
  BY PositionsArePositive
<1>. QED  BY <1>1, <1>2, <1>3, ByKeywordAll DEF Accepts

LEMMA Exact ==
  ASSUME NEW p \in Signature, NEW q \in Signature \cup {Missing},
         p.only = 0, ~p.args, ~p.kwargs, q # Missing => q.only = 0 /\ ~q.args
  PROVE  ~Violation(p, q) <=> Accepts(q, ByKeyword(p))
<1>1. CASE q = Missing
  BY <1>1 DEF Violation, Accepts
<1>2. CASE q # Missing
  <2>1. ~Violation(p, q) <=> Unaccepted(p, q) = {} /\ Unsupplied(p, q) = {}
    BY <1>2 DEF Violation
  <2>2. Unaccepted(p, q) = {} <=> Declared(p) \subseteq Declared(q) \/ q.kwargs
    BY <1>2 DEF Unaccepted
  <2>3. Unsupplied(p, q) = {} <=> Needed(q) \subseteq Declared(p)
    BY DEF Unsupplied
  <2>. QED  BY <1>2, <2>1, <2>2, <2>3, KeywordBinding
<1>. QED  BY <1>1, <1>2

-----------------------------------------------------------------------------

\* The verdict is that of the check, on what was compared.
Judged ==
  /\ proto \in Signature /\ provider \in Signature \cup {Missing}
  /\ \/ verdict = "pending"
     \/ verdict = "refused" /\ Violation(proto, provider)
     \/ verdict = "admitted" /\ ~Violation(proto, provider)

LEMMA JudgedInvariant == ContractSpec => []Judged
<1>1. ContractInit => Judged
  BY DEF ContractInit, Judged
<1>2. Judged /\ [ContractNext]_contractVars => Judged'
  <2>1. CASE Validate
    BY <2>1 DEF Validate, Judged
  <2>2. CASE UNCHANGED contractVars
    BY <2>2 DEF contractVars, Judged
  <2>. QED  BY <2>1, <2>2 DEF ContractNext
<1>. QED  BY <1>1, <1>2, PTL DEF ContractSpec

\* Whatever the parameters are called and however many there are: a provider
\* is admitted if and only if it accepts the call that names everything the
\* protocol declares.
THEOREM KeywordCallsExact == ContractSpec => []KeywordCallsBind
<1>1. Judged => KeywordCallsBind
  <2> SUFFICES ASSUME Judged, verdict # "pending", NoneByPositionOnly,
                      ~proto.args, ~proto.kwargs, provider # Missing => ~provider.args
               PROVE  verdict = "admitted" <=> Accepts(provider, ByKeyword(proto))
    BY DEF KeywordCallsBind
  <2>1. verdict = "admitted" <=> ~Violation(proto, provider)
    BY DEF Judged
  <2>2. ~Violation(proto, provider) <=> Accepts(provider, ByKeyword(proto))
    BY Exact DEF Judged, NoneByPositionOnly
  <2>. QED  BY <2>1, <2>2
<1>. QED  BY <1>1, JudgedInvariant, PTL

\* A refusal has a witness: the call by keyword itself, which suits the
\* protocol and fails at the provider.
THEOREM RefusalsHaveWitness == ContractSpec => []RefusalsJustified
<1>1. Judged => RefusalsJustified
  <2> SUFFICES ASSUME Judged, verdict = "refused", NoneByPositionOnly
               PROVE  \E call \in Calls : Accepts(proto, call) /\ ~Accepts(provider, call)
    BY DEF RefusalsJustified
  <2>1. /\ proto \in Signature /\ proto.only = 0 /\ Violation(proto, provider)
        /\ provider \in Signature \cup {Missing} /\ (provider # Missing => provider.only = 0)
    BY DEF Judged, NoneByPositionOnly
  <2>2. ByKeyword(proto) \in Calls
    <3>1. Declared(proto) \subseteq Parameter
      <4>1. PICK S \in SUBSET Parameter : proto.pos \in [1..Cardinality(S) -> S]
        BY <2>1 DEF Signature, SetToAllKPermutations, SetToSeqs
      <4>2. proto.ko \subseteq Parameter
        BY <2>1 DEF Signature
      <4>. QED  BY <4>1, <4>2 DEF Declared, ToSet
    <3>2. 0 \in 0..Cardinality(Parameter) + 1
      BY ContractAssumption, FS_CardinalityType
    <3>. QED  BY <3>1, <3>2 DEF ByKeyword, Calls
  <2>3. Accepts(proto, ByKeyword(proto))
    BY <2>1, MissingAssumption, KeywordBinding, ByKeywordAll
  <2>4. CASE provider = Missing
    BY <2>2, <2>3, <2>4 DEF Accepts
  <2>5. CASE provider # Missing
    <3>1. ~(/\ Declared(proto) \subseteq Declared(provider) \/ provider.kwargs
            /\ Needed(provider) \subseteq Declared(proto))
      BY <2>1, <2>5 DEF Violation, Unaccepted, Unsupplied
    <3>2. ~Accepts(provider, ByKeyword(proto))
      BY <2>1, <2>5, <3>1, KeywordBinding
    <3>. QED  BY <2>2, <2>3, <3>2
  <2>. QED  BY <2>4, <2>5
<1>. QED  BY <1>1, JudgedInvariant, PTL

-----------------------------------------------------------------------------
(* Batches: the plan. *)

LEMMA BatchPositions ==
  ASSUME NEW b \in Batches
  PROVE  /\ b \in Seq(Plugin \cup {Garbage})
         /\ IsFiniteSet(Candidates(b)) /\ Candidates(b) \in SUBSET Nat
         /\ Candidates(b) \subseteq DOMAIN b
         /\ \A k \in Candidates(b) : b[k] \in Plugin
<1>1. b \in Seq(Plugin \cup {Garbage})
  BY BatchAssumption
<1>2. Candidates(b) \in SUBSET DOMAIN b
  BY DEF Candidates
<1>3. \A k \in Candidates(b) : b[k] \in Plugin
  BY <1>1 DEF Candidates
<1>4. IsFiniteSet(Candidates(b)) /\ Candidates(b) \in SUBSET Nat
  BY <1>1, <1>2, PositionsFinite
<1>. QED  BY <1>1, <1>2, <1>3, <1>4

LEMMA InputSeqListing ==
  ASSUME NEW K \in SUBSET Nat, IsFiniteSet(K)
  PROVE  InputSeq(K) \in Seq(K) /\ Distinct(InputSeq(K)) /\ ToSet(InputSeq(K)) = K
<1> DEFINE N == Cardinality(K)
           A == Arranged(K, Ascending(K))
           Ascends(s) == \A m, n \in DOMAIN s : m < n => s[m] < s[n]
<1>1. A \in [1 .. N -> K] /\ \A m, n \in 1 .. N : m < n => <<A[m], A[n]>> \in Ascending(K)
  BY AscendingIsOrder, ArrangedOrder
<1>2. Ascends(A)
  BY <1>1 DEF Ascending
<1>3. InputSeq(K) = CHOOSE s \in [1 .. N -> K] : Ascends(s)
  BY DEF InputSeq
<1>4. InputSeq(K) \in [1 .. N -> K] /\ Ascends(InputSeq(K))
  <2> HIDE DEF A, Ascends
  <2>. QED  BY <1>1, <1>2, <1>3
<1>5. N \in Nat
  BY FS_CardinalityType
<1>6. Distinct(InputSeq(K))
  <2> SUFFICES ASSUME NEW m \in 1 .. N, NEW n \in 1 .. N, InputSeq(K)[m] = InputSeq(K)[n]
               PROVE  m = n
    BY <1>4 DEF Distinct
  <2>1. InputSeq(K)[m] \in Nat /\ InputSeq(K)[n] \in Nat
    BY <1>4
  <2>2. ~(m < n) /\ ~(n < m)
    BY <1>4, <2>1
  <2>. QED  BY <1>5, <2>2
<1>. QED  BY <1>4, <1>6, SetListing

\* Supported is closed: its members' needs are met inside, and everybody else
\* that is fit has one that is not.
LEMMA SupportedProperties ==
  ASSUME NEW b \in Batches, NEW fit \in SUBSET Candidates(b)
  PROVE  LET kept == Supported(b, fit)
             needed == UnsatisfiedRequires(b)
         IN  /\ kept \subseteq fit
             /\ \A k \in kept : \A c \in needed[k] : ProvidersIn(b, c) \cap kept # {}
             /\ \A k \in fit \ kept : \E c \in needed[k] : ProvidersIn(b, c) \cap kept = {}
<1> DEFINE needed == UnsatisfiedRequires(b)
           Closed(K) == \A k \in K : \A c \in needed[k] : ProvidersIn(b, c) \cap K # {}
           kept == Supported(b, fit)
<1>1. kept = UNION {K \in SUBSET fit : Closed(K)}
  BY DEF Supported
<1>2. kept \subseteq fit
  BY <1>1
<1>3. Closed(kept)
  BY <1>1
<1>4. ASSUME NEW k \in fit \ kept PROVE \E c \in needed[k] : ProvidersIn(b, c) \cap kept = {}
  <2> SUFFICES ASSUME \A c \in needed[k] : ProvidersIn(b, c) \cap kept # {} PROVE FALSE
    OBVIOUS
  <2> HIDE DEF needed, kept
  <2>1. Closed(kept \cup {k})
    BY <1>3
  <2>2. kept \cup {k} \in SUBSET fit
    BY <1>2
  <2> HIDE DEF Closed
  <2>3. k \in kept
    BY <1>1, <2>1, <2>2
  <2>. QED  BY <1>4, <2>3
<1>. QED  BY <1>2, <1>3, <1>4

\* The capabilities that a batch provides are finite in number, so that an
\* order can list them all.
LEMMA BatchCapabilitiesFinite ==
  ASSUME NEW b \in Batches
  PROVE  IsFiniteSet({c \in Cap : ProvidersIn(b, c) # {}})
<1> DEFINE N == Len(b)
           Upto(n) == {c \in Cap : \E k \in ProvidersIn(b, c) : k <= n}
           T == {n \in 0 .. N : IsFiniteSet(Upto(n))}
<1>1. /\ N \in Nat /\ DOMAIN b = 1 .. N
      /\ \A c \in Cap : ProvidersIn(b, c) \subseteq 1 .. N
  BY BatchPositions DEF ProvidersIn
<1>2. 0 \in T
  <2>1. Upto(0) = {}
    BY <1>1
  <2>. QED  BY <1>1, <2>1, FS_EmptySet
<1>3. ASSUME NEW n \in 1 .. N, n - 1 \in T PROVE n \in T
  <2> DEFINE more == IF n \in Candidates(b) THEN Provides[b[n]] ELSE {}
  <2>1. IsFiniteSet(more)
    <3>1. CASE n \in Candidates(b)
      BY <3>1, BatchPositions, BatchAssumption
    <3>2. CASE n \notin Candidates(b)
      BY <3>2, FS_EmptySet
    <3>. QED  BY <3>1, <3>2
  <2>2. Upto(n) \subseteq Upto(n - 1) \cup more
    <3> SUFFICES ASSUME NEW c \in Cap, NEW k \in ProvidersIn(b, c), k <= n
                 PROVE  c \in Upto(n - 1) \cup more
      OBVIOUS
    <3>1. k = n \/ k <= n - 1
      BY <1>1
    <3>. QED  BY <3>1 DEF ProvidersIn
  <2>3. IsFiniteSet(Upto(n - 1))
    BY <1>3
  <2> HIDE DEF Upto, more
  <2>4. IsFiniteSet(Upto(n))
    BY <2>1, <2>2, <2>3, FS_Union, FS_Subset
  <2>. QED  BY <1>1, <2>4
<1>4. N \in T
  <2> HIDE DEF T
  <2>1. \A n \in 0 .. N : n \in T
    BY <1>1, <1>2, <1>3, UpTo
  <2>. QED  BY <1>1, <2>1
<1>5. Upto(N) = {c \in Cap : ProvidersIn(b, c) # {}}
  BY <1>1
<1>. QED  BY <1>4, <1>5

LEMMA OrdersCover ==
  ASSUME NEW b \in Batches, NEW order \in Orders(b)
  PROVE  /\ order \in Seq(Cap)
         /\ \A c \in Cap : ProvidersIn(b, c) # {} => \E n \in DOMAIN order : order[n] = c
<1> DEFINE C == {c \in Cap : ProvidersIn(b, c) # {}}
<1>1. IsFiniteSet(C)
  BY BatchCapabilitiesFinite
<1>2. order \in SetToSeqs(C)
  BY DEF Orders
<1>3. C \subseteq Cap
  OBVIOUS
<1>4. \A c \in Cap : ProvidersIn(b, c) # {} => c \in C
  OBVIOUS
<1> HIDE DEF C
<1>5. order \in Seq(C) /\ ToSet(order) = C
  BY <1>1, <1>2, SetToSeqsListing
<1>. QED  BY <1>3, <1>4, <1>5 DEF ToSet

LEMMA AtMostOne ==
  ASSUME NEW S, IsFiniteSet(S), ~(Cardinality(S) > 1), NEW j \in S, NEW k \in S
  PROVE  j = k
<1> SUFFICES ASSUME j # k PROVE FALSE
  OBVIOUS
<1>1. IsFiniteSet(S \ {j}) /\ Cardinality(S \ {j}) = Cardinality(S) - 1
  BY FS_RemoveElement
<1>2. Cardinality(S) \in Nat /\ Cardinality(S \ {j}) \in Nat
  BY <1>1, FS_CardinalityType
<1>3. Cardinality(S \ {j}) = 0
  BY <1>1, <1>2
<1>4. S \ {j} = {}
  BY <1>1, <1>3, FS_EmptySet
<1>. QED  BY <1>4

\* After n of the capabilities in the order: nobody is left who is a rival of
\* a live provider, or of another one for one of these n.
Contest(b, out, order, n, gone) ==
  /\ gone \subseteq Candidates(b)
  /\ out \cup Refused(b, out) \subseteq gone
  /\ \A m \in 1 .. n : \A j, k \in ProvidersIn(b, order[m]) \ gone : j = k

LEMMA ContestProceeds ==
  ASSUME NEW b \in Batches, NEW out, NEW order, NEW n \in Nat \ {0}, NEW gone,
         Contest(b, out, order, n - 1, gone)
  PROVE  Contest(b, out, order, n, Contested(b, gone, order[n]))
<1> DEFINE claimants == ProvidersIn(b, order[n]) \ gone
           next == Contested(b, gone, order[n])
<1>1. claimants \subseteq Candidates(b)
  BY DEF ProvidersIn
<1>2. IsFiniteSet(claimants)
  BY <1>1, BatchPositions, FS_Subset
<1>3. gone \subseteq next /\ next \subseteq Candidates(b)
  BY <1>1 DEF Contested, Contest
<1>4. \A j, k \in ProvidersIn(b, order[n]) \ next : j = k
  <2>1. CASE Cardinality(claimants) > 1
    BY <2>1 DEF Contested
  <2>2. CASE ~(Cardinality(claimants) > 1)
    <3>1. next = gone
      BY <2>2 DEF Contested
    <3> HIDE DEF claimants
    <3>2. \A j, k \in claimants : j = k
      BY <1>2, <2>2, AtMostOne
    <3>. QED  BY <3>1, <3>2 DEF claimants
  <2>. QED  BY <2>1, <2>2
<1> HIDE DEF next
<1>5. ASSUME NEW m \in 1 .. n, NEW j \in ProvidersIn(b, order[m]) \ next,
             NEW k \in ProvidersIn(b, order[m]) \ next
      PROVE  j = k
  <2>1. CASE m = n
    BY <1>4, <2>1
  <2>2. CASE m \in 1 .. n - 1
    BY <1>3, <2>2 DEF Contest
  <2>. QED  BY <2>1, <2>2
<1>6. out \cup Refused(b, out) \subseteq next
  BY <1>3 DEF Contest
<1>. QED  BY <1>3, <1>5, <1>6 DEF Contest, next

LEMMA RivalsProperties ==
  ASSUME NEW b \in Batches, NEW order \in Orders(b), NEW out \in SUBSET Candidates(b),
         policy = "error_on_conflict"
  PROVE  LET left == Candidates(b) \ (out \cup Rivals(b, out, order))
         IN  /\ \A k \in left : ProvidesConflicts(policy, table, b[k]) = {}
             /\ \A j, k \in left : j # k => Provides[b[j]] \cap Provides[b[k]] = {}
<1> DEFINE N == Len(order)
           init == out \cup Refused(b, out)
           Turns(f) == f = [n \in 0 .. N |-> IF n = 0 THEN init ELSE Contested(b, f[n - 1], order[n])]
           gone == CHOOSE f : Turns(f)
           left == Candidates(b) \ (out \cup Rivals(b, out, order))
<1>1. N \in Nat /\ DOMAIN order = 1 .. N /\ order \in Seq(Cap)
  BY OrdersCover
<1>2. Contest(b, out, order, 0, init)
  BY DEF Contest, Refused
<1> HIDE DEF init
<1> DEFINE Sets == SUBSET Candidates(b)
           step == [n \in 1 .. N |-> [s \in Sets |-> Contested(b, s, order[n])]]
<1>3. step \in [1 .. N -> [Sets -> Sets]]
  <2> SUFFICES ASSUME NEW n \in 1 .. N, NEW s \in Sets
               PROVE  Contested(b, s, order[n]) \in Sets
    OBVIOUS
  <2>. QED  BY DEF Contested, ProvidersIn
<1>4. \A n \in 1 .. N : \A s \in Sets : step[n][s] = Contested(b, s, order[n])
  OBVIOUS
<1>5. init \in Sets
  BY <1>2 DEF Contest
<1> HIDE DEF step, Sets
<1>6. PICK f \in [0 .. N -> Sets] : IsLoop(f, N, init, step)
  BY <1>1, <1>3, <1>5, LoopRuns
<1>7. Turns(f)
  <2>1. \A n \in 0 .. N : f[n] = IF n = 0 THEN init ELSE Contested(b, f[n - 1], order[n])
    <3> SUFFICES ASSUME NEW n \in 1 .. N
                 PROVE  f[n] = Contested(b, f[n - 1], order[n])
      BY <1>6 DEF IsLoop
    <3>1. n - 1 \in 0 .. N
      BY <1>1
    <3>. QED  BY <1>4, <1>6, <3>1 DEF IsLoop
  <2>. QED  BY <2>1
<1>8. Turns(gone)
  <2> HIDE DEF Turns
  <2>. QED  BY <1>7
<1>9. Rivals(b, out, order) = gone[N] \ out
  BY DEF Rivals, init
<1> HIDE DEF gone
<1>10. gone[0] = init /\ \A n \in 1 .. N : gone[n] = Contested(b, gone[n - 1], order[n])
  BY <1>1, <1>8
<1> DEFINE T == {n \in 0 .. N : Contest(b, out, order, n, gone[n])}
<1>11. N \in T
  <2>1. 0 \in T
    BY <1>1, <1>2, <1>10
  <2>2. \A n \in 1 .. N : n - 1 \in T => n \in T
    BY <1>1, <1>10, ContestProceeds
  <2> HIDE DEF T
  <2>3. \A n \in 0 .. N : n \in T
    BY <1>1, <2>1, <2>2, UpTo
  <2>. QED  BY <1>1, <2>3
<1>12. Contest(b, out, order, N, gone[N])
  BY <1>11
<1>13. left = Candidates(b) \ gone[N]
  BY <1>9, <1>12 DEF Contest
<1> HIDE DEF left, T
<1>14. ASSUME NEW k \in left PROVE ProvidesConflicts(policy, table, b[k]) = {}
  <2>1. k \in Candidates(b) /\ k \notin out /\ k \notin Refused(b, out)
    BY <1>12, <1>13 DEF Contest
  <2>. QED  BY <2>1 DEF Refused
<1>15. ASSUME NEW j \in left, NEW k \in left, j # k,
              NEW c \in Provides[b[j]] \cap Provides[b[k]]
       PROVE  FALSE
  <2>1. /\ j \in Candidates(b) /\ k \in Candidates(b) /\ c \in Cap
        /\ j \in ProvidersIn(b, c) \ gone[N] /\ k \in ProvidersIn(b, c) \ gone[N]
    BY <1>13, BatchPositions, TableAssumption DEF ProvidersIn
  <2>2. PICK n \in DOMAIN order : order[n] = c
    BY <2>1, OrdersCover
  <2>. QED  BY <1>1, <1>12, <1>15, <2>1, <2>2 DEF Contest
<1>. QED  BY <1>14, <1>15 DEF left

\* What the plan of a batch is worth.
Sound(b, plan) ==
  LET planned == ToSet(plan.ordered)
      needed == UnsatisfiedRequires(b)
  IN  /\ plan.ordered \in Seq(Candidates(b)) /\ Distinct(plan.ordered)
      /\ DOMAIN plan.reason = DOMAIN b
      /\ \A k \in DOMAIN b : plan.reason[k] = "planned" <=> k \in planned
      /\ \A k \in DOMAIN b : plan.reason[k] \in Skipped \cup {"planned"}
      /\ \A k \in planned : b[k] \notin Broken /\ Name(b, k) \notin LiveNames
      /\ \A j, k \in planned : Name(b, j) = Name(b, k) => j = k
      /\ \A m, n \in DOMAIN plan.ordered :
           needed[plan.ordered[n]] \cap Provides[b[plan.ordered[m]]] # {} => m < n
      /\ plan.ordered # <<>> => Cardinality(LiveNames) + Len(plan.ordered) <= MaxPlugins
      /\ \A k \in planned : /\ ProvidesConflicts(policy, table, b[k]) = {}
                            /\ \A c \in needed[k] : ProvidersIn(b, c) # {}
      /\ policy = "error_on_conflict" =>
           \A j, k \in planned : j # k => Provides[b[j]] \cap Provides[b[k]] = {}

\* Whoever is left out for want of a capability needs one that nobody among
\* the planned provides, if each has one provider in the batch.
Wanting(b, plan) ==
  (\A c \in Cap : Cardinality(ProvidersIn(b, c)) <= 1) =>
    \A k \in DOMAIN b :
      plan.reason[k] \in {"missing_capability", "dependent_of_skipped", "cycle_member"} =>
        /\ k \in Candidates(b)
        /\ \E c \in UnsatisfiedRequires(b)[k] : ProvidersIn(b, c) \cap ToSet(plan.ordered) = {}

LEMMA PlanProperties ==
  ASSUME NEW b \in Batches, NEW order \in Orders(b), IsFiniteSet(LiveNames)
  PROVE  Sound(b, Plan(b, order)) /\ Wanting(b, Plan(b, order))
<1> DEFINE out == LiveNamed(b) \cup Duplicates(b)
           rivals == Rivals(b, out, order)
           broken == {k \in Candidates(b) \ (out \cup rivals) : b[k] \in Broken}
           left == Candidates(b) \ (out \cup rivals \cup broken)
           needed == UnsatisfiedRequires(b)
           missing == {k \in left : \E c \in needed[k] : ProvidersIn(b, c) = {}}
           supported == Supported(b, left \ missing)
           deps == [k \in supported |->
                      supported \cap UNION {ProvidersIn(b, c) : c \in needed[k]}]
           sorted == TopoSort(InputSeq(supported), deps)
           unresolved == supported \ ToSet(sorted)
           dependents == [k \in unresolved |-> {m \in unresolved : k \in deps[m]}]
           core == unresolved \ ToSet(TopoSort(InputSeq(unresolved), dependents))
           N == Cardinality(LiveNames)
           Fits(n) == n + N <= MaxPlugins
           ordered == [n \in {m \in DOMAIN sorted : Fits(m)} |-> sorted[n]]
           fits(k) == \E n \in DOMAIN sorted : sorted[n] = k /\ Fits(n)
           reason == [k \in DOMAIN b |->
             CASE b[k] = Garbage -> "materialize_error"
               [] k \in LiveNamed(b) -> "live_name_collision"
               [] k \in Duplicates(b) -> "duplicate_name"
               [] k \in rivals -> "duplicate_provider"
               [] k \in broken -> "contract_failure"
               [] k \in missing -> "missing_capability"
               [] k \in core -> "cycle_member"
               [] k \in ToSet(sorted) -> IF fits(k) THEN "planned" ELSE "max_plugins"
               [] OTHER -> "dependent_of_skipped"]
           plan == Plan(b, order)
<1>1. plan = [ordered |-> ordered, reason |-> reason]
  BY DEF Plan
<1> HIDE DEF plan
<1>2. plan.ordered = ordered /\ plan.reason = reason
  BY <1>1
<1>3. /\ b \in Seq(Plugin \cup {Garbage})
      /\ IsFiniteSet(Candidates(b)) /\ Candidates(b) \in SUBSET Nat
      /\ Candidates(b) \subseteq DOMAIN b
      /\ \A k \in Candidates(b) : b[k] \in Plugin /\ b[k] # Garbage
  BY BatchPositions, BatchAssumption
<1>4. N \in Nat /\ MaxPlugins \in Nat
  BY FS_CardinalityType, BatchAssumption
<1>5. /\ left \subseteq Candidates(b) \ (out \cup rivals) /\ out \in SUBSET Candidates(b)
      /\ \A k \in Candidates(b) :
           k \in left <=> k \notin LiveNamed(b) \cup Duplicates(b) \cup rivals \cup broken
      /\ \A k \in left : b[k] \notin Broken
  BY DEF LiveNamed, Duplicates
<1>6. /\ \A k \in left : Name(b, k) \notin LiveNames
      /\ \A j, k \in left : Name(b, j) = Name(b, k) => j = k
  BY <1>5 DEF LiveNamed, Duplicates
<1>7. /\ \A k \in left : ProvidesConflicts(policy, table, b[k]) = {}
      /\ policy = "error_on_conflict" =>
           \A j, k \in left : j # k => Provides[b[j]] \cap Provides[b[k]] = {}
  <2>1. CASE policy = "error_on_conflict"
    <3> HIDE DEF out
    <3>. QED  BY <1>5, <2>1, RivalsProperties
  <2>2. CASE policy # "error_on_conflict"
    BY <2>2 DEF ProvidesConflicts
  <2>. QED  BY <2>1, <2>2
<1> HIDE DEF out, rivals, broken, needed
<1>8. missing \subseteq left
  OBVIOUS
<1>9. \A k \in left \ missing : \A c \in needed[k] : ProvidersIn(b, c) # {}
  OBVIOUS
<1>10. \A k \in missing : \E c \in needed[k] : ProvidersIn(b, c) = {}
  OBVIOUS
<1> HIDE DEF left, missing
<1>11. /\ supported \subseteq left \ missing
       /\ \A k \in (left \ missing) \ supported :
            \E c \in needed[k] : ProvidersIn(b, c) \cap supported = {}
  <2>1. left \ missing \in SUBSET Candidates(b)
    BY <1>5
  <2>. QED  BY <2>1, SupportedProperties DEF needed
<1> HIDE DEF supported
<1>12. /\ InputSeq(supported) \in Seq(supported) /\ Distinct(InputSeq(supported))
       /\ ToSet(InputSeq(supported)) = supported
  <2>1. supported \in SUBSET Nat /\ IsFiniteSet(supported)
    BY <1>3, <1>5, <1>11, FS_Subset
  <2>. QED  BY <2>1, InputSeqListing
<1>13. \A k \in supported : deps[k] = supported \cap UNION {ProvidersIn(b, c) : c \in needed[k]}
  OBVIOUS
<1> HIDE DEF deps
<1>14. /\ sorted \in Seq(supported) /\ Distinct(sorted)
       /\ \A m, n \in DOMAIN sorted : sorted[n] \in deps[sorted[m]] => n < m
       /\ \A v \in supported : deps[v] \cap supported \subseteq ToSet(sorted) => v \in ToSet(sorted)
  BY <1>12, TopoSortProperties
<1>15. ToSet(sorted) \subseteq supported
  BY <1>14 DEF ToSet
<1> HIDE DEF sorted
<1>16. unresolved \subseteq supported /\ core \subseteq unresolved
  OBVIOUS
<1>17. unresolved \cap ToSet(sorted) = {}
  OBVIOUS
<1>18. \A v \in unresolved : \E m \in unresolved : m \in deps[v]
  BY <1>14, <1>16, <1>17
<1> HIDE DEF unresolved, core

<1>19. /\ ordered \in Seq(supported) /\ Distinct(ordered)
       /\ \A n \in DOMAIN ordered : n \in DOMAIN sorted /\ ordered[n] = sorted[n]
       /\ \A k : k \in ToSet(ordered) <=> fits(k)
       /\ ordered # <<>> => N + Len(ordered) <= MaxPlugins
  <2> DEFINE L == Len(sorted)
             len == IF L + N <= MaxPlugins THEN L ELSE IF N <= MaxPlugins THEN MaxPlugins - N ELSE 0
  <2>1. L \in Nat /\ DOMAIN sorted = 1 .. L /\ \A n \in 1 .. L : sorted[n] \in supported
    BY <1>14
  <2>2. len \in Nat /\ len <= L /\ (len # 0 => len + N <= MaxPlugins)
    BY <1>4, <2>1
  <2>3. {m \in DOMAIN sorted : Fits(m)} = 1 .. len
    BY <1>4, <2>1, <2>2
  <2> HIDE DEF len
  <2>4. ordered = [n \in 1 .. len |-> sorted[n]]
    BY <2>3
  <2>5. \A n \in 1 .. len : n \in 1 .. L /\ sorted[n] \in supported
    BY <2>1, <2>2
  <2>6. ordered \in [1 .. len -> supported] /\ \A n \in 1 .. len : ordered[n] = sorted[n]
    BY <2>4, <2>5
  <2>7. ToSet(ordered) = {sorted[n] : n \in {m \in DOMAIN sorted : Fits(m)}}
    BY DEF ToSet
  <2> HIDE DEF ordered, L
  <2>8. ordered \in Seq(supported) /\ Len(ordered) = len /\ DOMAIN ordered = 1 .. len
    BY <2>2, <2>6
  <2>9. Distinct(ordered)
    BY <1>14, <2>1, <2>5, <2>6, <2>8 DEF Distinct
  <2>10. \A k : k \in ToSet(ordered) <=> fits(k)
    BY <2>7
  <2>11. ordered # <<>> => N + Len(ordered) <= MaxPlugins
    <3>1. ordered # <<>> => len # 0
      BY <2>6
    <3>. QED  BY <1>4, <2>2, <2>8, <3>1
  <2>. QED  BY <2>1, <2>5, <2>6, <2>8, <2>9, <2>10, <2>11
<1>20. ToSet(ordered) \subseteq ToSet(sorted)
  BY <1>19 DEF ToSet
<1> HIDE DEF ordered
<1>21. ASSUME NEW k \in DOMAIN b
       PROVE  /\ reason[k] = "planned" <=> k \in ToSet(ordered)
              /\ reason[k] \in Skipped \cup {"planned"}
              /\ reason[k] \in {"missing_capability", "dependent_of_skipped", "cycle_member"} =>
                   k \in missing \cup ((left \ missing) \ supported) \cup unresolved
  <2>1. k \in ToSet(sorted) => /\ k \in supported /\ k \in left /\ k \in Candidates(b)
                               /\ k \notin missing /\ k \notin core /\ b[k] # Garbage
                               /\ k \notin LiveNamed(b) /\ k \notin Duplicates(b)
                               /\ k \notin rivals /\ k \notin broken
    BY <1>3, <1>5, <1>11, <1>15, <1>16, <1>17
  <2>2. fits(k) <=> k \in ToSet(ordered)
    BY <1>19
  <2>3. b[k] # Garbage => k \in Candidates(b)
    BY DEF Candidates
  <2>4. k \in unresolved <=> k \in supported /\ k \notin ToSet(sorted)
    BY DEF unresolved
  <2> HIDE DEF fits
  <2>. QED  BY <1>5, <1>16, <1>20, <2>1, <2>2, <2>3, <2>4 DEF Skipped
<1>22. DOMAIN reason = DOMAIN b
  OBVIOUS
<1> HIDE DEF reason, fits
<1>23. ToSet(ordered) \subseteq supported /\ supported \subseteq left \ missing
  BY <1>11, <1>15, <1>20
<1>24. Sound(b, plan)
  <2>1. plan.ordered \in Seq(Candidates(b))
    <3>1. supported \subseteq Candidates(b)
      BY <1>5, <1>23
    <3>. QED  BY <1>2, <1>19, <3>1
  <2>2. \A k \in ToSet(plan.ordered) : b[k] \notin Broken /\ Name(b, k) \notin LiveNames
    BY <1>2, <1>5, <1>6, <1>23
  <2>3. \A j, k \in ToSet(plan.ordered) : Name(b, j) = Name(b, k) => j = k
    BY <1>2, <1>6, <1>23
  <2>4. ASSUME NEW m \in DOMAIN ordered, NEW n \in DOMAIN ordered,
               needed[ordered[n]] \cap Provides[b[ordered[m]]] # {}
        PROVE  m < n
    <3>1. ordered[m] \in supported /\ ordered[n] \in supported
      BY <1>23 DEF ToSet
    <3>2. PICK c \in needed[ordered[n]] : c \in Provides[b[ordered[m]]]
      BY <2>4
    <3>3. ordered[m] \in ProvidersIn(b, c)
      BY <1>5, <1>11, <3>1, <3>2 DEF ProvidersIn
    <3>4. ordered[m] \in deps[ordered[n]]
      BY <1>13, <3>1, <3>2, <3>3
    <3>. QED  BY <1>14, <1>19, <3>4
  <2>5. \A k \in ToSet(plan.ordered) : /\ ProvidesConflicts(policy, table, b[k]) = {}
                                       /\ \A c \in needed[k] : ProvidersIn(b, c) # {}
    BY <1>2, <1>7, <1>9, <1>23
  <2>6. policy = "error_on_conflict" =>
          \A j, k \in ToSet(plan.ordered) : j # k => Provides[b[j]] \cap Provides[b[k]] = {}
    BY <1>2, <1>7, <1>23
  <2>. QED  BY <1>2, <1>19, <1>21, <1>22, <2>1, <2>2, <2>3, <2>4, <2>5, <2>6 DEF Sound, needed
<1>25. Wanting(b, plan)
  <2> SUFFICES ASSUME \A c \in Cap : Cardinality(ProvidersIn(b, c)) <= 1,
                      NEW k \in DOMAIN b,
                      k \in missing \cup ((left \ missing) \ supported) \cup unresolved
               PROVE  \E c \in needed[k] : ProvidersIn(b, c) \cap ToSet(ordered) = {}
    <3>1. missing \cup ((left \ missing) \ supported) \cup unresolved \subseteq Candidates(b)
      BY <1>5, <1>8, <1>16, <1>23
    <3>. QED  BY <1>2, <1>21, <3>1 DEF Wanting, needed
  <2>1. CASE k \in missing
    BY <1>10, <2>1
  <2>2. CASE k \in (left \ missing) \ supported
    BY <1>11, <1>23, <2>2
  <2>3. CASE k \in unresolved
    <3>1. PICK m \in unresolved : m \in deps[k]
      BY <1>18, <2>3
    <3>2. k \in supported /\ k \in Candidates(b) /\ m \notin ToSet(sorted)
      BY <1>5, <1>16, <1>17, <1>23, <2>3, <3>1
    <3>3. PICK c \in needed[k] : m \in ProvidersIn(b, c)
      BY <1>13, <3>1, <3>2
    <3>4. c \in Cap
      BY <1>3, <3>2, TableAssumption DEF needed, UnsatisfiedRequires, MissingRequirements
    <3>5. ASSUME NEW j \in ProvidersIn(b, c) PROVE j = m
      <4>1. IsFiniteSet(ProvidersIn(b, c))
        BY <1>3, FS_Subset DEF ProvidersIn
      <4>2. Cardinality(ProvidersIn(b, c)) \in Nat /\ ~(Cardinality(ProvidersIn(b, c)) > 1)
        BY <3>4, <4>1, FS_CardinalityType
      <4>. QED  BY <3>3, <3>5, <4>1, <4>2, AtMostOne
    <3>. QED  BY <1>20, <3>2, <3>3, <3>5
  <2>. QED  BY <2>1, <2>2, <2>3
<1>. QED  BY <1>24, <1>25 DEF plan

-----------------------------------------------------------------------------
(* Batches: the invariant. *)

\* The plugins of a batch are under way.
BatchTyped ==
  /\ phase \in {"idle", "committing", "done"}
  /\ IsFiniteSet(LiveNames)
  /\ phase # "idle" =>
       /\ batch \in Batches
       /\ needs \in [Candidates(batch) -> SUBSET Cap]
       /\ \A k \in Candidates(batch) : needs[k] \subseteq Requires[batch[k]]
       /\ DOMAIN report = DOMAIN batch

\* Those whose turn is to come: a provider comes before those that need it.
InOrder ==
  phase = "committing" =>
    /\ todo \in Seq(Candidates(batch)) /\ Distinct(todo)
    /\ \A k \in DOMAIN batch : report[k] = "planned" <=> k \in ToSet(todo)
    /\ \A k \in ToSet(todo) : batch[k] \notin Broken
    /\ \A j, k \in ToSet(todo) : Name(batch, j) = Name(batch, k) => j = k
    /\ \A m, n \in DOMAIN todo : needs[todo[n]] \cap Provides[batch[todo[m]]] # {} => m < n

\* load_plugins has left out nobody, so that each need has its provider.
NeedsCovered ==
  phase = "committing" /\ ~lenient =>
    \A k \in ToSet(todo) : \A c \in needs[k] :
      \E m \in ProvidersIn(batch, c) : report[m] \in {"planned", "loaded"}

\* Nothing stands in the way of those whose turn is to come, but their needs.
Unobstructed ==
  phase = "committing" /\ quiet =>
    /\ todo # <<>> => Cardinality(LiveNames) + Len(todo) <= MaxPlugins
    /\ \A k \in ToSet(todo) :
         /\ Name(batch, k) \notin LiveNames
         /\ MissingRequirements(table, batch[k]) \subseteq needs[k]
         /\ ProvidesConflicts(policy, table, batch[k]) = {}
         /\ policy = "error_on_conflict" =>
              \A m \in ToSet(todo) \ {k} : Provides[batch[k]] \cap Provides[batch[m]] = {}

\* A need is met exactly by those in the batch that were loaded.
NeedsMetByLoaded ==
  phase = "committing" /\ quiet =>
    /\ \A m \in Candidates(batch) :
         report[m] = "loaded" => Provides[batch[m]] \subseteq Provided(table)
    /\ \A k \in Candidates(batch) : \A c \in needs[k] \cap Provided(table) :
         \E m \in ProvidersIn(batch, c) : report[m] = "loaded"

\* Nobody whose turn is to come provides what is wanted in vain.
WantingStill ==
  phase # "idle" /\ lenient /\ quiet /\ (\A c \in Cap : Cardinality(ProvidersIn(batch, c)) <= 1) =>
    \A k \in LeftWanting : \E c \in MissingRequirements(table, batch[k]) :
      \A m \in ProvidersIn(batch, c) : report[m] # "planned"

BatchInv ==
  BatchTyped /\ InOrder /\ NeedsCovered /\ Unobstructed /\ NeedsMetByLoaded /\ WantingStill

LEMMA RegisterEffects ==
  ASSUME CapInv, IsFiniteSet(LiveNames), NEW p \in Plugin, Register(p)
  PROVE  /\ IdOf[p] \notin LiveNames /\ LiveNames' = LiveNames \cup {IdOf[p]}
         /\ IsFiniteSet(LiveNames')
         /\ Cardinality(LiveNames) \in Nat
         /\ Cardinality(LiveNames') = Cardinality(LiveNames) + 1
         /\ Provided(table') = Provided(table) \cup Provides[p]
         /\ policy' = policy
<1>1. /\ IdOf[p] \in PluginId /\ p # NoPlugin /\ live[IdOf[p]] = NoPlugin
      /\ live' = [live EXCEPT ![IdOf[p]] = p] /\ policy' = policy
      /\ live \in [PluginId -> Plugin \cup {NoPlugin}]
      /\ Provides[p] \subseteq Cap
  BY IdsTyped DEF Register, CapInv, CapTyped
<1>2. IdOf[p] \notin LiveNames /\ LiveNames' = LiveNames \cup {IdOf[p]}
  BY <1>1 DEF LiveNames
<1>3. ASSUME NEW c \in Cap
      PROVE  table'[c] # <<>> <=> table[c] # <<>> \/ c \in Provides[p]
  <2>1. table[c] \in Seq(Plugin)
    BY DEF CapInv, CapTyped, Tables
  <2>2. Append(table[c], p) # <<>>
    BY <2>1
  <2>. QED  BY <2>2 DEF Register, WithPlugin
<1>4. Provided(table') = Provided(table) \cup Provides[p]
  BY <1>1, <1>3 DEF Provided
<1> HIDE DEF LiveNames
<1>. QED  BY <1>1, <1>2, <1>4, FS_AddElement, FS_CardinalityType

LEMMA LiveNamesFinite ==
  ASSUME CapInv, BatchTyped, [BatchNext]_allVars
  PROVE  IsFiniteSet(LiveNames')
<1>1. IsFiniteSet(LiveNames)
  BY DEF BatchTyped
<1>2. ASSUME NEW p \in Plugin, Register(p) PROVE IsFiniteSet(LiveNames')
  BY <1>1, <1>2, RegisterEffects
<1>3. ASSUME LiveNames' \subseteq LiveNames PROVE IsFiniteSet(LiveNames')
  BY <1>1, <1>3, FS_Subset
<1>4. ASSUME NEW p \in Plugin, Reload(p) PROVE LiveNames' \subseteq LiveNames
  BY <1>4 DEF Reload, LiveNames, CapInv, CapTyped
<1>5. ASSUME NEW i \in PluginId, Unregister(i) PROVE LiveNames' \subseteq LiveNames
  BY <1>5 DEF Unregister, LiveNames, CapInv, CapTyped
<1>6. ASSUME UNCHANGED <<policy, table, live>> PROVE LiveNames' \subseteq LiveNames
  BY <1>6 DEF LiveNames
<1>. QED  BY <1>2, <1>3, <1>4, <1>5, <1>6, BatchSteps

\* The one whose turn it is needs nobody whose turn is to come.
LEMMA HeadOfTodo ==
  ASSUME BatchTyped, InOrder, phase = "committing", todo # <<>>
  PROVE  LET h == Head(todo)
         IN  /\ h \in Candidates(batch) /\ h \in DOMAIN batch /\ h \in ToSet(todo)
             /\ batch[h] \in Plugin
             /\ report[h] = "planned"
             /\ Tail(todo) \in Seq(Candidates(batch)) /\ Distinct(Tail(todo))
             /\ ToSet(todo) = {h} \cup ToSet(Tail(todo)) /\ h \notin ToSet(Tail(todo))
             /\ Len(Tail(todo)) = Len(todo) - 1 /\ Len(todo) \in Nat \ {0}
             /\ \A c \in needs[h] : ProvidersIn(batch, c) \cap ToSet(todo) = {}
<1> DEFINE h == Head(todo)
<1>1. /\ todo \in Seq(Candidates(batch)) /\ Distinct(todo)
      /\ \A k \in DOMAIN batch : report[k] = "planned" <=> k \in ToSet(todo)
      /\ \A m, n \in DOMAIN todo : needs[todo[n]] \cap Provides[batch[todo[m]]] # {} => m < n
  BY DEF InOrder
<1>2. /\ h \in ToSet(todo) /\ h \in Candidates(batch)
      /\ Tail(todo) \in Seq(Candidates(batch)) /\ Distinct(Tail(todo))
      /\ ToSet(todo) = {h} \cup ToSet(Tail(todo)) /\ h \notin ToSet(Tail(todo))
      /\ Len(Tail(todo)) = Len(todo) - 1 /\ Len(todo) \in Nat \ {0}
  BY <1>1, HeadAndTail
<1>3. h \in DOMAIN batch /\ batch[h] \in Plugin
  BY <1>2, BatchPositions DEF BatchTyped
<1>4. ASSUME NEW c \in needs[h], NEW m \in ProvidersIn(batch, c), m \in ToSet(todo)
      PROVE  FALSE
  <2>1. PICK n \in DOMAIN todo : todo[n] = m
    BY <1>4 DEF ToSet
  <2>2. 1 \in DOMAIN todo /\ todo[1] = h /\ n \in Nat \ {0}
    BY <1>1
  <2>3. c \in Provides[batch[m]]
    BY <1>4 DEF ProvidersIn
  <2>4. n < 1
    BY <1>1, <1>4, <2>1, <2>2, <2>3
  <2>. QED  BY <2>2, <2>4
<1>. QED  BY <1>1, <1>2, <1>3, <1>4

LEMMA HeadDealtWith ==
  ASSUME BatchTyped, InOrder, phase = "committing", todo # <<>>, NEW v, v # "planned",
         report' = [report EXCEPT ![Head(todo)] = v], todo' = Tail(todo),
         UNCHANGED <<batch, needs>>
  PROVE  /\ InOrder'
         /\ DOMAIN report' = DOMAIN batch'
         /\ report'[Head(todo)] = v
         /\ \A k \in DOMAIN batch : k # Head(todo) => report'[k] = report[k]
<1> DEFINE h == Head(todo)
<1>1. /\ todo \in Seq(Candidates(batch))
      /\ \A k \in DOMAIN batch : report[k] = "planned" <=> k \in ToSet(todo)
      /\ \A k \in ToSet(todo) : batch[k] \notin Broken
      /\ \A j, k \in ToSet(todo) : Name(batch, j) = Name(batch, k) => j = k
      /\ \A m, n \in DOMAIN todo : needs[todo[n]] \cap Provides[batch[todo[m]]] # {} => m < n
  BY DEF InOrder
<1>2. /\ h \in DOMAIN batch /\ DOMAIN report = DOMAIN batch
      /\ todo' \in Seq(Candidates(batch)) /\ Distinct(todo')
      /\ ToSet(todo) = {h} \cup ToSet(todo') /\ h \notin ToSet(todo')
  BY HeadOfTodo DEF BatchTyped
<1>3. /\ report'[h] = v /\ DOMAIN report' = DOMAIN batch'
      /\ \A k \in DOMAIN batch : k # h => report'[k] = report[k]
  BY <1>2
<1> HIDE DEF h
<1>4. \A k \in DOMAIN batch' : report'[k] = "planned" <=> k \in ToSet(todo')
  BY <1>1, <1>2, <1>3
<1>5. ASSUME NEW m \in DOMAIN todo', NEW n \in DOMAIN todo',
             needs[todo'[n]] \cap Provides[batch[todo'[m]]] # {}
      PROVE  m < n
  <2>1. /\ m + 1 \in DOMAIN todo /\ todo'[m] = todo[m + 1]
        /\ n + 1 \in DOMAIN todo /\ todo'[n] = todo[n + 1]
    BY <1>1, HeadAndTail
  <2>2. m + 1 < n + 1
    BY <1>1, <1>5, <2>1
  <2>3. m \in Nat /\ n \in Nat
    BY <1>2
  <2>. QED  BY <2>2, <2>3
<1>6. InOrder'
  BY <1>1, <1>2, <1>4, <1>5 DEF InOrder, Candidates, Name
<1>. QED  BY <1>3, <1>6 DEF h

LEMMA BatchBeginsKeeps ==
  ASSUME CapInv, BatchInv, BatchBegins
  PROVE  BatchInv'
<1> DEFINE b == batch'
<1>1. /\ b \in Batches /\ IsFiniteSet(LiveNames) /\ quiet' = TRUE
      /\ needs' = UnsatisfiedRequires(b)
      /\ UNCHANGED <<policy, table, live>>
  BY DEF BatchBegins, BatchInv, BatchTyped, vars
<1>2. PICK order \in Orders(b) :
        LET plan == Plan(b, order)
        IN  IF lenient' \/ ~Faulty(b, plan)
            THEN phase' = "committing" /\ todo' = plan.ordered /\ report' = plan.reason
            ELSE phase' = "done" /\ todo' = <<>> /\ report' = [k \in DOMAIN b |-> "refused"]
  BY DEF BatchBegins
<1>3. LiveNames' = LiveNames
  BY <1>1 DEF LiveNames
<1>4. /\ needs' \in [Candidates(b) -> SUBSET Cap]
      /\ \A k \in Candidates(b) : needs'[k] = MissingRequirements(table, b[k])
      /\ \A k \in Candidates(b) : /\ b[k] \in Plugin /\ needs'[k] \subseteq Requires[b[k]]
                                  /\ needs'[k] \cap Provided(table) = {}
  BY <1>1, BatchPositions, TableAssumption DEF UnsatisfiedRequires, MissingRequirements
<1> DEFINE plan == Plan(b, order)
<1>5. Sound(b, plan) /\ Wanting(b, plan)
  BY <1>1, PlanProperties
<1>6. /\ \/ phase' = "committing" /\ todo' = plan.ordered /\ report' = plan.reason
            /\ (lenient' \/ ~Faulty(b, plan))
         \/ phase' = "done" /\ ~lenient' /\ DOMAIN report' = DOMAIN b
  BY <1>2
<1> HIDE DEF plan, b
<1>7. CASE phase' = "done" /\ ~lenient' /\ DOMAIN report' = DOMAIN b
  <2>1. BatchTyped'
    BY <1>1, <1>3, <1>4, <1>7 DEF BatchTyped, Candidates, b
  <2>. QED  BY <1>7, <2>1
        DEF BatchInv, InOrder, NeedsCovered, Unobstructed, NeedsMetByLoaded, WantingStill
<1>8. CASE /\ phase' = "committing" /\ todo' = plan.ordered /\ report' = plan.reason
           /\ (lenient' \/ ~Faulty(b, plan))
  <2>1. /\ todo' \in Seq(Candidates(b)) /\ Distinct(todo')
        /\ DOMAIN report' = DOMAIN b
        /\ \A k \in DOMAIN b : report'[k] = "planned" <=> k \in ToSet(todo')
        /\ \A k \in DOMAIN b : report'[k] \in Skipped \cup {"planned"}
        /\ \A k \in ToSet(todo') : b[k] \notin Broken /\ Name(b, k) \notin LiveNames
        /\ \A j, k \in ToSet(todo') : Name(b, j) = Name(b, k) => j = k
    BY <1>5, <1>8 DEF Sound
  <2>2. /\ \A m, n \in DOMAIN todo' : needs'[todo'[n]] \cap Provides[b[todo'[m]]] # {} => m < n
        /\ todo' # <<>> => Cardinality(LiveNames) + Len(todo') <= MaxPlugins
        /\ \A k \in ToSet(todo') : /\ ProvidesConflicts(policy, table, b[k]) = {}
                                   /\ \A c \in needs'[k] : ProvidersIn(b, c) # {}
        /\ policy = "error_on_conflict" =>
             \A j, k \in ToSet(todo') : j # k => Provides[b[j]] \cap Provides[b[k]] = {}
    BY <1>1, <1>5, <1>8 DEF Sound
  <2>3. ToSet(todo') \subseteq Candidates(b) /\ Candidates(b) \subseteq DOMAIN b
    BY <2>1 DEF ToSet, Candidates
  <2>4. BatchTyped'
    BY <1>1, <1>3, <1>4, <1>8, <2>1 DEF BatchTyped, Candidates, b
  <2>5. InOrder'
    BY <2>1, <2>2 DEF InOrder, Candidates, Name, b
  <2>6. NeedsCovered'
    <3> SUFFICES ASSUME ~lenient', NEW k \in ToSet(todo'), NEW c \in needs'[k]
                 PROVE  \E m \in ProvidersIn(b, c) : report'[m] \in {"planned", "loaded"}
      BY DEF NeedsCovered, ProvidersIn, Candidates, b
    <3>1. \A m \in DOMAIN b : report'[m] \notin Skipped
      BY <1>8 DEF Faulty
    <3>2. PICK m \in ProvidersIn(b, c) : TRUE
      BY <2>2
    <3>. QED  BY <2>1, <2>3, <3>1, <3>2 DEF ProvidersIn
  <2>7. Unobstructed'
    <3>1. /\ \A k \in ToSet(todo') : /\ Name(b, k) \notin LiveNames'
                                     /\ MissingRequirements(table', b[k]) \subseteq needs'[k]
                                     /\ ProvidesConflicts(policy', table', b[k]) = {}
          /\ todo' # <<>> => Cardinality(LiveNames') + Len(todo') <= MaxPlugins
      BY <1>1, <1>3, <1>4, <2>1, <2>2, <2>3
    <3>. QED  BY <1>1, <2>2, <3>1 DEF Unobstructed, Name, b
  <2>8. NeedsMetByLoaded'
    <3>1. \A m \in Candidates(b) : report'[m] # "loaded"
      BY <2>1, <2>3 DEF Skipped
    <3>2. \A k \in Candidates(b) : needs'[k] \cap Provided(table') = {}
      BY <1>1, <1>4
    <3>. QED  BY <3>1, <3>2 DEF NeedsMetByLoaded, Candidates, b
  <2>9. WantingStill'
    <3> SUFFICES ASSUME \A c \in Cap : Cardinality(ProvidersIn(b, c)) <= 1, NEW k \in LeftWanting'
                 PROVE  \E c \in MissingRequirements(table', b[k]) :
                          \A m \in ProvidersIn(b, c) : report'[m] # "planned"
      BY DEF WantingStill, ProvidersIn, Candidates, b
    <3>1. /\ k \in DOMAIN b
          /\ report'[k] \in {"missing_capability", "dependent_of_skipped", "cycle_member"}
      BY <2>1 DEF LeftWanting
    <3>2. k \in Candidates(b)
      BY <1>5, <1>8, <3>1 DEF Wanting
    <3>3. PICK c \in UnsatisfiedRequires(b)[k] : ProvidersIn(b, c) \cap ToSet(todo') = {}
      BY <1>5, <1>8, <3>1 DEF Wanting
    <3>4. c \in MissingRequirements(table', b[k])
      BY <1>1, <1>4, <3>2, <3>3
    <3>5. \A m \in ProvidersIn(b, c) : report'[m] # "planned"
      BY <2>1, <2>3, <3>3 DEF ProvidersIn
    <3>. QED  BY <3>4, <3>5
  <2>. QED  BY <2>4, <2>5, <2>6, <2>7, <2>8, <2>9 DEF BatchInv
<1>. QED  BY <1>6, <1>7, <1>8

\* try_load_plugins leaves out the one whose turn it is: that stands in
\* nobody's way.
LEMMA HeadLeftOut ==
  ASSUME BatchInv, phase = "committing", todo # <<>>, lenient,
         NEW v \in {"dependent_of_skipped", "on_start_error"},
         report' = [report EXCEPT ![Head(todo)] = v], todo' = Tail(todo),
         UNCHANGED <<policy, table, live, phase, batch, lenient, needs, quiet>>
  PROVE  BatchTyped' /\ InOrder' /\ NeedsCovered' /\ Unobstructed' /\ NeedsMetByLoaded'
<1> DEFINE h == Head(todo)
<1>1. /\ phase = "committing" /\ todo # <<>> /\ lenient
      /\ report' = [report EXCEPT ![h] = v] /\ todo' = Tail(todo)
      /\ UNCHANGED <<policy, table, live, phase, batch, lenient, needs, quiet>>
      /\ v \notin {"planned", "loaded"}
  OBVIOUS
<1>2. BatchTyped /\ InOrder /\ Unobstructed /\ NeedsMetByLoaded
  BY DEF BatchInv
<1>3. /\ h \in Candidates(batch) /\ report[h] = "planned"
      /\ ToSet(todo) = {h} \cup ToSet(todo') /\ h \notin ToSet(todo')
      /\ Len(todo') = Len(todo) - 1 /\ Len(todo) \in Nat \ {0}
  BY <1>1, <1>2, HeadOfTodo
<1>4. /\ InOrder' /\ DOMAIN report' = DOMAIN batch'
      /\ report'[h] = v
      /\ \A k \in DOMAIN batch : k # h => report'[k] = report[k]
  BY <1>1, <1>2, HeadDealtWith
<1> HIDE DEF h
<1>5. /\ LiveNames' = LiveNames /\ Candidates(batch') = Candidates(batch)
      /\ \A c : ProvidersIn(batch', c) = ProvidersIn(batch, c)
      /\ \A c : ProvidersIn(batch, c) \subseteq Candidates(batch)
      /\ Candidates(batch) \subseteq DOMAIN batch
      /\ \A k : Name(batch', k) = Name(batch, k)
  BY <1>1 DEF LiveNames, Candidates, ProvidersIn, Name
<1>6. BatchTyped'
  BY <1>1, <1>2, <1>4, <1>5 DEF BatchTyped
<1>7. NeedsCovered'
  BY <1>1 DEF NeedsCovered
<1>8. Unobstructed'
  <2> SUFFICES ASSUME quiet PROVE Unobstructed'
    BY <1>1 DEF Unobstructed
  <2>1. /\ Cardinality(LiveNames) + Len(todo) <= MaxPlugins
        /\ \A k \in ToSet(todo) :
             /\ Name(batch, k) \notin LiveNames
             /\ MissingRequirements(table, batch[k]) \subseteq needs[k]
             /\ ProvidesConflicts(policy, table, batch[k]) = {}
             /\ policy = "error_on_conflict" =>
                  \A m \in ToSet(todo) \ {k} : Provides[batch[k]] \cap Provides[batch[m]] = {}
    BY <1>1, <1>2 DEF Unobstructed
  <2>2. Cardinality(LiveNames) \in Nat /\ MaxPlugins \in Nat
    BY <1>2, FS_CardinalityType, BatchAssumption DEF BatchTyped
  <2>3. Cardinality(LiveNames') + Len(todo') <= MaxPlugins
    BY <1>3, <1>5, <2>1, <2>2
  <2>. QED  BY <1>1, <1>3, <1>5, <2>1, <2>3 DEF Unobstructed
<1>9. NeedsMetByLoaded'
  <2> SUFFICES ASSUME quiet PROVE NeedsMetByLoaded'
    BY <1>1 DEF NeedsMetByLoaded
  <2>1. /\ \A m \in Candidates(batch) :
             report[m] = "loaded" => Provides[batch[m]] \subseteq Provided(table)
        /\ \A k \in Candidates(batch) : \A c \in needs[k] \cap Provided(table) :
             \E m \in ProvidersIn(batch, c) : report[m] = "loaded"
    BY <1>1, <1>2 DEF NeedsMetByLoaded
  <2>2. \A m \in Candidates(batch) : report'[m] = "loaded" <=> report[m] = "loaded"
    BY <1>1, <1>3, <1>4, <1>5
  <2>. QED  BY <1>1, <1>5, <2>1, <2>2 DEF NeedsMetByLoaded
<1>. QED  BY <1>4, <1>6, <1>7, <1>8, <1>9

LEMMA CommitSkipsKeeps ==
  ASSUME BatchInv, CommitSkips
  PROVE  BatchInv'
<1> DEFINE h == Head(todo)
<1>1. /\ phase = "committing" /\ todo # <<>> /\ lenient /\ Stranded(h)
      /\ report' = [report EXCEPT ![h] = "dependent_of_skipped"] /\ todo' = Tail(todo)
      /\ UNCHANGED <<policy, table, live, phase, batch, lenient, needs, quiet>>
  BY DEF CommitSkips, vars
<1>2. BatchTyped /\ InOrder /\ NeedsMetByLoaded /\ WantingStill
  BY DEF BatchInv
<1>3. /\ h \in Candidates(batch)
      /\ \A c \in needs[h] : ProvidersIn(batch, c) \cap ToSet(todo) = {}
  BY <1>1, <1>2, HeadOfTodo
<1>4. /\ DOMAIN report' = DOMAIN batch'
      /\ report'[h] = "dependent_of_skipped"
      /\ \A k \in DOMAIN batch : k # h => report'[k] = report[k]
  BY <1>1, <1>2, HeadDealtWith
<1>5. BatchTyped' /\ InOrder' /\ NeedsCovered' /\ Unobstructed' /\ NeedsMetByLoaded'
  BY <1>1, HeadLeftOut
<1> HIDE DEF h
<1>6. /\ \A c : ProvidersIn(batch', c) = ProvidersIn(batch, c)
      /\ \A c : ProvidersIn(batch, c) \subseteq Candidates(batch)
      /\ Candidates(batch) \subseteq DOMAIN batch
  BY <1>1 DEF Candidates, ProvidersIn
<1>7. WantingStill'
  <2> SUFFICES ASSUME quiet, \A c \in Cap : Cardinality(ProvidersIn(batch, c)) <= 1,
                      NEW k \in LeftWanting'
               PROVE  \E c \in MissingRequirements(table, batch[k]) :
                        \A m \in ProvidersIn(batch, c) : report'[m] # "planned"
    BY <1>1, <1>6 DEF WantingStill
  <2>1. \A m \in Candidates(batch) : report[m] # "planned" => report'[m] # "planned"
    BY <1>4, <1>6
  <2>2. CASE k = h
    <3>1. PICK c \in needs[h] : \A m \in ProvidersIn(batch, c) : report[m] # "loaded"
      BY <1>1 DEF Stranded
    <3>2. c \notin Provided(table)
      BY <1>1, <1>2, <1>3, <3>1 DEF NeedsMetByLoaded
    <3>3. c \in MissingRequirements(table, batch[h])
      BY <1>1, <1>2, <1>3, <3>1, <3>2 DEF BatchTyped, MissingRequirements
    <3>4. \A m \in ProvidersIn(batch, c) : report[m] # "planned"
      BY <1>1, <1>2, <1>3, <1>6, <3>1 DEF InOrder
    <3>. QED  BY <1>6, <2>1, <2>2, <3>3, <3>4
  <2>3. CASE k # h
    <3>1. k \in LeftWanting
      BY <1>1, <1>2, <1>4, <2>3 DEF LeftWanting, BatchTyped
    <3>2. PICK c \in MissingRequirements(table, batch[k]) :
            \A m \in ProvidersIn(batch, c) : report[m] # "planned"
      BY <1>1, <1>2, <3>1 DEF WantingStill
    <3>. QED  BY <1>6, <2>1, <3>2
  <2>. QED  BY <2>2, <2>3
<1>. QED  BY <1>5, <1>7 DEF BatchInv

LEMMA CommitLoadsKeeps ==
  ASSUME CapInv, BatchInv, CommitLoads
  PROVE  BatchInv'
<1> DEFINE h == Head(todo)
<1>1. /\ phase = "committing" /\ todo # <<>>
      /\ report' = [report EXCEPT ![h] = "loaded"] /\ todo' = Tail(todo)
      /\ UNCHANGED <<phase, batch, lenient, needs, quiet>>
  BY DEF CommitLoads
<1>2. PICK p \in Plugin : batch[h] = p /\ Register(p)
  BY DEF CommitLoads
<1>3. BatchTyped /\ InOrder /\ NeedsCovered /\ Unobstructed /\ NeedsMetByLoaded /\ WantingStill
  BY DEF BatchInv
<1>4. /\ h \in Candidates(batch) /\ report[h] = "planned" /\ h \in ToSet(todo)
      /\ ToSet(todo) = {h} \cup ToSet(todo') /\ h \notin ToSet(todo')
      /\ Len(todo') = Len(todo) - 1 /\ Len(todo) \in Nat \ {0}
  BY <1>1, <1>3, HeadOfTodo
<1>5. /\ InOrder' /\ DOMAIN report' = DOMAIN batch'
      /\ report'[h] = "loaded"
      /\ \A k \in DOMAIN batch : k # h => report'[k] = report[k]
  BY <1>1, <1>3, HeadDealtWith
<1>6. /\ LiveNames' = LiveNames \cup {Name(batch, h)}
      /\ IsFiniteSet(LiveNames')
      /\ Cardinality(LiveNames) \in Nat
      /\ Cardinality(LiveNames') = Cardinality(LiveNames) + 1
      /\ Provided(table') = Provided(table) \cup Provides[batch[h]]
      /\ policy' = policy
  BY <1>2, <1>3, RegisterEffects DEF BatchTyped, Name
<1> HIDE DEF h
<1>7. /\ Candidates(batch') = Candidates(batch)
      /\ \A c : ProvidersIn(batch', c) = ProvidersIn(batch, c)
      /\ \A c : ProvidersIn(batch, c) \subseteq Candidates(batch)
      /\ Candidates(batch) \subseteq DOMAIN batch
      /\ \A k : Name(batch', k) = Name(batch, k)
  BY <1>1 DEF Candidates, ProvidersIn, Name
<1>8. \A k \in Candidates(batch) : k # h => report'[k] = report[k]
  BY <1>5, <1>7
<1>9. BatchTyped'
  BY <1>1, <1>3, <1>5, <1>6, <1>7 DEF BatchTyped
<1>10. NeedsCovered'
  <2> SUFFICES ASSUME ~lenient, NEW k \in ToSet(todo'), NEW c \in needs[k]
               PROVE  \E m \in ProvidersIn(batch, c) : report'[m] \in {"planned", "loaded"}
    BY <1>1, <1>7 DEF NeedsCovered
  <2>1. PICK m \in ProvidersIn(batch, c) : report[m] \in {"planned", "loaded"}
    BY <1>1, <1>3, <1>4 DEF NeedsCovered
  <2>. QED  BY <1>5, <1>7, <1>8, <2>1
<1>11. Unobstructed'
  <2> SUFFICES ASSUME quiet PROVE Unobstructed'
    BY <1>1 DEF Unobstructed
  <2>1. /\ Cardinality(LiveNames) + Len(todo) <= MaxPlugins
        /\ \A k \in ToSet(todo) :
             /\ Name(batch, k) \notin LiveNames
             /\ MissingRequirements(table, batch[k]) \subseteq needs[k]
             /\ ProvidesConflicts(policy, table, batch[k]) = {}
             /\ policy = "error_on_conflict" =>
                  \A m \in ToSet(todo) \ {k} : Provides[batch[k]] \cap Provides[batch[m]] = {}
    BY <1>1, <1>3 DEF Unobstructed
  <2>2. Cardinality(LiveNames') + Len(todo') <= MaxPlugins
    BY <1>4, <1>6, <2>1, BatchAssumption
  <2>3. ASSUME NEW k \in ToSet(todo')
        PROVE  /\ Name(batch, k) \notin LiveNames'
               /\ MissingRequirements(table', batch[k]) \subseteq needs[k]
               /\ ProvidesConflicts(policy', table', batch[k]) = {}
    <3>1. k \in ToSet(todo) /\ k # h
      BY <1>4
    <3>2. Name(batch, k) # Name(batch, h)
      BY <1>1, <1>3, <1>4, <3>1 DEF InOrder
    <3>3. MissingRequirements(table', batch[k]) \subseteq MissingRequirements(table, batch[k])
      BY <1>6 DEF MissingRequirements
    <3>4. ProvidesConflicts(policy', table', batch[k]) = {}
      <4>1. policy = "error_on_conflict" => Provides[batch[k]] \cap Provides[batch[h]] = {}
        BY <1>4, <2>1, <3>1
      <4>2. policy = "error_on_conflict" => Provides[batch[k]] \cap Provided(table) = {}
        BY <2>1, <3>1 DEF ProvidesConflicts
      <4>. QED  BY <1>6, <4>1, <4>2 DEF ProvidesConflicts
    <3>. QED  BY <1>6, <2>1, <3>1, <3>2, <3>3, <3>4
  <2>4. policy' = "error_on_conflict" =>
          \A k \in ToSet(todo') : \A m \in ToSet(todo') \ {k} :
            Provides[batch[k]] \cap Provides[batch[m]] = {}
    BY <1>4, <1>6, <2>1
  <2>. QED  BY <1>1, <1>7, <2>2, <2>3, <2>4 DEF Unobstructed
<1>12. NeedsMetByLoaded'
  <2> SUFFICES ASSUME quiet PROVE NeedsMetByLoaded'
    BY <1>1 DEF NeedsMetByLoaded
  <2>1. /\ \A m \in Candidates(batch) :
             report[m] = "loaded" => Provides[batch[m]] \subseteq Provided(table)
        /\ \A k \in Candidates(batch) : \A c \in needs[k] \cap Provided(table) :
             \E m \in ProvidersIn(batch, c) : report[m] = "loaded"
    BY <1>1, <1>3 DEF NeedsMetByLoaded
  <2>2. ASSUME NEW m \in Candidates(batch), report'[m] = "loaded"
        PROVE  Provides[batch[m]] \subseteq Provided(table')
    BY <1>6, <1>8, <2>1, <2>2
  <2>3. ASSUME NEW k \in Candidates(batch), NEW c \in needs[k] \cap Provided(table')
        PROVE  \E m \in ProvidersIn(batch, c) : report'[m] = "loaded"
    <3>1. CASE c \in Provided(table)
      <4>1. PICK m \in ProvidersIn(batch, c) : report[m] = "loaded"
        BY <2>1, <2>3, <3>1
      <4>. QED  BY <1>5, <1>7, <1>8, <4>1
    <3>2. CASE c \in Provides[batch[h]]
      <4>1. h \in ProvidersIn(batch, c)
        BY <1>4, <3>2 DEF ProvidersIn
      <4>. QED  BY <1>5, <4>1
    <3>. QED  BY <1>6, <2>3, <3>1, <3>2
  <2>. QED  BY <1>1, <1>7, <2>2, <2>3 DEF NeedsMetByLoaded
<1>13. WantingStill'
  <2> SUFFICES ASSUME lenient, quiet, \A c \in Cap : Cardinality(ProvidersIn(batch, c)) <= 1,
                      NEW k \in LeftWanting'
               PROVE  \E c \in MissingRequirements(table', batch[k]) :
                        \A m \in ProvidersIn(batch, c) : report'[m] # "planned"
    BY <1>1, <1>7 DEF WantingStill
  <2>1. k # h /\ k \in LeftWanting
    BY <1>1, <1>3, <1>5 DEF LeftWanting, BatchTyped
  <2>2. PICK c \in MissingRequirements(table, batch[k]) :
          \A m \in ProvidersIn(batch, c) : report[m] # "planned"
    BY <1>1, <1>3, <2>1 DEF WantingStill
  <2>3. c \notin Provides[batch[h]]
    BY <1>4, <2>2 DEF ProvidersIn
  <2>4. c \in MissingRequirements(table', batch[k])
    BY <1>6, <2>2, <2>3 DEF MissingRequirements
  <2>5. \A m \in ProvidersIn(batch, c) : report'[m] # "planned"
    BY <1>5, <1>7, <1>8, <2>2
  <2>. QED  BY <2>4, <2>5
<1>. QED  BY <1>5, <1>9, <1>10, <1>11, <1>12, <1>13 DEF BatchInv

\* A failure is no want of a capability.
LEMMA CommitFailsKeeps ==
  ASSUME BatchInv, CommitFails
  PROVE  BatchInv'
<1> DEFINE h == Head(todo)
<1>1. /\ phase = "committing" /\ todo # <<>>
      /\ report' = [report EXCEPT ![h] = "on_start_error"]
      /\ UNCHANGED <<policy, table, live, batch, lenient, needs, quiet>>
      /\ \/ lenient /\ todo' = Tail(todo) /\ phase' = phase
         \/ ~lenient /\ todo' = <<>> /\ phase' = "done"
  BY DEF CommitFails
<1>2. BatchTyped /\ InOrder /\ WantingStill
  BY DEF BatchInv
<1>3. DOMAIN report' = DOMAIN batch' /\ LiveNames' = LiveNames /\ Candidates(batch') = Candidates(batch)
  BY <1>1, <1>2 DEF BatchTyped, LiveNames, Candidates
<1>4. CASE ~lenient
  <2>1. BatchTyped'
    BY <1>1, <1>2, <1>3, <1>4 DEF BatchTyped
  <2>. QED  BY <1>1, <1>4, <2>1
        DEF BatchInv, InOrder, NeedsCovered, Unobstructed, NeedsMetByLoaded, WantingStill
<1>5. CASE lenient
  <2>1. BatchTyped' /\ InOrder' /\ NeedsCovered' /\ Unobstructed' /\ NeedsMetByLoaded'
    BY <1>1, <1>5, HeadLeftOut
  <2>2. /\ h \in DOMAIN batch /\ DOMAIN report = DOMAIN batch
        /\ report'[h] = "on_start_error"
        /\ \A k \in DOMAIN batch : k # h => report'[k] = report[k]
    BY <1>1, <1>2, <1>5, HeadOfTodo DEF BatchTyped
  <2> HIDE DEF h
  <2>3. /\ \A c : ProvidersIn(batch', c) = ProvidersIn(batch, c)
        /\ \A c : ProvidersIn(batch, c) \subseteq DOMAIN batch
    BY <1>1 DEF Candidates, ProvidersIn
  <2>4. LeftWanting' \subseteq LeftWanting
    BY <1>3, <2>2, <1>1 DEF LeftWanting
  <2>5. \A m \in DOMAIN batch : report[m] # "planned" => report'[m] # "planned"
    BY <2>2
  <2>6. WantingStill'
    <3> SUFFICES ASSUME quiet, \A c \in Cap : Cardinality(ProvidersIn(batch, c)) <= 1,
                        NEW k \in LeftWanting
                 PROVE  \E c \in MissingRequirements(table, batch[k]) :
                          \A m \in ProvidersIn(batch, c) : report'[m] # "planned"
      BY <1>1, <1>5, <2>3, <2>4 DEF WantingStill
    <3>1. PICK c \in MissingRequirements(table, batch[k]) :
            \A m \in ProvidersIn(batch, c) : report[m] # "planned"
      BY <1>1, <1>2, <1>5 DEF WantingStill
    <3>. QED  BY <2>3, <2>5, <3>1
  <2>. QED  BY <2>1, <2>6 DEF BatchInv
<1>. QED  BY <1>4, <1>5

\* What others do is no longer quiet, or nothing is planned.
LEMMA OthersActKeeps ==
  ASSUME BatchInv, OthersAct, IsFiniteSet(LiveNames')
  PROVE  BatchInv'
<1>1. /\ UNCHANGED <<phase, batch, lenient, needs, todo, report>>
      /\ quiet' = (phase = "idle")
  BY DEF OthersAct
<1>2. BatchTyped /\ InOrder /\ NeedsCovered
  BY DEF BatchInv
<1>3. BatchTyped'
  BY <1>1, <1>2 DEF BatchTyped, Candidates
<1>4. InOrder'
  BY <1>1, <1>2 DEF InOrder, Candidates, Name
<1>5. NeedsCovered'
  BY <1>1, <1>2 DEF NeedsCovered, ProvidersIn, Candidates
<1>6. Unobstructed' /\ NeedsMetByLoaded' /\ WantingStill'
  BY <1>1 DEF Unobstructed, NeedsMetByLoaded, WantingStill
<1>. QED  BY <1>3, <1>4, <1>5, <1>6 DEF BatchInv

LEMMA BatchInvInductive == BatchSpec => []BatchInv
<1>1. BatchInit => BatchInv
  <2> SUFFICES ASSUME BatchInit PROVE BatchInv
    OBVIOUS
  <2>1. phase = "idle" /\ LiveNames = {}
    BY DEF BatchInit, Init, LiveNames
  <2>2. BatchTyped
    BY <2>1, FS_EmptySet DEF BatchTyped
  <2>. QED  BY <2>1, <2>2
        DEF BatchInv, InOrder, NeedsCovered, Unobstructed, NeedsMetByLoaded, WantingStill
<1>2. CapInv /\ BatchInv /\ [BatchNext]_allVars => BatchInv'
  <2> SUFFICES ASSUME CapInv, BatchInv, [BatchNext]_allVars PROVE BatchInv'
    OBVIOUS
  <2>1. IsFiniteSet(LiveNames')
    BY LiveNamesFinite DEF BatchInv
  <2>2. CASE BatchBegins
    BY <2>2, BatchBeginsKeeps
  <2>3. CASE CommitSkips
    BY <2>3, CommitSkipsKeeps
  <2>4. CASE CommitLoads
    BY <2>4, CommitLoadsKeeps
  <2>5. CASE CommitFails
    BY <2>5, CommitFailsKeeps
  <2>6. CASE CommitEnds
    <3>1. /\ phase = "committing" /\ phase' = "done"
          /\ UNCHANGED <<table, live, batch, lenient, needs, todo, report, quiet>>
      BY <2>6 DEF CommitEnds, vars
    <3>2. BatchTyped'
      BY <2>1, <3>1 DEF BatchInv, BatchTyped, Candidates
    <3>3. WantingStill'
      BY <3>1 DEF BatchInv, WantingStill, LeftWanting, ProvidersIn, Candidates
    <3>. QED  BY <3>1, <3>2, <3>3
          DEF BatchInv, InOrder, NeedsCovered, Unobstructed, NeedsMetByLoaded
  <2>7. CASE BatchReturns
    <3>1. phase' = "idle"
      BY <2>7 DEF BatchReturns
    <3>. QED  BY <2>1, <3>1
          DEF BatchInv, BatchTyped, InOrder, NeedsCovered, Unobstructed, NeedsMetByLoaded, WantingStill
  <2>8. CASE OthersAct
    BY <2>1, <2>8, OthersActKeeps
  <2>9. CASE UNCHANGED allVars
    <3>1. UNCHANGED <<policy, table, live, phase, batch, lenient, needs, todo, report, quiet>>
      BY <2>9 DEF allVars, vars, batchVars
    <3>2. BatchTyped' /\ InOrder' /\ NeedsCovered'
      BY <2>1, <3>1 DEF BatchInv, BatchTyped, InOrder, NeedsCovered, ProvidersIn, Candidates, Name
    <3>3. Unobstructed' /\ NeedsMetByLoaded' /\ WantingStill'
      BY <3>1 DEF BatchInv, Unobstructed, NeedsMetByLoaded, WantingStill, LeftWanting,
                  ProvidersIn, Candidates, Name, LiveNames
    <3>. QED  BY <3>2, <3>3 DEF BatchInv
  <2>. QED  BY <2>2, <2>3, <2>4, <2>5, <2>6, <2>7, <2>8, <2>9 DEF BatchNext
<1>. QED  BY <1>1, <1>2, CapInvInductive, PTL DEF BatchSpec

\* For any batch, policy, cap on plugins and declared dependencies: if nobody
\* interferes, a planned candidate whose turn comes is refused by neither
\* admission nor the registry, unless its provider was not loaded or one of
\* the dependencies that it declares, which are no part of the plan, is not
\* registered.
THEOREM PlannedAdmission == BatchSpec => []PlannedIsAdmitted
<1>1. CapInv /\ BatchInv => PlannedIsAdmitted
  <2> SUFFICES ASSUME CapInv, BatchInv, phase = "committing", quiet, todo # <<>>,
                      ~(lenient /\ Stranded(Head(todo))),
                      DependenciesLive(batch[Head(todo)])
               PROVE  Admissible(Head(todo))
    BY DEF PlannedIsAdmitted
  <2> DEFINE h == Head(todo)
  <2>1. BatchTyped /\ InOrder /\ NeedsCovered /\ Unobstructed /\ NeedsMetByLoaded
    BY DEF BatchInv
  <2>2. /\ h \in Candidates(batch) /\ h \in ToSet(todo) /\ Len(todo) \in Nat \ {0}
        /\ \A c \in needs[h] : ProvidersIn(batch, c) \cap ToSet(todo) = {}
    BY <2>1, HeadOfTodo
  <2>3. ~(lenient /\ Stranded(h))
    OBVIOUS
  <2> HIDE DEF h
  <2>4. /\ Cardinality(LiveNames) + Len(todo) <= MaxPlugins
        /\ Name(batch, h) \notin LiveNames
        /\ MissingRequirements(table, batch[h]) \subseteq needs[h]
        /\ ProvidesConflicts(policy, table, batch[h]) = {}
        /\ batch[h] \notin Broken
    BY <2>1, <2>2 DEF Unobstructed, InOrder
  <2>5. Cardinality(LiveNames) < MaxPlugins
    BY <2>1, <2>2, <2>4, FS_CardinalityType, BatchAssumption DEF BatchTyped
  <2>6. ASSUME NEW c \in MissingRequirements(table, batch[h]) PROVE FALSE
    <3>1. c \in needs[h] /\ c \notin Provided(table)
      BY <2>4 DEF MissingRequirements
    <3>2. PICK m \in ProvidersIn(batch, c) : report[m] = "loaded"
      <4>1. CASE lenient
        BY <2>3, <3>1, <4>1 DEF Stranded
      <4>2. CASE ~lenient
        <5>1. PICK m \in ProvidersIn(batch, c) : report[m] \in {"planned", "loaded"}
          BY <2>1, <2>2, <3>1, <4>2 DEF NeedsCovered
        <5>2. m \in DOMAIN batch /\ m \notin ToSet(todo)
          BY <2>2, <3>1 DEF ProvidersIn, Candidates
        <5>. QED  BY <2>1, <5>1, <5>2 DEF InOrder
      <4>. QED  BY <4>1, <4>2
    <3>3. c \in Provided(table)
      BY <2>1, <3>2 DEF NeedsMetByLoaded, ProvidersIn
    <3>. QED  BY <3>1, <3>3
  <2>7. Admits(policy, table, batch[h])
    BY <2>4, <2>6 DEF Admits
  <2>8. Registrable(batch[h])
    BY <2>4, <2>5 DEF Registrable, Name, h
  <2>. QED  BY <2>7, <2>8 DEF Admissible, h
<1>. QED  BY <1>1, CapInvInductive, BatchInvInductive, PTL

\* For any batch whose capabilities have one provider each: whatever
\* try_load_plugins leaves out for want of a capability wants it in the end.
THEOREM MaximalLoad == BatchSpec => []LoadsMaximalWithoutRivals
<1>1. BatchInv => LoadsMaximalWithoutRivals
  BY DEF BatchInv, WantingStill, LoadsMaximalWithoutRivals, LoadsMaximalSubgraph
<1>. QED  BY <1>1, BatchInvInductive, PTL

=============================================================================

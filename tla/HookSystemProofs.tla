-------------------------- MODULE HookSystemProofs --------------------------
(***************************************************************************)
(* The hook system keeps its promises for any number of handlers, names    *)
(* and executions.                                                         *)
(*                                                                         *)
(* What makes them inductive is stronger and simpler than what they say: a *)
(* cached chain is Sorted of the handlers that are registered, and the     *)
(* chain of an execution is Sorted of those that were when it began.       *)
(***************************************************************************)
EXTENDS HookSystem, ArrangementProofs

-----------------------------------------------------------------------------
(* Sorting. *)

LEMMA EarlierIsOrder ==
  ASSUME NEW s \in Seq(Hook)
  PROVE  IsOrder(DOMAIN s, Earlier(s))
<1>1. DOMAIN s \in SUBSET Nat /\ \A k \in DOMAIN s : PriorityOf[s[k]] \in Nat
  BY HookAssumption
<1>. QED  BY <1>1 DEF IsOrder, Earlier

LEMMA EarlierMeans ==
  ASSUME NEW s, NEW j, NEW k, <<j, k>> \in Earlier(s)
  PROVE  \/ PriorityOf[s[j]] > PriorityOf[s[k]]
         \/ PriorityOf[s[j]] = PriorityOf[s[k]] /\ j < k
BY DEF Earlier

\* sorted() permutes the list, and the result is in order.
LEMMA SortedProperties ==
  ASSUME NEW s \in Seq(Hook)
  PROVE  Sorted(s) \in Seq(Hook) /\ InPriorityOrder(Sorted(s), s)
<1> DEFINE K == DOMAIN s
           N == Cardinality(K)
           A == Arranged(K, Earlier(s))
<1>1. IsFiniteSet(K) /\ K = 1 .. Len(s) /\ Len(s) \in Nat /\ N = Len(s)
  <2>1. K = 1 .. Len(s) /\ Len(s) \in Nat
    OBVIOUS
  <2>2. IsFiniteSet(1 .. Len(s)) /\ Cardinality(1 .. Len(s)) = Len(s)
    BY <2>1, FS_Interval
  <2>. QED  BY <2>1, <2>2
<1>2. /\ A \in [1 .. N -> K]
      /\ \A k \in K : \E n \in 1 .. N : A[n] = k
      /\ \A m, n \in 1 .. N : m < n => <<A[m], A[n]>> \in Earlier(s)
  <2>1. IsOrder(K, Earlier(s))
    BY EarlierIsOrder
  <2> HIDE DEF K
  <2>. QED  BY <1>1, <2>1, ArrangedOrder
<1>3. Sorted(s) = [n \in 1 .. N |-> s[A[n]]]
  BY DEF Sorted, ArrangedBy
<1>. HIDE DEF A
<1>4. \A k \in K : s[k] \in Hook /\ PriorityOf[s[k]] \in Nat
  BY HookAssumption
<1>5. Sorted(s) \in [1 .. N -> Hook]
  BY <1>2, <1>3, <1>4
<1>6. Sorted(s) \in Seq(Hook) /\ Len(Sorted(s)) = Len(s) /\ DOMAIN Sorted(s) = 1 .. N
  BY <1>1, <1>5
<1>7. ToSet(Sorted(s)) = ToSet(s)
  BY <1>2, <1>3, <1>6 DEF ToSet
<1>8. ASSUME NEW j \in K, NEW k \in K, j < k
      PROVE  \E m, n \in DOMAIN Sorted(s) :
               /\ Sorted(s)[m] = s[j] /\ Sorted(s)[n] = s[k]
               /\ m < n <=> PriorityOf[s[j]] >= PriorityOf[s[k]]
  <2>1. PICK m \in 1 .. N : A[m] = j
    BY <1>2
  <2>2. PICK n \in 1 .. N : A[n] = k
    BY <1>2
  <2>3. Sorted(s)[m] = s[j] /\ Sorted(s)[n] = s[k]
    BY <1>3, <2>1, <2>2
  <2>4. m # n
    BY <1>1, <1>8, <2>1, <2>2
  <2>5. m < n => PriorityOf[s[j]] >= PriorityOf[s[k]]
    <3>1. m < n => <<j, k>> \in Earlier(s)
      BY <1>2, <2>1, <2>2
    <3>2. PriorityOf[s[j]] \in Nat /\ PriorityOf[s[k]] \in Nat
      BY <1>4
    <3>. QED  BY <3>1, <3>2, EarlierMeans
  <2>6. n < m => PriorityOf[s[k]] > PriorityOf[s[j]]
    <3>1. n < m => <<k, j>> \in Earlier(s)
      BY <1>2, <2>1, <2>2
    <3>2. j \in Nat /\ k \in Nat /\ ~(k < j)
      BY <1>1, <1>8
    <3>. QED  BY <3>1, <3>2, EarlierMeans
  <2>7. m < n \/ n < m
    BY <1>1, <2>4
  <2>8. m < n <=> PriorityOf[s[j]] >= PriorityOf[s[k]]
    BY <1>4, <2>5, <2>6, <2>7
  <2>. QED  BY <1>6, <2>3, <2>8
<1>. QED  BY <1>6, <1>7, <1>8 DEF InPriorityOrder

-----------------------------------------------------------------------------
(* The invariant. *)

\* Handlers are listed under their own names.
HooksTyped ==
  /\ hooks \in [Name -> Seq(Hook)]
  /\ \A n \in Name : \A k \in DOMAIN hooks[n] : NameOf[hooks[n][k]] = n

CacheSorted ==
  /\ DOMAIN cache = Name
  /\ \A n \in Name : cache[n] # NotCached => cache[n] = Sorted(hooks[n])

\* An execution has sorted what was registered when it began.
Framed(r) ==
  /\ r \in [name : Name, first : BOOLEAN, chain : Seq(Hook), fired : Nat, frame : Seq(Hook)]
  /\ r.chain = Sorted(r.frame)
  /\ r.fired < Len(r.chain)

FramesKept ==
  /\ DOMAIN running = Execution
  /\ \A e \in Execution : running[e] # Idle => Framed(running[e])

HookInv == HooksTyped /\ CacheSorted /\ FramesKept

LEMMA InitKeepsHookInv == Init => HookInv
BY HookAssumption DEF Init, HookInv, HooksTyped, CacheSorted, FramesKept

LEMMA InvalidatedKeeps ==
  ASSUME NEW names, CacheSorted, DOMAIN hooks = Name,
         cache' = Invalidated(names),
         \A n \in Name \ names : hooks'[n] = hooks[n]
  PROVE  CacheSorted'
BY DEF CacheSorted, Invalidated

LEMMA ExecutionChanges ==
  ASSUME HookInv, NEW e \in Execution, NEW r, r # Idle => Framed(r),
         running' = [running EXCEPT ![e] = r]
  PROVE  FramesKept'
BY DEF HookInv, FramesKept, Framed, Idle

LEMMA RegisterKeeps ==
  ASSUME HookInv, NEW h \in Hook, Register(h)
  PROVE  HookInv'
<1>1. NameOf[h] \in Name
  BY HookAssumption
<1>2. HooksTyped'
  <2>1. hooks' \in [Name -> Seq(Hook)]
    BY <1>1 DEF HookInv, HooksTyped, Register
  <2>2. ASSUME NEW n \in Name, NEW k \in DOMAIN hooks'[n]
        PROVE  NameOf[hooks'[n][k]] = n
    <3>1. CASE n = NameOf[h]
      <4>1. hooks[n] \in Seq(Hook) /\ hooks'[n] = Append(hooks[n], h)
        BY <3>1 DEF HookInv, HooksTyped, Register
      <4>2. (k \in DOMAIN hooks[n] /\ hooks'[n][k] = hooks[n][k]) \/ hooks'[n][k] = h
        BY <4>1
      <4>. QED  BY <3>1, <4>2 DEF HookInv, HooksTyped
    <3>2. CASE n # NameOf[h]
      BY <3>2 DEF HookInv, HooksTyped, Register
    <3>. QED  BY <3>1, <3>2
  <2>. QED  BY <2>1, <2>2 DEF HooksTyped
<1>3. CacheSorted'
  BY InvalidatedKeeps DEF HookInv, HooksTyped, Register
<1>4. FramesKept'
  BY DEF HookInv, FramesKept, Register
<1>. QED  BY <1>2, <1>3, <1>4 DEF HookInv

LEMMA RemovedKeeps ==
  ASSUME HookInv, NEW H \in SUBSET Hook, Removed(H)
  PROVE  HookInv'
<1> DEFINE K(n) == {k \in DOMAIN hooks[n] : hooks[n][k] \notin H}
           names == {NameOf[h] : h \in H \cap Registered}
<1>1. hooks' = [n \in Name |-> Kept(hooks[n], K(n))]
  BY DEF Removed
<1>2. ASSUME NEW n \in Name
      PROVE  /\ Kept(hooks[n], K(n)) \in Seq(Hook)
             /\ \A k \in DOMAIN Kept(hooks[n], K(n)) : NameOf[Kept(hooks[n], K(n))[k]] = n
  <2>1. hooks[n] \in Seq(Hook) /\ K(n) \in SUBSET DOMAIN hooks[n]
    BY DEF HookInv, HooksTyped
  <2>2. /\ Kept(hooks[n], K(n)) \in Seq(Hook)
        /\ \E f \in [DOMAIN Kept(hooks[n], K(n)) -> K(n)] :
             \A k \in DOMAIN Kept(hooks[n], K(n)) : Kept(hooks[n], K(n))[k] = hooks[n][f[k]]
    <3> DEFINE s == hooks[n]
               P == K(n)
    <3> HIDE DEF K, s, P
    <3>1. s \in Seq(Hook) /\ P \in SUBSET DOMAIN s
      BY <2>1 DEF s, P
    <3>2. /\ Kept(s, P) \in Seq(Hook)
          /\ \E f \in [DOMAIN Kept(s, P) -> P] :
               \A k \in DOMAIN Kept(s, P) : Kept(s, P)[k] = s[f[k]]
      BY <3>1, KeptProperties
    <3>. QED  BY <3>2 DEF s, P
  <2>. QED  BY <2>1, <2>2 DEF HookInv, HooksTyped
<1>3. HooksTyped'
  <2> HIDE DEF K
  <2>. QED  BY <1>1, <1>2 DEF HooksTyped
<1>4. ASSUME NEW n \in Name \ names
      PROVE  hooks'[n] = hooks[n]
  <2>1. hooks[n] \in Seq(Hook)
    BY DEF HookInv, HooksTyped
  <2>2. ASSUME NEW k \in DOMAIN hooks[n] PROVE hooks[n][k] \notin H
    <3>1. hooks[n][k] \in Registered /\ NameOf[hooks[n][k]] = n
      BY DEF Registered, ToSet, HookInv, HooksTyped
    <3>. QED  BY <3>1
  <2>3. K(n) = DOMAIN hooks[n]
    BY <2>2
  <2> HIDE DEF K
  <2>. QED  BY <1>1, <2>1, <2>3, KeptAll
<1>5. CacheSorted'
  BY <1>4, InvalidatedKeeps DEF HookInv, HooksTyped, Removed
<1>6. FramesKept'
  BY DEF HookInv, FramesKept, Removed
<1>. QED  BY <1>3, <1>5, <1>6 DEF HookInv

\* The chain of a name, cached or not.
LEMMA ChainIsSorted ==
  ASSUME HookInv, NEW n \in Name
  PROVE  Chain(n) = Sorted(hooks[n]) /\ Chain(n) \in Seq(Hook)
BY SortedProperties DEF HookInv, HooksTyped, CacheSorted, Chain

LEMMA PrecacheKeeps ==
  ASSUME HookInv, Precache
  PROVE  HookInv'
<1>1. HooksTyped' /\ FramesKept'
  BY DEF HookInv, HooksTyped, FramesKept, Precache
<1>2. CacheSorted'
  BY ChainIsSorted DEF HookInv, CacheSorted, Precache
<1>. QED  BY <1>1, <1>2 DEF HookInv

LEMMA ClearCacheKeeps ==
  ASSUME HookInv, ClearCache
  PROVE  HookInv'
<1>1. HooksTyped' /\ FramesKept'
  BY DEF HookInv, HooksTyped, FramesKept, ClearCache
<1>2. CacheSorted'
  BY DEF CacheSorted, ClearCache, Invalidated
<1>. QED  BY <1>1, <1>2 DEF HookInv

LEMMA ExecuteKeeps ==
  ASSUME HookInv, NEW e \in Execution, NEW n \in Name, NEW first \in BOOLEAN,
         Execute(e, n, first)
  PROVE  HookInv'
<1>1. HooksTyped'
  BY DEF HookInv, HooksTyped, Execute
<1>2. CacheSorted'
  <2>1. Chain(n) = Sorted(hooks[n])
    BY ChainIsSorted
  <2>. QED  BY <2>1 DEF HookInv, CacheSorted, Execute
<1>3. FramesKept'
  <2>1. Chain(n) = Sorted(hooks[n]) /\ Chain(n) \in Seq(Hook) /\ hooks[n] \in Seq(Hook)
    BY ChainIsSorted DEF HookInv, HooksTyped
  <2>2. Begun(n, first) # Idle => Framed(Begun(n, first))
    <3>1. SUFFICES ASSUME Chain(n) # <<>>
                   PROVE  0 < Len(Chain(n))
      BY <2>1 DEF Begun, Framed
    <3>. QED  BY <2>1, <3>1
  <2>. QED  BY <2>2, ExecutionChanges DEF Execute
<1>. QED  BY <1>1, <1>2, <1>3 DEF HookInv

LEMMA HandlerReturnsKeeps ==
  ASSUME HookInv, NEW e \in Execution, NEW something \in BOOLEAN,
         HandlerReturns(e, something)
  PROVE  HookInv'
<1>1. HooksTyped' /\ CacheSorted'
  BY DEF HookInv, HooksTyped, CacheSorted, HandlerReturns
<1>2. FramesKept'
  <2> DEFINE r == running[e]
             next == Advanced(e)
  <2>1. Framed(r)
    BY DEF HookInv, FramesKept, HandlerReturns
  <2>2. CASE running' = [running EXCEPT ![e] = Idle]
    BY <2>2, ExecutionChanges
  <2>3. CASE ~(next.fired >= Len(next.chain)) /\ running' = [running EXCEPT ![e] = next]
    <3>1. next = [r EXCEPT !.fired = r.fired + 1]
      BY DEF Advanced
    <3>2. ~(next.fired >= Len(next.chain))
      BY <2>3
    <3> HIDE DEF r, next
    <3>3. Framed(next)
      BY <2>1, <3>1, <3>2 DEF Framed
    <3>. QED  BY <2>3, <3>3, ExecutionChanges
  <2>. QED  BY <2>2, <2>3 DEF HandlerReturns
<1>. QED  BY <1>1, <1>2 DEF HookInv

LEMMA HookInvInductive == Spec => []HookInv
<1>1. HookInv /\ [Next]_vars => HookInv'
  <2> SUFFICES ASSUME HookInv, [Next]_vars
               PROVE  HookInv'
    OBVIOUS
  <2>1. ASSUME NEW h \in Hook, Register(h)
        PROVE  HookInv'
    BY <2>1, RegisterKeeps
  <2>2. ASSUME NEW h \in Hook,
               UnregisterPlugin(PluginOf[h]) \/ UnregisterOwner(OwnerOf[h])
        PROVE  HookInv'
    BY <2>2, RemovedKeeps DEF UnregisterPlugin, UnregisterOwner
  <2>3. ASSUME NEW n, NEW callback, NEW priorities, Unregister(n, callback, priorities)
        PROVE  HookInv'
    BY <2>3, RemovedKeeps DEF Unregister
  <2>4. ASSUME NEW e \in Execution, NEW n \in Name, NEW first \in BOOLEAN,
               Execute(e, n, first)
        PROVE  HookInv'
    BY <2>4, ExecuteKeeps
  <2>5. ASSUME NEW e \in Execution, NEW something \in BOOLEAN, HandlerReturns(e, something)
        PROVE  HookInv'
    BY <2>5, HandlerReturnsKeeps
  <2>6. CASE Precache
    BY <2>6, PrecacheKeeps
  <2>7. CASE ClearCache
    BY <2>7, ClearCacheKeeps
  <2>8. CASE UNCHANGED vars
    <3>1. HooksTyped'
      BY <2>8 DEF vars, HookInv, HooksTyped
    <3>2. CacheSorted'
      BY <2>8 DEF vars, HookInv, CacheSorted
    <3>3. FramesKept'
      BY <2>8 DEF vars, HookInv, FramesKept
    <3>. QED  BY <3>1, <3>2, <3>3 DEF HookInv
  <2>. QED  BY <2>1, <2>2, <2>3, <2>4, <2>5, <2>6, <2>7, <2>8 DEF Next
<1>. QED  BY <1>1, InitKeepsHookInv, PTL DEF Spec

-----------------------------------------------------------------------------
(* What follows. *)

\* However handlers come and go: a cached chain has the handlers that are
\* registered, by priority and then in the order of registration.
THEOREM CachedChainsFresh == Spec => []ChainsFresh
<1>1. HookInv => ChainsFresh
  BY SortedProperties DEF HookInv, HooksTyped, CacheSorted, ChainsFresh
<1>. QED  BY <1>1, HookInvInductive, PTL

\* However executions overlap and whatever their handlers call: an execution
\* awaits the handlers of its beginning, in order, and always one of them.
THEOREM FramesAreAtomic == Spec => []AtomicFrame
<1>1. HookInv => AtomicFrame
  BY SortedProperties DEF HookInv, FramesKept, Framed, AtomicFrame
<1>. QED  BY <1>1, HookInvInductive, PTL

=============================================================================

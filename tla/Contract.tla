------------------------------ MODULE Contract -------------------------------
(***************************************************************************)
(* The structural contract check of typed capabilities:                    *)
(* signature_incompatibility (src/uxok/utils/_capability_utils.py) as      *)
(* _protocol_contract_violation (core/_capability_system.py) applies it to *)
(* one method of a protocol, against what a Python call does with its      *)
(* arguments.                                                              *)
(*                                                                         *)
(* A signature is its parameters: the sequence of those that may be given  *)
(* by position, how many of them from the left have to be (before `/`) and *)
(* how many have no default, the keyword-only ones and those without a     *)
(* default, *args and **kwargs.  No parameter has the name of *args or     *)
(* **kwargs.  Annotations are left out.                                    *)
(***************************************************************************)
EXTENDS Naturals, FiniteSets, SequencesExt

CONSTANTS Parameter,   \* the names of parameters
          Other,       \* a keyword that no signature declares
          Missing      \* the plugin has no such method

ASSUME ContractAssumption == IsFiniteSet(Parameter) /\ Other \notin Parameter

VARIABLES proto, provider, verdict

contractVars == <<proto, provider, verdict>>

Signature ==
  {s \in [pos : SetToAllKPermutations(Parameter),
          only : 0..Cardinality(Parameter), needed : 0..Cardinality(Parameter),
          ko : SUBSET Parameter, koNeeded : SUBSET Parameter,
          args : BOOLEAN, kwargs : BOOLEAN] :
     /\ s.only <= Len(s.pos) /\ s.needed <= Len(s.pos)
     /\ s.ko \cap ToSet(s.pos) = {} /\ s.koNeeded \subseteq s.ko}

ASSUME MissingAssumption == Missing \notin Signature

Declared(s) == ToSet(s.pos) \cup s.ko

Needed(s) == {s.pos[i] : i \in {j \in DOMAIN s.pos : j <= s.needed}} \cup s.koNeeded

-----------------------------------------------------------------------------
(* The check. *)

\* Rule 1: a parameter of the protocol that the provider neither declares nor
\* absorbs.
Unaccepted(p, q) ==
  {n \in Declared(p) \ Declared(q) : ~q.kwargs /\ (n \in p.ko \/ ~q.args)}

\* Mutants of rule 2: keyword-only parameters are required by nobody; a
\* default does not count.
UnsuppliedByPosition(p, q) ==
  {n \in (Needed(q) \ q.koNeeded) \ Declared(p) : ~p.kwargs /\ ~p.args}
UnsuppliedDefaults(p, q) ==
  {n \in Declared(q) \ Declared(p) : ~p.kwargs /\ (n \in q.ko \/ ~p.args)}

\* Rule 2: a parameter that the provider requires and the protocol neither
\* declares nor may be passing through.
Unsupplied(p, q) ==
  {n \in Needed(q) \ Declared(p) : ~p.kwargs /\ (n \in q.ko \/ ~p.args)}

Violation(p, q) == q = Missing \/ Unaccepted(p, q) # {} \/ Unsupplied(p, q) # {}

ContractInit ==
  /\ proto \in Signature
  /\ provider \in Signature \cup {Missing}
  /\ verdict = "pending"

Validate ==
  /\ verdict = "pending"
  /\ verdict' = IF Violation(proto, provider) THEN "refused" ELSE "admitted"
  /\ UNCHANGED <<proto, provider>>

ContractNext == Validate

ContractSpec == ContractInit /\ [][ContractNext]_contractVars

-----------------------------------------------------------------------------
(* The reference: how Python binds the arguments of a call. *)

\* A call gives some arguments by position and others by keyword.
Calls == [given : 0..Cardinality(Parameter) + 1, keywords : SUBSET (Parameter \cup {Other})]

\* What a keyword may name, when that many arguments are given by position.
Nameable(s, given) ==
  {s.pos[i] : i \in {j \in DOMAIN s.pos : j > given /\ j > s.only}} \cup s.ko

\* Given by position: **kwargs does not take it a second time.
Taken(s, given) == {s.pos[i] : i \in {j \in DOMAIN s.pos : j <= given /\ j > s.only}}

Accepts(s, call) ==
  /\ s # Missing
  /\ call.given > Len(s.pos) => s.args
  /\ \A k \in call.keywords :
       k \in Nameable(s, call.given) \/ (s.kwargs /\ k \notin Taken(s, call.given))
  /\ \A n \in Needed(s) :
       \/ n \in call.keywords \cap Nameable(s, call.given)
       \/ \E i \in DOMAIN s.pos : s.pos[i] = n /\ i <= call.given

-----------------------------------------------------------------------------
(* Properties. *)

NoneByPositionOnly == proto.only = 0 /\ (provider # Missing => provider.only = 0)

\* Among methods without positional-only parameters nobody is refused for
\* nothing: there is a call that suits the protocol and fails at the provider.
RefusalsJustified ==
  verdict = "refused" /\ NoneByPositionOnly =>
    \E call \in Calls : Accepts(proto, call) /\ ~Accepts(provider, call)

\* For a consumer that passes everything the protocol declares by keyword the
\* check is exact, if no parameter can get lost in an *args or **kwargs of
\* either side: it admits the providers that accept the call and no others.
ByKeyword(p) == [given |-> 0, keywords |-> Declared(p)]

KeywordCallsBind ==
  /\ verdict # "pending" /\ NoneByPositionOnly
  /\ ~proto.args /\ ~proto.kwargs
  /\ provider # Missing => ~provider.args
  =>
  (verdict = "admitted" <=> Accepts(provider, ByKeyword(proto)))

\* "A provider that passes validation is structurally guaranteed to satisfy
\* the protocol": it accepts every call that suits the protocol.
ProviderSatisfies ==
  verdict = "admitted" =>
    \A call \in Calls : Accepts(proto, call) => Accepts(provider, call)

=============================================================================

----------------------------- MODULE MCBatchLoad -----------------------------
(* Two capabilities and four plugins: the versions of a and b compete for  *)
(* both capabilities, adding and dropping them; d requires the first and   *)
(* provides the second, e the other way round, so that they form a cycle.  *)
(* x violates a contract and bears the name of a.  The versions of a and d  *)
(* bear a tag.  e declares that it depends on b.                           *)
EXTENDS BatchLoad

CONSTANTS c1, c2, i1, i2, i3, i4, a1, a2, a3, b1, b2, b3, d1, e1, x1, tag

IdTable == [p \in Plugin |->
  CASE p \in {a1, a2, a3, x1} -> i1 [] p \in {b1, b2, b3} -> i2 [] p = d1 -> i3 [] OTHER -> i4]
ProvidesTable == [p \in Plugin |->
  CASE p \in {a1, b1, e1} -> {c1}
    [] p \in {a2, b3, x1} -> {c1, c2}
    [] p \in {a3, d1} -> {c2}
    [] OTHER -> {}]
RequiresTable == [p \in Plugin |->
  CASE p = d1 -> {c1} [] p = e1 -> {c2} [] OTHER -> {}]
DependsTable == [p \in Plugin |-> IF p = e1 THEN {i2} ELSE {}]
TagsTable == [p \in Plugin |-> IF p \in {a1, a2, a3, d1} THEN {tag} ELSE {}]

\* Every source once at most, in any order, up to three of them.
Injective(S) == {b \in UNION {[1 .. n -> S] : n \in 1 .. 3} : IsInjective(b)}
Sources == Injective({a1, b3, d1, e1, x1, Garbage})
CyclicSources == {<<d1, e1, a1>>}
RivalSources == {<<b3, a1, d1>>}
DeclaringSources == {<<e1, b2>>}

=============================================================================

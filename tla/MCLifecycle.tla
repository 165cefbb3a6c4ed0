---------------------------- MODULE MCLifecycle -----------------------------
(* A provider a with a later version a2 and one that violates a contract   *)
(* (ax), and a consumer b with a later version b2 and one that no longer   *)
(* requires anything (bx).  a and b are handed to register_plugin, the     *)
(* others are sources of load_plugin.                                      *)
EXTENDS Lifecycle

CONSTANTS a, a2, ax, b, b2, bx, cap, k1, k2, k3, k4

Consumers == {b, b2, bx}

NameTable == [p \in Plugin |-> IF p \in Consumers THEN b ELSE a]
ProvidesTable == [p \in Plugin |-> IF p \in Consumers THEN {} ELSE {cap}]
RequiresTable == [p \in Plugin |-> IF p \in {b, b2} THEN {cap} ELSE {}]
DeclaredTable == [p \in Plugin |-> {}]

AnyCall == Permutations(Call)

=============================================================================

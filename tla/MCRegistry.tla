----------------------------- MODULE MCRegistry -----------------------------
(* The registry with three ids and four instances, two of which (p3, p4)   *)
(* share a name, so that a swap can succeed and a name can collide.         *)
EXTENDS GraphWalks

CONSTANTS p1, p2, p3, p4

NameTable == [p \in Plugin |-> IF p = p4 THEN p3 ELSE p]

=============================================================================

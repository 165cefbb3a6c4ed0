---------------------------- MODULE MCTickSystem ----------------------------
(* Two versions of a plugin, old and new, and another plugin.              *)
EXTENDS TickSystem

CONSTANTS old, new, other, w1, w2, w3

Versions == [o \in Owner |-> IF o = new THEN old ELSE o]
Callers == [w \in Work |-> IF w = w1 THEN old ELSE IF w = w2 THEN new ELSE other]

=============================================================================

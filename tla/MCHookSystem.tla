---------------------------- MODULE MCHookSystem ----------------------------
(* Three handlers of one hook, two of them with the same callback and two  *)
(* with the same priority, which a plugin registered in its old and its    *)
(* new version, and another plugin's handler of another hook.              *)
EXTENDS HookSystem

CONSTANTS n1, n2, h1, h2, h3, h4, f, g, p, q, old, new

NameTable == [h \in Hook |-> IF h = h4 THEN n2 ELSE n1]
PriorityTable == [h \in Hook |-> IF h = h3 THEN 2 ELSE 1]
CallbackTable == [h \in Hook |-> IF h \in {h1, h3} THEN f ELSE g]
PluginTable == [h \in Hook |-> IF h = h4 THEN q ELSE p]
OwnerTable == [h \in Hook |-> IF h = h4 THEN q ELSE IF h = h2 THEN new ELSE old]

=============================================================================

----------------------------- MODULE MCEventBus -----------------------------
(* Two names besides core.plugin_error; an exact subscription, one to a    *)
(* pattern of both names and one to core.plugin_error.                     *)
EXTENDS EventBus

CONSTANTS a, b, err, glob, bracket, exact, wide, onError, old, new, d1, d2

CoversTable ==
  [p \in Pattern |-> IF p \in {glob, bracket} THEN {a, b} ELSE {p}]
WildPatterns == {glob} \cap Pattern
PatternTable ==
  [s \in Sub |-> IF s = exact THEN a ELSE IF s = onError THEN err
                 ELSE IF bracket \in Pattern /\ s = wide THEN bracket ELSE glob]
PluginTable == [s \in Sub |-> IF s = onError THEN onError ELSE old]
OwnerTable == [s \in Sub |-> IF s = onError THEN onError ELSE IF s = exact THEN old ELSE new]

=============================================================================

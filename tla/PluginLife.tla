------------------------------ MODULE PluginLife ------------------------------
(***************************************************************************)
(* What the kernel promises the author of a plugin about the life of an    *)
(* instance (plugin/_base.py, "plugin instances are one-shot"): on_start   *)
(* runs, and may be tried again while it fails; on_stop runs once, and     *)
(* only after on_start has returned; then the instance is never used again.*)
(* Of any two instances this holds independently, and the kernel's         *)
(* operations move one of them at a time.                                  *)
(***************************************************************************)
CONSTANT Plugin

VARIABLE phase     \* phase[p]: new, starting, live, stopping or stopped

Init == phase = [p \in Plugin |-> "new"]

Moves(p, from, to) == phase[p] = from /\ phase' = [phase EXCEPT ![p] = to]

Starts(p) == Moves(p, "new", "starting")
StartFails(p) == Moves(p, "starting", "new")
Started(p) == Moves(p, "starting", "live")
Stops(p) == Moves(p, "live", "stopping")
Stopped(p) == Moves(p, "stopping", "stopped")

Next == \E p \in Plugin : Starts(p) \/ StartFails(p) \/ Started(p) \/ Stops(p) \/ Stopped(p)

Spec == Init /\ [][Next]_phase

=============================================================================

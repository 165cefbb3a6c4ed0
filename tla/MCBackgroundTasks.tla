-------------------------- MODULE MCBackgroundTasks --------------------------
EXTENDS BackgroundTasks, TLC

CONSTANTS t1, t2, t3

AnyTask == Permutations(Task)

=============================================================================

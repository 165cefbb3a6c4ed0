----------------------------- MODULE MCContract ------------------------------
EXTENDS Contract

CONSTANTS x, y

=============================================================================

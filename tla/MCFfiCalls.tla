------------------------------ MODULE MCFfiCalls ------------------------------
EXTENDS FfiCalls, TLC

CONSTANTS x, y   \* threads

Symmetry == Permutations(Threads)
=============================================================================

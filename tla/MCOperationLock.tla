---------------------------- MODULE MCOperationLock ----------------------------
EXTENDS OperationLock, TLC

CONSTANTS a, b, c

ThreeProcs == {a, b, c}
Symmetry   == Permutations(ThreeProcs)
===============================================================================

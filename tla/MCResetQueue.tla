---------------------------- MODULE MCResetQueue ----------------------------
EXTENDS ResetQueue, TLC

Symmetric == Permutations(Workers)
=============================================================================

-------------------------- MODULE MCSessionClient --------------------------
EXTENDS SessionClient, TLC
Symmetry == Permutations(Calls)
=============================================================================

---------------------------- MODULE MCMemoryTiers ----------------------------
EXTENDS MemoryTiers, TLC

Symmetry == Permutations(Clients)
=============================================================================

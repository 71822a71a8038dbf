--------------------------- MODULE MCMemoryProfiles ---------------------------
EXTENDS MemoryProfiles, TLC

Symmetry == Permutations(Batches)
=============================================================================

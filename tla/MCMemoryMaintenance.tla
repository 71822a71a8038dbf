------------------------- MODULE MCMemoryMaintenance -------------------------
EXTENDS MemoryMaintenance

CONSTANTS g1, g2
=============================================================================

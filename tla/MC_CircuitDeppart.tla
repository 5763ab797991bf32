------------------------- MODULE MC_CircuitDeppart -------------------------
EXTENDS CircuitDeppart
=============================================================================

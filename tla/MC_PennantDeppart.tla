--------------------------- MODULE MC_PennantDeppart ---------------------------
EXTENDS PennantDeppart
=============================================================================

-------------------------- MODULE MC_MiniAeroDeppart --------------------------
EXTENDS MiniAeroDeppart
=============================================================================

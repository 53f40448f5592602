----------------------------- MODULE MCConfigLoad -----------------------------
EXTENDS ConfigLoad, TLC
=============================================================================

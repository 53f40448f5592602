----------------------------- MODULE MCSshdSystem -----------------------------
EXTENDS SshdSystem, TLC
=============================================================================

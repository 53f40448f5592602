------------------------------ MODULE MCHostKeys ------------------------------
EXTENDS HostKeys, TLC
=============================================================================

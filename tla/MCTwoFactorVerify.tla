-------------------------- MODULE MCTwoFactorVerify --------------------------
EXTENDS TwoFactorVerify, TLC
=============================================================================

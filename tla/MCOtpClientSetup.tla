-------------------------- MODULE MCOtpClientSetup --------------------------
EXTENDS OtpClientSetup, TLC
=============================================================================

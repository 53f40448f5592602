--------------------------- MODULE MCPrincipalsCheck ---------------------------
EXTENDS PrincipalsCheck, TLC
=============================================================================

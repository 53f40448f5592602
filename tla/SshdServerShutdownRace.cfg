\* Shutdown may be called at any time and twice: after listen() but
\* before serve() sets Ready, and again after the server has closed.
CONSTANTS
    Conns = {c1}
    MaxAcceptErrors <- MCMaxAcceptErrors
    MaxShutdownCalls = 2
    ShutdownAfterReady = FALSE
SPECIFICATION Spec
PROPERTIES
    StatusNeverRegresses
CHECK_DEADLOCK FALSE

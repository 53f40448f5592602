\* One Shutdown call after Ready, as in the main configuration.
CONSTANTS
    Conns = {c1}
    MaxAcceptErrors <- MCMaxAcceptErrors
    MaxShutdownCalls = 1
    ShutdownAfterReady = TRUE
SPECIFICATION Spec
INVARIANTS
    ListenerClosedOnce
CHECK_DEADLOCK FALSE

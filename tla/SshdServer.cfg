\* Graceful shutdown as gitlab-sshd's main uses it: one Shutdown call,
\* made after the server has reported Ready.
CONSTANTS
    Conns = {c1, c2, c3}
    MaxAcceptErrors <- MCMaxAcceptErrors
    MaxShutdownCalls = 1
    ShutdownAfterReady = TRUE
SPECIFICATION Spec
INVARIANTS
    TypeOK
    DrainBeforeClose
    ReadyImpliesListening
PROPERTIES
    LifecycleRefined
    ShutdownClosesOnceDrained
    EveryArrivalAnswered
\* ListenAndServe returns; the process then stops.
CHECK_DEADLOCK FALSE

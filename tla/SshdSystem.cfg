\* Two connections, each with two channel-open requests and a session
\* limit of one; Shutdown may come at any time, before Ready included; no transient
\* Accept error (SshdServer.cfg has one).  No symmetry: ServerRefined is a temporal property.
CONSTANTS
    Conns = {c1, c2}
    Channels = {h1, h2}
    Limits = {1}
    MaxAcceptErrors = 0
    MaxShutdownCalls = 1
    ShutdownAfterReady = FALSE
SPECIFICATION Spec
INVARIANTS
    SessionsDrainBeforeClose
PROPERTIES
    ServerRefined
\* ListenAndServe returns; the process then stops.
CHECK_DEADLOCK FALSE

\* The design's scenario (section 8): one connection, five channel-open
\* requests and a limit of 3, so the fourth and fifth concurrent requests
\* meet a full semaphore and a closed session frees a slot for a new one;
\* and a limit of 0, which means unbounded.
CONSTANTS
    Conns = {k1}
    Channels = {h1, h2, h3, h4, h5}
    Limits = {0, 3}
SPECIFICATION Spec
INVARIANTS
    TypeOK
    SlotsMatchSessions
PROPERTIES
    AdmissionRefined
    EveryRequestDecided
\* conn.handle returns; the connection is over.
CHECK_DEADLOCK FALSE
